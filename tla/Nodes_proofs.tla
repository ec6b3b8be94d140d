---------------------------- MODULE Nodes_proofs ----------------------------
(***************************************************************************)
(* Proofs about the nodes: the store and the server's list of them         *)
(* (ConfigStore), which implement Configuration, and their connections and *)
(* streams (NodeStreams).                                                  *)
(***************************************************************************)
EXTENDS ConfigStore, NodeStreams, ListLemmas

Unique(list) == \A i, j \in DOMAIN list : list[i].id = list[j].id => i = j
Entry(S) == [id : 1..MaxID, address : S]

LEMMA NodeListIs ==
  ASSUME NEW S, NEW list
  PROVE  list \in NodeList(S) <=> list \in Seq(Entry(S)) /\ Unique(list)
<1> DEFINE ids == [i \in DOMAIN list |-> list[i].id]
<1>1. IsInjective(ids) <=> Unique(list)
  BY DEF IsInjective, Unique
<1>2. list \in NodeList(S) <=> list \in Seq(Entry(S)) /\ IsInjective(ids)
  BY DEF NodeList, Entry
<1>3. QED
  BY <1>1, <1>2

\* What a list of nodes is, place by place.
LEMMA NodeListHas ==
  ASSUME NEW S, NEW list \in NodeList(S)
  PROVE  /\ list \in Seq(Entry(S)) /\ Unique(list)
         /\ Len(list) \in Nat /\ DOMAIN list = 1..Len(list)
         /\ \A i \in 1..Len(list) : /\ list[i] \in Entry(S) /\ list[i].id \in 1..MaxID
                                    /\ list[i].address \in S
                                    /\ list[i] = [id |-> list[i].id, address |-> list[i].address]
<1>1. list \in Seq(Entry(S)) /\ Unique(list)
  BY NodeListIs
<1>2. Len(list) \in Nat /\ DOMAIN list = 1..Len(list) /\ \A i \in 1..Len(list) : list[i] \in Entry(S)
  BY <1>1
<1>3. \A e \in Entry(S) : e.id \in 1..MaxID /\ e.address \in S /\ e = [id |-> e.id, address |-> e.address]
  BY DEF Entry
<1>4. QED
  BY <1>1, <1>2, <1>3

LEMMA EmptyNodeList ==
  ASSUME NEW S PROVE <<>> \in NodeList(S)
<1>1. <<>> \in Seq(Entry(S)) /\ Unique(<<>>)
  BY DEF Unique
<1>2. QED
  BY <1>1, NodeListIs

\* IndexOf finds the one place of an identifier.
LEMMA IndexFound ==
  ASSUME NEW S, NEW list \in NodeList(S), NEW id \in IdentifiersOf(list)
  PROVE  /\ IndexOf(list, id) \in 1..Len(list) /\ list[IndexOf(list, id)].id = id
         /\ \A i \in 1..Len(list) : list[i].id = id => i = IndexOf(list, id)
<1>1. Unique(list) /\ DOMAIN list = 1..Len(list)
  BY NodeListHas
<1>2. \E i \in 1..Len(list) : list[i].id = id
  BY <1>1 DEF IdentifiersOf, ToSet
<1>3. IndexOf(list, id) \in 1..Len(list) /\ list[IndexOf(list, id)].id = id
  BY <1>1, <1>2 DEF IndexOf
<1>4. QED
  BY <1>1, <1>3 DEF Unique

LEMMA IdentifiersAre ==
  ASSUME NEW S, NEW list \in NodeList(S)
  PROVE  /\ IdentifiersOf(list) = {list[i].id : i \in 1..Len(list)}
         /\ IdentifiersOf(list) \subseteq 1..MaxID
<1>1. DOMAIN list = 1..Len(list) /\ \A i \in 1..Len(list) : list[i].id \in 1..MaxID
  BY NodeListHas
<1>2. IdentifiersOf(list) = {list[i].id : i \in 1..Len(list)}
  BY <1>1 DEF IdentifiersOf, ToSet
<1>3. QED
  BY <1>1, <1>2

\* A node that is shown: it can be used and is not hidden.
Visible(n, hidden) == n.address \in Usable /\ n.id \notin hidden

\* The places of a list that Shown shows, in order.
Shows(list, shown, m, nth, hidden) ==
  /\ shown = [j \in 1..m |-> list[nth[j]]]
  /\ \A j \in 1..m : nth[j] \in 1..Len(list) /\ Visible(list[nth[j]], hidden)
  /\ \A i, j \in 1..m : i < j => nth[i] < nth[j]
  /\ \A i \in 1..Len(list) : Visible(list[i], hidden) => \E j \in 1..m : nth[j] = i

LEMMA ShownIs ==
  ASSUME NEW hidden, NEW S, NEW list \in NodeList(S), NEW shown, NEW m \in Nat, NEW nth \in [1..m -> Nat],
         Shows(list, shown, m, nth, hidden)
  PROVE  shown = Shown(list, hidden)
<1> DEFINE kept == {i \in DOMAIN list : Visible(list[i], hidden)}
<1>1. DOMAIN list = 1..Len(list) /\ Len(list) \in Nat
  BY NodeListHas
<1>2. kept \subseteq Nat
  BY <1>1
<1>3. nth \in [1..m -> kept]
  BY <1>1 DEF Shows
<1>4. \A i \in kept : \E j \in 1..m : nth[j] = i
  BY <1>1 DEF Shows
<1>5. Shown(list, hidden) = Picked(list, kept)
  BY DEF Shown, Visible
<1> HIDE DEF kept
<1>6. Picked(list, kept) = [j \in 1..m |-> list[nth[j]]]
  <2>1. \A i, j \in 1..m : i < j => nth[i] < nth[j]
    BY DEF Shows
  <2>2. QED
    <3>1. /\ DOMAIN Picked(list, kept) = 1..m
          /\ \A j \in 1..m : Picked(list, kept)[j] = list[nth[j]]
      <4>1. Enumerates(kept, m, nth)
        BY <1>3, <1>4, <2>1 DEF Enumerates
      <4>2. DOMAIN Picked(list, kept) = 1..m /\ PickedAt(list, kept, nth, m)
        BY <1>2, <4>1, PickedIs
      <4>3. QED
        BY <4>2 DEF PickedAt
    <3>2. Picked(list, kept) = [i \in DOMAIN Picked(list, kept) |-> Picked(list, kept)[i]]
      BY DEF Picked
    <3>3. QED
      BY <3>1, <3>2
<1>7. QED
  BY <1>5, <1>6 DEF Shows

LEMMA ShownHas ==
  ASSUME NEW hidden, NEW list \in NodeList(Addresses)
  PROVE  /\ Shown(list, hidden) \in NodeList(Usable)
         /\ \E m \in Nat : \E nth \in [1..m -> Nat] : Shows(list, Shown(list, hidden), m, nth, hidden)
<1> DEFINE kept == {i \in DOMAIN list : Visible(list[i], hidden)}
<1>1. /\ DOMAIN list = 1..Len(list) /\ Len(list) \in Nat /\ list \in Seq(Entry(Addresses)) /\ Unique(list)
      /\ \A i \in 1..Len(list) : list[i].id \in 1..MaxID /\ list[i] = [id |-> list[i].id, address |-> list[i].address]
  BY NodeListHas
<1>2. kept \in SUBSET (1..Len(list))
  BY <1>1
<1>3. Shown(list, hidden) = Picked(list, kept)
  BY DEF Shown, Visible
<1>4. \A i \in kept : Visible(list[i], hidden)
  OBVIOUS
<1>5. \A i \in 1..Len(list) : Visible(list[i], hidden) => i \in kept
  BY <1>1
<1> HIDE DEF kept
<1>6. /\ Shown(list, hidden) \in Seq(Entry(Addresses))
      /\ \E m \in 0..Len(list) : \E nth \in [1..m -> kept] : PickedAt(list, kept, nth, m)
  BY <1>1, <1>2, <1>3, PickedElements
<1>16. PICK m \in 0..Len(list) : \E nth \in [1..m -> kept] : PickedAt(list, kept, nth, m)
  BY <1>6
<1>7. PICK nth \in [1..m -> kept] : PickedAt(list, kept, nth, m)
  BY <1>16
<1>8. m \in Nat /\ nth \in [1..m -> Nat] /\ \A j \in 1..m : nth[j] \in 1..Len(list) /\ nth[j] \in kept
  <2>1. m \in Nat
    BY <1>1
  <2>2. \A j \in 1..m : nth[j] \in kept
    OBVIOUS
  <2>7. \A i \in 1..Len(list) : i \in Nat
    BY <1>1
  <2>3. \A j \in 1..m : nth[j] \in 1..Len(list) /\ nth[j] \in Nat
    BY <1>2, <2>2, <2>7, Zenon
  <2>4. nth = [j \in 1..m |-> nth[j]]
    OBVIOUS
  <2>5. nth \in [1..m -> Nat]
    BY <2>3, <2>4
  <2>6. QED
    BY <2>1, <2>2, <2>3, <2>5
<1>9. /\ DOMAIN Shown(list, hidden) = 1..m /\ Len(Shown(list, hidden)) = m
      /\ \A j \in 1..m : Shown(list, hidden)[j] = list[nth[j]]
  <2>1. PICK p \in Seq(Entry(Addresses)) : p = Shown(list, hidden)
    BY <1>6
  <2>2. Len(p) = m /\ \A j \in 1..m : p[j] = list[nth[j]]
    BY <1>3, <1>7, <2>1 DEF PickedAt
  <2>3. DOMAIN p = 1..m
    BY <2>2
  <2>4. QED
    BY <2>1, <2>2, <2>3
<1>10. Shown(list, hidden) = [j \in 1..m |-> list[nth[j]]]
  BY <1>6, <1>9
<1>11. Shows(list, Shown(list, hidden), m, nth, hidden)
  <2>1. \A j \in 1..m : nth[j] \in 1..Len(list) /\ Visible(list[nth[j]], hidden)
    BY <1>4, <1>8
  <2>2. \A i, j \in 1..m : i < j => nth[i] < nth[j]
    BY <1>7 DEF PickedAt
  <2>3. \A i \in 1..Len(list) : Visible(list[i], hidden) => \E j \in 1..m : nth[j] = i
    BY <1>5, <1>7 DEF PickedAt
  <2>4. QED
    BY <1>10, <2>1, <2>2, <2>3 DEF Shows
<1>12. \A j \in 1..m : Shown(list, hidden)[j] \in Entry(Usable)
  <2> TAKE j \in 1..m
  <2>1. nth[j] \in 1..Len(list) /\ Visible(list[nth[j]], hidden)
    BY <1>4, <1>8
  <2>2. [id |-> list[nth[j]].id, address |-> list[nth[j]].address] \in Entry(Usable)
    BY <1>1, <2>1 DEF Entry, Visible
  <2>3. QED
    BY <1>1, <1>9, <2>1, <2>2
<1>13. Shown(list, hidden) \in Seq(Entry(Usable))
  BY <1>8, <1>10, <1>12
<1>14. Unique(Shown(list, hidden))
  <2> SUFFICES ASSUME NEW i \in 1..m, NEW j \in 1..m, list[nth[i]].id = list[nth[j]].id PROVE i = j
    BY <1>9 DEF Unique
  <2>1. nth[i] = nth[j]
    BY <1>1, <1>8 DEF Unique
  <2>2. nth[i] \in Nat /\ (i < j \/ i = j \/ j < i)
    BY <1>8
  <2>3. QED
    BY <1>8, <1>11, <2>1, <2>2 DEF Shows
<1>15. QED
  BY <1>8, <1>11, <1>13, <1>14, NodeListIs

\* A node that can be used can be stored.
LEMMA UsableEntry ==
  ASSUME NEW n \in Entry(Usable)
  PROVE  n \in Entry(Addresses) /\ n.id \in 1..MaxID /\ n.address \in Usable
  BY AddressesAssumption DEF Entry

LEMMA ListAppended ==
  ASSUME NEW S, NEW list \in NodeList(S), NEW n \in Entry(S), n.id \notin IdentifiersOf(list)
  PROVE  /\ Append(list, n) \in NodeList(S) /\ Len(Append(list, n)) = Len(list) + 1
         /\ \A i \in 1..Len(list) : Append(list, n)[i] = list[i]
         /\ Append(list, n)[Len(list) + 1] = n
<1> DEFINE new == Append(list, n)
           l == Len(list)
<1>1. list \in Seq(Entry(S)) /\ Unique(list) /\ l \in Nat /\ DOMAIN list = 1..l
  BY NodeListHas
<1>2. /\ new \in Seq(Entry(S)) /\ Len(new) = l + 1
      /\ \A i \in 1..l : new[i] = list[i]
      /\ new[l + 1] = n
  BY <1>1, AppendProperties
<1>3. \A i \in 1..l : list[i].id # n.id
  BY IdentifiersAre
<1>4. DOMAIN new = 1..(l + 1)
  BY <1>2
<1> HIDE DEF new, l
<1>5. Unique(new)
  <2> SUFFICES ASSUME NEW i \in 1..(l + 1), NEW j \in 1..(l + 1), new[i].id = new[j].id PROVE i = j
    BY <1>4 DEF Unique
  <2>1. (i \in 1..l \/ i = l + 1) /\ (j \in 1..l \/ j = l + 1)
    BY <1>1
  <2>2. CASE i \in 1..l /\ j \in 1..l
    BY <1>1, <1>2, <2>2 DEF Unique
  <2>3. CASE i = l + 1 \/ j = l + 1
    BY <1>2, <1>3, <2>1, <2>3
  <2>4. QED
    BY <2>1, <2>2, <2>3
<1>6. QED
  BY <1>2, <1>5, NodeListIs DEF new, l

\* A node that is added is shown last.
LEMMA ShownAppended ==
  ASSUME NEW hidden, NEW list \in NodeList(Addresses), NEW n \in Entry(Usable), n.id \notin IdentifiersOf(list),
         n.id \notin hidden
  PROVE  Shown(Append(list, n), hidden) = Append(Shown(list, hidden), n)
<1> DEFINE new == Append(list, n)
           l == Len(list)
<1>1. /\ l \in Nat /\ Visible(n, hidden)
      /\ new \in NodeList(Addresses) /\ Len(new) = l + 1
      /\ \A i \in 1..l : new[i] = list[i]
      /\ new[l + 1] = n
  BY UsableEntry, ListAppended, NodeListHas DEF Visible
<1>2. PICK m \in Nat : \E nth \in [1..m -> Nat] : Shows(list, Shown(list, hidden), m, nth, hidden)
  BY ShownHas
<1>3. PICK nth \in [1..m -> Nat] : Shows(list, Shown(list, hidden), m, nth, hidden)
  BY <1>2
<1> DEFINE nth2 == [j \in 1..(m + 1) |-> IF j = m + 1 THEN l + 1 ELSE nth[j]]
           shown == Append(Shown(list, hidden), n)
<1>4. /\ Shown(list, hidden) = [j \in 1..m |-> list[nth[j]]]
      /\ \A j \in 1..m : nth[j] \in 1..l /\ Visible(list[nth[j]], hidden)
      /\ \A i, j \in 1..m : i < j => nth[i] < nth[j]
      /\ \A i \in 1..l : Visible(list[i], hidden) => \E j \in 1..m : nth[j] = i
  BY <1>3 DEF Shows
<1>5. \A j \in 1..(m + 1) : j = m + 1 \/ (j \in 1..m /\ j # m + 1)
  BY <1>2
<1>6. \A j \in 1..m : nth2[j] = nth[j]
  BY <1>2
<1>7. nth2[m + 1] = l + 1
  BY <1>2
<1>8. nth2 \in [1..(m + 1) -> Nat]
  BY <1>1, <1>5
<1>9. Shown(list, hidden) \in Seq(Entry(Addresses)) /\ Len(Shown(list, hidden)) = m
  <2>1. \A j \in 1..m : list[nth[j]] \in Entry(Addresses)
    BY <1>4, NodeListHas
  <2>2. QED
    BY <1>2, <1>4, <2>1
<1>10. shown = [j \in 1..(m + 1) |-> IF j = m + 1 THEN n ELSE Shown(list, hidden)[j]]
  <2>1. /\ shown \in Seq(Entry(Addresses)) /\ Len(shown) = m + 1
        /\ \A j \in 1..m : shown[j] = Shown(list, hidden)[j]
        /\ shown[m + 1] = n
    BY <1>9, UsableEntry, AppendProperties
  <2> HIDE DEF shown
  <2>2. shown = [j \in 1..(m + 1) |-> shown[j]]
    BY <1>2, <2>1
  <2>3. QED
    BY <1>5, <2>1, <2>2
<1> HIDE DEF nth2, shown, l, new
<1>11. shown = [j \in 1..(m + 1) |-> new[nth2[j]]]
  <2>1. \A j \in 1..m : Shown(list, hidden)[j] = new[nth2[j]]
    BY <1>1, <1>4, <1>6
  <2>2. QED
    BY <1>1, <1>5, <1>7, <1>10, <2>1
<1>12. \A j \in 1..(m + 1) : nth2[j] \in 1..Len(new) /\ Visible(new[nth2[j]], hidden)
  <2> TAKE j \in 1..(m + 1)
  <2>1. CASE j = m + 1
    BY <1>1, <1>7, <2>1
  <2>2. CASE j \in 1..m
    <3>1. nth2[j] \in 1..l /\ Visible(list[nth2[j]], hidden)
      BY <1>4, <1>6, <2>2
    <3>2. QED
      BY <1>1, <3>1
  <2>3. QED
    BY <1>5, <2>1, <2>2
<1>13. \A i, j \in 1..(m + 1) : i < j => nth2[i] < nth2[j]
  <2> SUFFICES ASSUME NEW i \in 1..(m + 1), NEW j \in 1..(m + 1), i < j PROVE nth2[i] < nth2[j]
    OBVIOUS
  <2>1. i \in 1..m
    BY <1>2
  <2>2. nth2[i] = nth[i] /\ nth[i] \in 1..l
    BY <1>4, <1>6, <2>1
  <2>3. CASE j = m + 1
    BY <1>1, <1>7, <2>2, <2>3
  <2>4. CASE j \in 1..m
    BY <1>4, <1>6, <2>1, <2>4
  <2>5. QED
    BY <1>5, <2>3, <2>4
<1>14. \A i \in 1..Len(new) : Visible(new[i], hidden) => \E j \in 1..(m + 1) : nth2[j] = i
  <2> SUFFICES ASSUME NEW i \in 1..(l + 1), Visible(new[i], hidden) PROVE \E j \in 1..(m + 1) : nth2[j] = i
    BY <1>1
  <2>1. CASE i = l + 1
    BY <1>2, <1>7, <2>1
  <2>2. CASE i \in 1..l
    <3>1. PICK j \in 1..m : nth[j] = i
      BY <1>1, <1>4, <2>2
    <3>2. j \in 1..(m + 1)
      BY <1>2
    <3>3. QED
      BY <1>6, <3>1, <3>2
  <2>3. QED
    BY <1>1, <2>1, <2>2
<1>15. Shows(new, shown, m + 1, nth2, hidden)
  BY <1>11, <1>12, <1>13, <1>14 DEF Shows
<1>16. m + 1 \in Nat
  BY <1>2
<1>17. shown = Shown(new, hidden)
  BY <1>1, <1>8, <1>15, <1>16, ShownIs
<1>18. QED
  BY <1>17 DEF shown, new

LEMMA ListEdited ==
  ASSUME NEW S, NEW list \in NodeList(S), NEW i \in 1..Len(list), NEW a \in S
  PROVE  /\ [list EXCEPT ![i].address = a] \in NodeList(S)
         /\ Len([list EXCEPT ![i].address = a]) = Len(list)
         /\ \A j \in 1..Len(list) : [list EXCEPT ![i].address = a][j]
              = IF j = i THEN [id |-> list[i].id, address |-> a] ELSE list[j]
<1> DEFINE e == [id |-> list[i].id, address |-> a]
           new == [list EXCEPT ![i] = e]
           l == Len(list)
<1>1. /\ list \in Seq(Entry(S)) /\ Unique(list) /\ l \in Nat /\ DOMAIN list = 1..l
      /\ list[i].id \in 1..MaxID
      /\ list[i] = [id |-> list[i].id, address |-> list[i].address]
  BY NodeListHas
<1>2. [list EXCEPT ![i].address = a] = [list EXCEPT ![i] = [list[i] EXCEPT !.address = a]]
  OBVIOUS
<1>3. [list[i] EXCEPT !.address = a] = e
  BY <1>1
<1>4. [list EXCEPT ![i].address = a] = new
  BY <1>2, <1>3
<1>5. e \in Entry(S) /\ e.id = list[i].id
  BY <1>1 DEF Entry
<1> HIDE DEF e
<1>6. /\ new \in Seq(Entry(S)) /\ Len(new) = l
      /\ \A j \in 1..l : new[j] = IF j = i THEN e ELSE list[j]
  BY <1>1, <1>5, ExceptSeq
<1>7. DOMAIN new = 1..l
  BY <1>6
<1> HIDE DEF new
<1>8. \A j \in 1..l : new[j].id = list[j].id
  BY <1>5, <1>6
<1>9. Unique(new)
  BY <1>1, <1>7, <1>8 DEF Unique
<1>10. new \in NodeList(S)
  BY <1>6, <1>9, NodeListIs
<1>11. QED
  BY <1>4, <1>6, <1>10 DEF e

\* A shown node that is edited to an address that can be used stays where it is shown.
LEMMA ShownEdited ==
  ASSUME NEW hidden, NEW list \in NodeList(Addresses), NEW a \in Usable,
         NEW id \in IdentifiersOf(list), id \in IdentifiersOf(Shown(list, hidden))
  PROVE  Shown([list EXCEPT ![IndexOf(list, id)].address = a], hidden)
           = [Shown(list, hidden) EXCEPT ![IndexOf(Shown(list, hidden), id)].address = a]
<1> DEFINE k == IndexOf(list, id)
           h == IndexOf(Shown(list, hidden), id)
           e == [id |-> id, address |-> a]
           new == [list EXCEPT ![k].address = a]
           shown == [Shown(list, hidden) EXCEPT ![h].address = a]
           l == Len(list)
<1>1. a \in Addresses
  BY AddressesAssumption
<1>2. /\ l \in Nat /\ k \in 1..l /\ list[k].id = id
      /\ \A i \in 1..l : list[i].id = id => i = k
  BY IndexFound, NodeListHas
<1>3. /\ new \in NodeList(Addresses) /\ Len(new) = l
      /\ \A j \in 1..l : new[j] = IF j = k THEN e ELSE list[j]
  <2> HIDE DEF k
  <2>1. QED
    BY <1>1, <1>2, ListEdited
<1>4. PICK m \in Nat : \E nth \in [1..m -> Nat] : Shows(list, Shown(list, hidden), m, nth, hidden)
  BY ShownHas
<1>5. PICK nth \in [1..m -> Nat] : Shows(list, Shown(list, hidden), m, nth, hidden)
  BY <1>4
<1>6. /\ Shown(list, hidden) = [j \in 1..m |-> list[nth[j]]]
      /\ \A j \in 1..m : nth[j] \in 1..l /\ Visible(list[nth[j]], hidden)
      /\ \A i, j \in 1..m : i < j => nth[i] < nth[j]
      /\ \A i \in 1..l : Visible(list[i], hidden) => \E j \in 1..m : nth[j] = i
  BY <1>5 DEF Shows
<1>7. Shown(list, hidden) \in NodeList(Usable)
  BY ShownHas
<1>8. Len(Shown(list, hidden)) = m
  BY <1>6
<1>9. /\ h \in 1..m /\ Shown(list, hidden)[h].id = id
      /\ \A i \in 1..m : Shown(list, hidden)[i].id = id => i = h
  BY <1>7, <1>8, IndexFound
<1>10. /\ shown \in NodeList(Usable) /\ Len(shown) = m
       /\ \A j \in 1..m : shown[j] = IF j = h THEN e ELSE Shown(list, hidden)[j]
  <2> HIDE DEF h
  <2>1. h \in 1..Len(Shown(list, hidden)) /\ Shown(list, hidden)[h].id = id
    BY <1>8, <1>9
  <2>2. PICK p \in NodeList(Usable) : p = Shown(list, hidden)
    BY <1>7
  <2>3. /\ [p EXCEPT ![h].address = a] \in NodeList(Usable)
        /\ Len([p EXCEPT ![h].address = a]) = Len(p)
        /\ \A j \in 1..Len(p) : [p EXCEPT ![h].address = a][j]
             = IF j = h THEN [id |-> p[h].id, address |-> a] ELSE p[j]
    BY <2>1, <2>2, ListEdited
  <2>4. QED
    BY <1>8, <2>1, <2>2, <2>3
<1>11. shown = [j \in 1..m |-> shown[j]]
  <2>1. DOMAIN shown = 1..m /\ shown \in Seq(Entry(Usable))
    <3> HIDE DEF shown
    <3>1. QED
      BY <1>10, NodeListHas
  <2> HIDE DEF shown
  <2>2. QED
    BY <2>1
<1> HIDE DEF k, h, new, shown, l, e
<1>12. \A j \in 1..m : nth[j] = k <=> j = h
  <2>1. \A j \in 1..m : Shown(list, hidden)[j] = list[nth[j]] /\ nth[j] \in 1..l
    BY <1>6
  <2>2. QED
    BY <1>2, <1>9, <2>1
<1>13. shown = [j \in 1..m |-> new[nth[j]]]
  <2>1. \A j \in 1..m : shown[j] = new[nth[j]]
    <3> TAKE j \in 1..m
    <3>1. nth[j] \in 1..l /\ Shown(list, hidden)[j] = list[nth[j]]
      BY <1>6
    <3>2. CASE j = h
      BY <1>3, <1>10, <1>12, <3>1, <3>2
    <3>3. CASE j # h
      BY <1>3, <1>10, <1>12, <3>1, <3>3
    <3>4. QED
      BY <3>2, <3>3
  <2>2. QED
    BY <1>11, <2>1
<1>14. \A i \in 1..l : Visible(new[i], hidden) <=> Visible(list[i], hidden)
  <2>1. Visible(list[k], hidden)
    BY <1>6, <1>9, <1>12
  <2>2. Visible(e, hidden)
    BY <1>2, <2>1 DEF e, Visible
  <2>3. QED
    BY <1>3, <2>1, <2>2
<1>15. Shows(new, shown, m, nth, hidden)
  <2>1. \A j \in 1..m : nth[j] \in 1..Len(new) /\ Visible(new[nth[j]], hidden)
    BY <1>3, <1>6, <1>14
  <2>2. \A i \in 1..Len(new) : Visible(new[i], hidden) => \E j \in 1..m : nth[j] = i
    BY <1>3, <1>6, <1>14
  <2>3. QED
    BY <1>6, <1>13, <2>1, <2>2 DEF Shows
<1>16. shown = Shown(new, hidden)
  BY <1>3, <1>15, ShownIs
<1>17. QED
  BY <1>16 DEF shown, new, k, h

LEMMA ListRemoved ==
  ASSUME NEW S, NEW list \in NodeList(S), NEW i \in 1..Len(list)
  PROVE  /\ RemoveAt(list, i) \in NodeList(S) /\ Len(RemoveAt(list, i)) = Len(list) - 1
         /\ \A j \in 1..(Len(list) - 1) : RemoveAt(list, i)[j] = IF j < i THEN list[j] ELSE list[j + 1]
<1> DEFINE new == RemoveAt(list, i)
           l == Len(list)
<1>1. list \in Seq(Entry(S)) /\ Unique(list) /\ l \in Nat /\ DOMAIN list = 1..l
  BY NodeListHas
<1>2. /\ new \in Seq(Entry(S)) /\ Len(new) = l - 1
      /\ \A j \in 1..(l - 1) : new[j] = IF j < i THEN list[j] ELSE list[j + 1]
  BY <1>1, RemovedElements
<1> HIDE DEF new, l
<1>3. DOMAIN new = 1..(l - 1)
  BY <1>2
<1>4. \A j \in 1..(l - 1) : \E k \in 1..l : new[j] = list[k] /\ k = IF j < i THEN j ELSE j + 1
  <2> TAKE j \in 1..(l - 1)
  <2>1. j \in 1..l /\ j + 1 \in 1..l
    BY <1>1
  <2>2. QED
    BY <1>2, <2>1
<1>5. Unique(new)
  <2> SUFFICES ASSUME NEW j \in 1..(l - 1), NEW g \in 1..(l - 1), new[j].id = new[g].id PROVE j = g
    BY <1>3 DEF Unique
  <2>1. PICK k \in 1..l : new[j] = list[k] /\ k = IF j < i THEN j ELSE j + 1
    BY <1>4
  <2>2. PICK f \in 1..l : new[g] = list[f] /\ f = IF g < i THEN g ELSE g + 1
    BY <1>4
  <2>3. k = f
    BY <1>1, <2>1, <2>2 DEF Unique
  <2>4. i \in Int /\ j \in Int /\ g \in Int
    BY <1>1 DEF l
  <2>5. QED
    BY <2>1, <2>2, <2>3, <2>4
<1>6. QED
  BY <1>2, <1>5, NodeListIs DEF new, l

\* A shown node that is removed leaves the others in their order.
LEMMA ShownRemoved ==
  ASSUME NEW hidden, NEW list \in NodeList(Addresses),
         NEW id \in IdentifiersOf(list), id \in IdentifiersOf(Shown(list, hidden))
  PROVE  Shown(RemoveAt(list, IndexOf(list, id)), hidden) = RemoveAt(Shown(list, hidden), IndexOf(Shown(list, hidden), id))
<1> DEFINE k == IndexOf(list, id)
           h == IndexOf(Shown(list, hidden), id)
           new == RemoveAt(list, k)
           shown == RemoveAt(Shown(list, hidden), h)
           l == Len(list)
<1>1. /\ l \in Nat /\ k \in 1..l /\ list[k].id = id
      /\ \A i \in 1..l : list[i].id = id => i = k
  BY IndexFound, NodeListHas
<1>2. /\ new \in NodeList(Addresses) /\ Len(new) = l - 1
      /\ \A j \in 1..(l - 1) : new[j] = IF j < k THEN list[j] ELSE list[j + 1]
  <2> HIDE DEF k
  <2>1. QED
    BY <1>1, ListRemoved
<1>3. PICK m \in Nat : \E nth \in [1..m -> Nat] : Shows(list, Shown(list, hidden), m, nth, hidden)
  BY ShownHas
<1>4. PICK nth \in [1..m -> Nat] : Shows(list, Shown(list, hidden), m, nth, hidden)
  BY <1>3
<1>5. /\ Shown(list, hidden) = [j \in 1..m |-> list[nth[j]]]
      /\ \A j \in 1..m : nth[j] \in 1..l /\ Visible(list[nth[j]], hidden)
      /\ \A i, j \in 1..m : i < j => nth[i] < nth[j]
      /\ \A i \in 1..l : Visible(list[i], hidden) => \E j \in 1..m : nth[j] = i
  BY <1>4 DEF Shows
<1>6. Shown(list, hidden) \in NodeList(Usable)
  BY ShownHas
<1>7. Len(Shown(list, hidden)) = m
  BY <1>5
<1>8. /\ h \in 1..m /\ Shown(list, hidden)[h].id = id
      /\ \A i \in 1..m : Shown(list, hidden)[i].id = id => i = h
  BY <1>6, <1>7, IndexFound
<1>9. /\ shown \in NodeList(Usable) /\ Len(shown) = m - 1
      /\ \A j \in 1..(m - 1) : shown[j] = IF j < h THEN Shown(list, hidden)[j] ELSE Shown(list, hidden)[j + 1]
  <2> HIDE DEF h
  <2>1. h \in 1..Len(Shown(list, hidden))
    BY <1>7, <1>8
  <2>2. PICK p \in NodeList(Usable) : p = Shown(list, hidden)
    BY <1>6
  <2>3. /\ RemoveAt(p, h) \in NodeList(Usable) /\ Len(RemoveAt(p, h)) = Len(p) - 1
        /\ \A j \in 1..(Len(p) - 1) : RemoveAt(p, h)[j] = IF j < h THEN p[j] ELSE p[j + 1]
    BY <2>1, <2>2, ListRemoved
  <2>4. QED
    BY <1>7, <2>2, <2>3
<1>10. shown = [j \in 1..(m - 1) |-> shown[j]]
  <2>1. DOMAIN shown = 1..(m - 1) /\ shown \in Seq(Entry(Usable))
    <3> HIDE DEF shown
    <3>1. QED
      BY <1>9, NodeListHas
  <2> HIDE DEF shown
  <2>2. QED
    BY <2>1
<1> HIDE DEF k, h, new, shown, l
<1>11. nth[h] = k
  <2>1. Shown(list, hidden)[h] = list[nth[h]] /\ nth[h] \in 1..l
    BY <1>5, <1>8
  <2>2. QED
    BY <1>1, <1>8, <2>1
<1> DEFINE nth2 == [j \in 1..(m - 1) |-> IF j < h THEN nth[j] ELSE nth[j + 1] - 1]
<1>12. ASSUME NEW j \in 1..(m - 1)
       PROVE  /\ nth2[j] \in 1..(l - 1)
              /\ j < h => j \in 1..m /\ nth2[j] = nth[j] /\ nth[j] < k
              /\ ~ (j < h) => j + 1 \in 1..m /\ nth2[j] = nth[j + 1] - 1 /\ k < nth[j + 1]
  <2>1. j \in 1..m /\ j + 1 \in 1..m /\ h \in Int /\ j \in Int
    BY <1>8
  <2>2. nth[j] \in 1..l /\ nth[j + 1] \in 1..l
    BY <1>5, <2>1
  <2>3. CASE j < h
    <3>1. nth2[j] = nth[j] /\ nth[j] < k
      BY <1>5, <1>8, <1>11, <2>1, <2>3
    <3>2. QED
      BY <1>1, <2>1, <2>2, <2>3, <3>1
  <2>4. CASE ~ (j < h)
    <3>1. h < j + 1
      BY <2>1, <2>4
    <3>2. nth2[j] = nth[j + 1] - 1 /\ k < nth[j + 1]
      BY <1>5, <1>8, <1>11, <2>1, <2>4, <3>1
    <3>3. QED
      BY <1>1, <2>1, <2>2, <2>4, <3>2
  <2>5. QED
    BY <2>3, <2>4
<1>13. nth2 \in [1..(m - 1) -> Nat]
  <2>1. \A j \in 1..(m - 1) : nth2[j] \in Nat
    BY <1>1, <1>12
  <2>2. QED
    BY <2>1
<1> HIDE DEF nth2
<1>14. \A j \in 1..(m - 1) : new[nth2[j]] = shown[j] /\ Visible(new[nth2[j]], hidden)
  <2> TAKE j \in 1..(m - 1)
  <2>1. CASE j < h
    <3>1. /\ j \in 1..m /\ nth2[j] = nth[j] /\ nth[j] < k /\ nth2[j] \in 1..(l - 1)
          /\ nth[j] \in 1..l
      BY <1>5, <1>12, <2>1
    <3>2. new[nth2[j]] = list[nth[j]]
      BY <1>2, <3>1
    <3>3. shown[j] = list[nth[j]]
      BY <1>5, <1>9, <2>1, <3>1
    <3>4. QED
      BY <1>5, <3>1, <3>2, <3>3
  <2>2. CASE ~ (j < h)
    <3>1. /\ j + 1 \in 1..m /\ nth2[j] = nth[j + 1] - 1 /\ k < nth[j + 1] /\ nth2[j] \in 1..(l - 1)
          /\ nth[j + 1] \in 1..l
      BY <1>5, <1>12, <2>2
    <3>2. ~ (nth2[j] < k) /\ nth2[j] + 1 = nth[j + 1]
      BY <1>1, <3>1
    <3>3. new[nth2[j]] = list[nth[j + 1]]
      BY <1>2, <3>1, <3>2
    <3>4. shown[j] = list[nth[j + 1]]
      BY <1>5, <1>9, <2>2, <3>1
    <3>5. QED
      BY <1>5, <3>1, <3>3, <3>4
  <2>3. QED
    BY <2>1, <2>2
<1>15. \A i, j \in 1..(m - 1) : i < j => nth2[i] < nth2[j]
  <2> SUFFICES ASSUME NEW i \in 1..(m - 1), NEW j \in 1..(m - 1), i < j PROVE nth2[i] < nth2[j]
    OBVIOUS
  <2>1. i \in 1..m /\ j \in 1..m /\ i + 1 \in 1..m /\ j + 1 \in 1..m /\ i < j + 1 /\ i + 1 < j + 1
    BY <1>3
  <2>2. nth[i] < nth[j] /\ nth[i + 1] < nth[j + 1]
    BY <1>5, <2>1
  <2>3. nth[i] \in Nat /\ nth[j] \in Nat /\ nth[i + 1] \in Nat /\ nth[j + 1] \in Nat /\ k \in Nat /\ h \in Nat
    BY <1>1, <1>4, <1>8, <2>1
  <2>4. CASE j < h
    BY <1>12, <2>2, <2>3, <2>4
  <2>5. CASE ~ (j < h) /\ i < h
    BY <1>12, <2>3, <2>5
  <2>6. CASE ~ (j < h) /\ ~ (i < h)
    BY <1>12, <2>2, <2>3, <2>6
  <2>7. QED
    BY <2>4, <2>5, <2>6
<1>16. \A i \in 1..(l - 1) : Visible(new[i], hidden) => \E j \in 1..(m - 1) : nth2[j] = i
  <2> SUFFICES ASSUME NEW i \in 1..(l - 1), Visible(new[i], hidden) PROVE \E j \in 1..(m - 1) : nth2[j] = i
    OBVIOUS
  <2>1. k \in Int /\ i \in Int /\ h \in Int /\ m \in Int /\ i \in 1..l /\ i + 1 \in 1..l
    BY <1>1, <1>3, <1>8
  <2>2. CASE i < k
    <3>1. new[i] = list[i]
      BY <1>2, <2>2
    <3>2. PICK j \in 1..m : nth[j] = i
      BY <1>5, <2>1, <3>1
    <3>3. j # h /\ ~ (h < j)
      BY <1>1, <1>5, <1>8, <1>11, <2>1, <2>2, <3>2
    <3>4. j < h /\ j \in 1..(m - 1)
      BY <1>8, <2>1, <3>3
    <3>5. QED
      BY <1>12, <3>2, <3>4
  <2>3. CASE ~ (i < k)
    <3>1. new[i] = list[i + 1]
      BY <1>2, <2>3
    <3>2. PICK j \in 1..m : nth[j] = i + 1
      BY <1>5, <2>1, <3>1
    <3>3. j # h /\ ~ (j < h)
      BY <1>1, <1>5, <1>8, <1>11, <2>1, <2>3, <3>2
    <3>4. j - 1 \in 1..(m - 1) /\ ~ (j - 1 < h) /\ j - 1 + 1 = j
      BY <1>8, <2>1, <3>3
    <3>5. nth2[j - 1] = nth[j - 1 + 1] - 1
      BY <1>12, <3>4
    <3>6. nth2[j - 1] = i
      BY <2>1, <3>2, <3>4, <3>5
    <3>7. QED
      BY <3>4, <3>6
  <2>4. QED
    BY <2>2, <2>3
<1>17. shown = [j \in 1..(m - 1) |-> new[nth2[j]]]
  BY <1>10, <1>14
<1>18. Shows(new, shown, m - 1, nth2, hidden)
  <2>1. \A j \in 1..(m - 1) : nth2[j] \in 1..Len(new) /\ Visible(new[nth2[j]], hidden)
    BY <1>2, <1>12, <1>14
  <2>2. \A i \in 1..Len(new) : Visible(new[i], hidden) => \E j \in 1..(m - 1) : nth2[j] = i
    BY <1>2, <1>16
  <2>3. QED
    BY <1>15, <1>17, <2>1, <2>2 DEF Shows
<1>19. m - 1 \in Nat
  BY <1>8
<1>20. shown = Shown(new, hidden)
  BY <1>2, <1>13, <1>18, <1>19, ShownIs
<1>21. QED
  BY <1>20 DEF shown, new, k, h

\* Nodes that are not shown show nothing after those that are.
LEMMA ShownFirst ==
  ASSUME NEW hidden, NEW p \in NodeList(Usable), NEW q \in Seq(Entry(Addresses)),
         \A i \in 1..Len(p) : Visible(p[i], hidden),
         \A i \in 1..Len(q) : ~ Visible(q[i], hidden),
         p \o q \in NodeList(Addresses)
  PROVE  Shown(p \o q, hidden) = p
<1> DEFINE all == p \o q
           m == Len(p)
           nth == [j \in 1..m |-> j]
<1>1. /\ p \in Seq(Entry(Usable)) /\ m \in Nat /\ DOMAIN p = 1..m
      /\ \A i \in 1..m : Visible(p[i], hidden) /\ p[i] \in Entry(Usable)
  BY NodeListHas
<1>2. p \in Seq(Entry(Addresses))
  BY <1>1, UsableEntry
<1>3. /\ Len(all) = m + Len(q)
      /\ \A i \in 1..(m + Len(q)) : all[i] = IF i <= m THEN p[i] ELSE q[i - m]
  BY <1>2, ConcatProperties
<1>4. Len(q) \in Nat
  OBVIOUS
<1> HIDE DEF all, m
<1>5. \A i \in 1..m : all[i] = p[i] /\ i \in 1..Len(all)
  BY <1>1, <1>3, <1>4
<1>6. \A i \in 1..Len(all) : Visible(all[i], hidden) => i \in 1..m
  <2> SUFFICES ASSUME NEW i \in 1..Len(all), ~ (i <= m) PROVE ~ Visible(all[i], hidden)
    BY <1>1, <1>3, <1>4
  <2>1. all[i] = q[i - m] /\ i - m \in 1..Len(q)
    BY <1>1, <1>3, <1>4
  <2>2. QED
    BY <2>1
<1>7. nth \in [1..m -> Nat] /\ \A j \in 1..m : nth[j] = j
  BY <1>1
<1>8. p = [j \in 1..m |-> p[j]]
  BY <1>1
<1> HIDE DEF nth
<1>9. Shows(all, p, m, nth, hidden)
  <2>1. p = [j \in 1..m |-> all[nth[j]]]
    BY <1>5, <1>7, <1>8
  <2>2. \A j \in 1..m : nth[j] \in 1..Len(all) /\ Visible(all[nth[j]], hidden)
    BY <1>1, <1>5, <1>7
  <2>3. \A i \in 1..Len(all) : Visible(all[i], hidden) => \E j \in 1..m : nth[j] = i
    BY <1>6, <1>7
  <2>4. QED
    BY <1>7, <2>1, <2>2, <2>3 DEF Shows
<1>10. all \in NodeList(Addresses)
  BY DEF all
<1>11. p = Shown(all, hidden)
  BY <1>1, <1>7, <1>9, <1>10, ShownIs
<1>12. QED
  BY <1>11 DEF all

\* The two parts of an ordered list: the nodes that the order names, each where it
\* names it first, and those it leaves out.
FirstNamed(list, ids) ==
  {k \in DOMAIN ids : ids[k] \in IdentifiersOf(list) /\ \A h \in 1..(k - 1) : ids[h] # ids[k]}
Known(list, ids) == Picked(ids, FirstNamed(list, ids))
Named(list, ids) == [i \in DOMAIN Known(list, ids) |-> list[IndexOf(list, Known(list, ids)[i])]]
LeftOut(list, ids) == Picked(list, {i \in DOMAIN list : list[i].id \notin ToSet(ids)})

LEMMA OrderedIs ==
  ASSUME NEW list, NEW ids
  PROVE  Ordered(list, ids) = Named(list, ids) \o LeftOut(list, ids)
  BY DEF Ordered, Named, Known, FirstNamed, LeftOut

LEMMA KnownHas ==
  ASSUME NEW S, NEW list \in NodeList(S), NEW ids \in Seq(Nat)
  PROVE  /\ Known(list, ids) \in Seq(Nat)
         /\ \A i \in 1..Len(Known(list, ids)) :
              Known(list, ids)[i] \in IdentifiersOf(list) /\ Known(list, ids)[i] \in ToSet(ids)
         /\ \A i, j \in 1..Len(Known(list, ids)) : Known(list, ids)[i] = Known(list, ids)[j] => i = j
         /\ \A id \in IdentifiersOf(list) : id \in ToSet(ids) =>
              \E i \in 1..Len(Known(list, ids)) : Known(list, ids)[i] = id
<1> DEFINE kept == FirstNamed(list, ids)
           known == Known(list, ids)
<1>1. Len(ids) \in Nat /\ DOMAIN ids = 1..Len(ids) /\ \A k \in 1..Len(ids) : ids[k] \in Nat
  OBVIOUS
<1>2. kept \in SUBSET (1..Len(ids))
  BY <1>1 DEF FirstNamed
<1>3. known = Picked(ids, kept)
  BY DEF Known
<1>4. \A k \in kept : /\ k \in 1..Len(ids) /\ ids[k] \in IdentifiersOf(list)
                      /\ \A h \in 1..(k - 1) : ids[h] # ids[k]
  BY <1>1 DEF FirstNamed
<1>5. \A k \in 1..Len(ids) : ids[k] \in IdentifiersOf(list) /\ (\A h \in 1..(k - 1) : ids[h] # ids[k]) => k \in kept
  BY <1>1 DEF FirstNamed
<1> HIDE DEF kept, known
<1>6. /\ known \in Seq(Nat)
      /\ \E m \in 0..Len(ids) : \E nth \in [1..m -> kept] : PickedAt(ids, kept, nth, m)
  BY <1>2, <1>3, PickedElements
<1>7. PICK m \in 0..Len(ids) : \E nth \in [1..m -> kept] : PickedAt(ids, kept, nth, m)
  BY <1>6
<1>8. PICK nth \in [1..m -> kept] : PickedAt(ids, kept, nth, m)
  BY <1>7
<1>9. /\ Len(known) = m
      /\ \A j \in 1..m : known[j] = ids[nth[j]]
      /\ \A i, j \in 1..m : i < j => nth[i] < nth[j]
      /\ \A i \in kept : \E j \in 1..m : nth[j] = i
  BY <1>3, <1>8 DEF PickedAt
<1>10. \A j \in 1..m : nth[j] \in kept
  OBVIOUS
<1>11. \A i \in 1..m : known[i] \in IdentifiersOf(list) /\ known[i] \in ToSet(ids)
  BY <1>1, <1>4, <1>9, <1>10 DEF ToSet
<1>12. \A i, j \in 1..m : i < j => known[i] # known[j]
  <2> SUFFICES ASSUME NEW i \in 1..m, NEW j \in 1..m, i < j PROVE known[i] # known[j]
    OBVIOUS
  <2>4. known[i] = ids[nth[i]] /\ known[j] = ids[nth[j]]
    BY <1>9
  <2>1. nth[i] \in 1..Len(ids) /\ nth[j] \in 1..Len(ids) /\ nth[i] < nth[j] /\ nth[j] \in kept
    BY <1>4, <1>9, <1>10
  <2>2. nth[i] \in 1..(nth[j] - 1)
    BY <1>1, <2>1
  <2>3. QED
    BY <1>4, <2>1, <2>2, <2>4
<1>13. \A i, j \in 1..m : known[i] = known[j] => i = j
  <2> TAKE i, j \in 1..m
  <2>1. i < j \/ i = j \/ j < i
    OBVIOUS
  <2>2. QED
    BY <1>12, <2>1
<1>14. ASSUME NEW id \in IdentifiersOf(list), id \in ToSet(ids)
       PROVE  \E i \in 1..m : known[i] = id
  <2> DEFINE places == {k \in 1..Len(ids) : ids[k] = id}
  <2>1. places \subseteq Nat /\ places # {}
    BY <1>1, <1>14 DEF ToSet
  <2>2. PICK k \in places : \A h \in places : k <= h
    BY <2>1, LeastNatural
  <2>3. k \in kept
    <3>1. \A h \in 1..(k - 1) : ids[h] # ids[k]
      <4> SUFFICES ASSUME NEW h \in 1..(k - 1), ids[h] = ids[k] PROVE FALSE
        OBVIOUS
      <4>1. k \in 1..Len(ids) /\ h < k /\ h \in 1..Len(ids)
        BY <1>1, <2>2
      <4>2. h \in places
        BY <4>1
      <4>3. k <= h
        BY <2>2, <4>2
      <4>4. QED
        BY <1>1, <4>1, <4>3
    <3>2. QED
      BY <1>5, <3>1
  <2>4. PICK j \in 1..m : nth[j] = k
    BY <1>9, <2>3
  <2>5. QED
    BY <1>9, <2>4
<1>15. QED
  BY <1>6, <1>9, <1>11, <1>13, <1>14 DEF known

LEMMA NamedHas ==
  ASSUME NEW S, NEW list \in NodeList(S), NEW ids \in Seq(Nat)
  PROVE  /\ Named(list, ids) \in Seq(Entry(S)) /\ Unique(Named(list, ids))
         /\ Len(Named(list, ids)) = Len(Known(list, ids))
         /\ \A j \in 1..Len(Named(list, ids)) :
              /\ Named(list, ids)[j].id = Known(list, ids)[j] /\ Named(list, ids)[j].id \in ToSet(ids)
              /\ \E i \in 1..Len(list) : Named(list, ids)[j] = list[i]
         /\ \A i \in 1..Len(list) : list[i].id \in ToSet(ids) =>
              \E j \in 1..Len(Named(list, ids)) : Named(list, ids)[j] = list[i]
<1> DEFINE known == Known(list, ids)
           named == Named(list, ids)
           at(i) == IndexOf(list, known[i])
<1>1. /\ known \in Seq(Nat)
      /\ \A i \in 1..Len(known) : known[i] \in IdentifiersOf(list) /\ known[i] \in ToSet(ids)
      /\ \A i, j \in 1..Len(known) : known[i] = known[j] => i = j
      /\ \A id \in IdentifiersOf(list) : id \in ToSet(ids) => \E i \in 1..Len(known) : known[i] = id
  BY KnownHas
<1>2. DOMAIN known = 1..Len(known) /\ Len(known) \in Nat
  BY <1>1
<1>3. named = [i \in 1..Len(known) |-> list[at(i)]]
  BY <1>2 DEF Named
<1>4. \A i \in 1..Len(known) :
        /\ at(i) \in 1..Len(list) /\ list[at(i)].id = known[i]
        /\ \A k \in 1..Len(list) : list[k].id = known[i] => k = at(i)
  BY <1>1, IndexFound
<1>5. \A i \in 1..Len(list) : list[i] \in Entry(S) /\ list[i].id \in IdentifiersOf(list)
  BY NodeListHas, IdentifiersAre
<1> HIDE DEF known, named, at
<1>6. \A i \in 1..Len(known) : named[i] = list[at(i)] /\ named[i] \in Entry(S) /\ named[i].id = known[i]
  BY <1>3, <1>4, <1>5
<1>7. named \in Seq(Entry(S)) /\ Len(named) = Len(known) /\ DOMAIN named = 1..Len(known)
  BY <1>2, <1>3, <1>6
<1>8. Unique(named)
  BY <1>1, <1>6, <1>7 DEF Unique
<1>9. \A i \in 1..Len(list) : list[i].id \in ToSet(ids) => \E j \in 1..Len(known) : named[j] = list[i]
  <2> SUFFICES ASSUME NEW i \in 1..Len(list), list[i].id \in ToSet(ids)
               PROVE  \E j \in 1..Len(known) : named[j] = list[i]
    OBVIOUS
  <2>1. PICK j \in 1..Len(known) : known[j] = list[i].id
    BY <1>1, <1>5
  <2>2. i = at(j)
    BY <1>4, <2>1
  <2>3. QED
    BY <1>6, <2>1, <2>2
<1>10. QED
  BY <1>1, <1>4, <1>6, <1>7, <1>8, <1>9 DEF known, named

LEMMA LeftOutHas ==
  ASSUME NEW S, NEW list \in NodeList(S), NEW ids
  PROVE  /\ LeftOut(list, ids) \in Seq(Entry(S)) /\ Unique(LeftOut(list, ids))
         /\ \A j \in 1..Len(LeftOut(list, ids)) :
              /\ LeftOut(list, ids)[j].id \notin ToSet(ids)
              /\ \E i \in 1..Len(list) : LeftOut(list, ids)[j] = list[i]
         /\ \A i \in 1..Len(list) : list[i].id \notin ToSet(ids) =>
              \E j \in 1..Len(LeftOut(list, ids)) : LeftOut(list, ids)[j] = list[i]
<1> DEFINE kept == {i \in DOMAIN list : list[i].id \notin ToSet(ids)}
           left == LeftOut(list, ids)
<1>1. /\ list \in Seq(Entry(S)) /\ Unique(list) /\ DOMAIN list = 1..Len(list) /\ Len(list) \in Nat
  BY NodeListHas
<1>2. kept \in SUBSET (1..Len(list))
  BY <1>1
<1>3. left = Picked(list, kept)
  BY DEF LeftOut
<1>4. \A i \in 1..Len(list) : i \in kept <=> list[i].id \notin ToSet(ids)
  BY <1>1
<1> HIDE DEF kept, left
<1>5. /\ left \in Seq(Entry(S))
      /\ \E m \in 0..Len(list) : \E nth \in [1..m -> kept] : PickedAt(list, kept, nth, m)
  BY <1>1, <1>2, <1>3, PickedElements
<1>6. PICK m \in 0..Len(list) : \E nth \in [1..m -> kept] : PickedAt(list, kept, nth, m)
  BY <1>5
<1>7. PICK nth \in [1..m -> kept] : PickedAt(list, kept, nth, m)
  BY <1>6
<1>8. /\ Len(left) = m
      /\ \A j \in 1..m : left[j] = list[nth[j]]
      /\ \A i, j \in 1..m : i < j => nth[i] < nth[j]
      /\ \A i \in kept : \E j \in 1..m : nth[j] = i
  BY <1>3, <1>7 DEF PickedAt
<1>9. \A j \in 1..m : nth[j] \in 1..Len(list) /\ nth[j] \in kept /\ list[nth[j]].id \notin ToSet(ids)
  <2>1. \A j \in 1..m : nth[j] \in kept
    OBVIOUS
  <2>2. QED
    BY <1>2, <1>4, <2>1, Zenon
<1>10. \A i, j \in 1..m : left[i].id = left[j].id => i = j
  <2> SUFFICES ASSUME NEW i \in 1..m, NEW j \in 1..m, list[nth[i]].id = list[nth[j]].id PROVE i = j
    BY <1>8
  <2>1. nth[i] = nth[j]
    BY <1>1, <1>9 DEF Unique
  <2>2. nth[i] \in 1..Len(list) /\ (i < j \/ i = j \/ j < i)
    BY <1>9
  <2>3. ~ (i < j) /\ ~ (j < i)
    BY <1>1, <1>8, <2>1, <2>2
  <2>4. QED
    BY <2>2, <2>3
<1>11. DOMAIN left = 1..m
  BY <1>5, <1>8
<1>12. Unique(left)
  BY <1>10, <1>11 DEF Unique
<1>13. \A j \in 1..m : left[j].id \notin ToSet(ids) /\ \E i \in 1..Len(list) : left[j] = list[i]
  BY <1>8, <1>9
<1>14. \A i \in 1..Len(list) : list[i].id \notin ToSet(ids) => \E j \in 1..m : left[j] = list[i]
  <2> SUFFICES ASSUME NEW i \in 1..Len(list), list[i].id \notin ToSet(ids) PROVE \E j \in 1..m : left[j] = list[i]
    OBVIOUS
  <2>1. PICK j \in 1..m : nth[j] = i
    BY <1>4, <1>8
  <2>2. QED
    BY <1>8, <2>1
<1>15. QED
  BY <1>5, <1>8, <1>12, <1>13, <1>14 DEF left

\* An order changes the places of the nodes and nothing else.
SameNodes(p, q) ==
  /\ \A i \in 1..Len(p) : \E j \in 1..Len(q) : q[j] = p[i]
  /\ \A j \in 1..Len(q) : \E i \in 1..Len(p) : q[j] = p[i]

LEMMA OrderedKeeps ==
  ASSUME NEW S, NEW list \in NodeList(S), NEW ids \in Seq(Nat)
  PROVE  Ordered(list, ids) \in NodeList(S) /\ SameNodes(list, Ordered(list, ids))
<1> DEFINE p == Named(list, ids)
           q == LeftOut(list, ids)
           new == p \o q
<1>1. /\ p \in Seq(Entry(S)) /\ Unique(p)
      /\ \A j \in 1..Len(p) : p[j].id \in ToSet(ids) /\ \E i \in 1..Len(list) : p[j] = list[i]
      /\ \A i \in 1..Len(list) : list[i].id \in ToSet(ids) => \E j \in 1..Len(p) : p[j] = list[i]
  BY NamedHas
<1>2. /\ q \in Seq(Entry(S)) /\ Unique(q)
      /\ \A j \in 1..Len(q) : q[j].id \notin ToSet(ids) /\ \E i \in 1..Len(list) : q[j] = list[i]
      /\ \A i \in 1..Len(list) : list[i].id \notin ToSet(ids) => \E j \in 1..Len(q) : q[j] = list[i]
  BY LeftOutHas
<1>3. Ordered(list, ids) = new
  BY OrderedIs
<1> HIDE DEF p, q
<1>4. /\ new \in Seq(Entry(S)) /\ Len(new) = Len(p) + Len(q)
      /\ \A i \in 1..(Len(p) + Len(q)) : new[i] = IF i <= Len(p) THEN p[i] ELSE q[i - Len(p)]
  BY <1>1, <1>2, ConcatProperties
<1>5. /\ Len(p) \in Nat /\ Len(q) \in Nat /\ DOMAIN p = 1..Len(p) /\ DOMAIN q = 1..Len(q)
      /\ DOMAIN new = 1..(Len(p) + Len(q))
  BY <1>1, <1>2, <1>4
<1> HIDE DEF new
<1>6. ASSUME NEW j \in 1..(Len(p) + Len(q))
      PROVE  \/ j \in 1..Len(p) /\ new[j] = p[j]
             \/ j - Len(p) \in 1..Len(q) /\ new[j] = q[j - Len(p)] /\ j = Len(p) + (j - Len(p))
  BY <1>4, <1>5
<1>7. \A j \in 1..Len(p) : j \in 1..(Len(p) + Len(q)) /\ new[j] = p[j]
  BY <1>4, <1>5
<1>8. \A j \in 1..Len(q) : Len(p) + j \in 1..(Len(p) + Len(q)) /\ new[Len(p) + j] = q[j]
  <2> TAKE j \in 1..Len(q)
  <2>1. Len(p) + j \in 1..(Len(p) + Len(q)) /\ ~ (Len(p) + j <= Len(p)) /\ Len(p) + j - Len(p) = j
    BY <1>5
  <2>2. QED
    BY <1>4, <2>1
<1>9. Unique(new)
  <2> SUFFICES ASSUME NEW i \in 1..(Len(p) + Len(q)), NEW j \in 1..(Len(p) + Len(q)), new[i].id = new[j].id
               PROVE  i = j
    BY <1>5 DEF Unique
  <2>1. CASE i \in 1..Len(p) /\ new[i] = p[i] /\ j \in 1..Len(p) /\ new[j] = p[j]
    BY <1>1, <1>5, <2>1 DEF Unique
  <2>2. CASE /\ i - Len(p) \in 1..Len(q) /\ new[i] = q[i - Len(p)] /\ i = Len(p) + (i - Len(p))
             /\ j - Len(p) \in 1..Len(q) /\ new[j] = q[j - Len(p)] /\ j = Len(p) + (j - Len(p))
    <3>1. PICK a \in 1..Len(q) : a = i - Len(p)
      BY <2>2
    <3>2. PICK b \in 1..Len(q) : b = j - Len(p)
      BY <2>2
    <3>3. q[a].id = q[b].id
      BY <2>2, <3>1, <3>2
    <3>4. a = b
      BY <1>2, <1>5, <3>3 DEF Unique
    <3>5. QED
      BY <2>2, <3>1, <3>2, <3>4
  <2>3. QED
    BY <1>1, <1>2, <1>6, <2>1, <2>2
<1>10. \A i \in 1..Len(list) : \E j \in 1..Len(new) : new[j] = list[i]
  <2> TAKE i \in 1..Len(list)
  <2>1. CASE list[i].id \in ToSet(ids)
    BY <1>1, <1>4, <1>7, <2>1
  <2>2. CASE list[i].id \notin ToSet(ids)
    <3>1. PICK j \in 1..Len(q) : q[j] = list[i]
      BY <1>2, <2>2
    <3>2. QED
      BY <1>4, <1>8, <3>1
  <2>3. QED
    BY <2>1, <2>2
<1>11. \A j \in 1..Len(new) : \E i \in 1..Len(list) : new[j] = list[i]
  <2> TAKE j \in 1..Len(new)
  <2>1. j \in 1..(Len(p) + Len(q))
    BY <1>4
  <2>2. CASE j \in 1..Len(p) /\ new[j] = p[j]
    BY <1>1, <2>2
  <2>3. CASE j - Len(p) \in 1..Len(q) /\ new[j] = q[j - Len(p)]
    BY <1>2, <2>3
  <2>4. QED
    BY <1>6, <2>1, <2>2, <2>3
<1>12. QED
  BY <1>3, <1>4, <1>9, <1>10, <1>11, NodeListIs DEF SameNodes

\* The identifiers of a list in its order.
IDsOf(list) == [i \in DOMAIN list |-> list[i].id]

\* What the server orders is what the store's list, ordered by its identifiers, shows.
LEMMA ShownReordered ==
  ASSUME NEW hidden, NEW list \in NodeList(Addresses), NEW shown \in NodeList(Usable), SameNodes(Shown(list, hidden), shown)
  PROVE  /\ IDsOf(shown) \in Seq(Nat)
         /\ Shown(Ordered(list, IDsOf(shown)), hidden) = shown
<1> DEFINE ids == IDsOf(shown)
           m == Len(shown)
           l == Len(list)
           kept == FirstNamed(list, ids)
           nth == [j \in 1..m |-> j]
<1>1. /\ shown \in Seq(Entry(Usable)) /\ Unique(shown) /\ m \in Nat /\ DOMAIN shown = 1..m
      /\ \A i \in 1..m : shown[i] \in Entry(Usable) /\ shown[i].id \in 1..MaxID
  BY NodeListHas
<1>2. /\ list \in Seq(Entry(Addresses)) /\ Unique(list) /\ l \in Nat /\ DOMAIN list = 1..l
      /\ \A i \in 1..l : list[i].id \in IdentifiersOf(list)
  BY NodeListHas, IdentifiersAre
<1>3. DOMAIN ids = 1..m /\ \A i \in 1..m : ids[i] = shown[i].id
  BY <1>1 DEF IDsOf
<1>4. ids \in Seq(Nat) /\ Len(ids) = m
  <2>1. ids = [i \in 1..m |-> shown[i].id]
    BY <1>1 DEF IDsOf
  <2>2. MaxID \in Nat
    BY BoundAssumption
  <2>3. \A i \in 1..m : shown[i].id \in Nat
    BY <1>1, <2>2
  <2> HIDE DEF ids
  <2>4. QED
    BY <1>1, <2>1, <2>3
<1>5. PICK n \in Nat : \E nth2 \in [1..n -> Nat] : Shows(list, Shown(list, hidden), n, nth2, hidden)
  BY ShownHas
<1>6. PICK nth2 \in [1..n -> Nat] : Shows(list, Shown(list, hidden), n, nth2, hidden)
  BY <1>5
<1>7. /\ Len(Shown(list, hidden)) = n
      /\ \A j \in 1..n : /\ Shown(list, hidden)[j] = list[nth2[j]] /\ nth2[j] \in 1..l
                         /\ Visible(list[nth2[j]], hidden)
      /\ \A i \in 1..l : Visible(list[i], hidden) => \E j \in 1..n : nth2[j] = i
  BY <1>6 DEF Shows
<1> HIDE DEF ids, m, l
<1>8. \A j \in 1..m : \E i \in 1..l : shown[j] = list[i]
  <2> TAKE j \in 1..m
  <2>1. PICK i \in 1..n : shown[j] = Shown(list, hidden)[i]
    BY <1>7 DEF SameNodes, m
  <2>2. QED
    BY <1>7, <2>1
<1>9. \A i \in 1..l : Visible(list[i], hidden) => \E j \in 1..m : shown[j] = list[i]
  <2> SUFFICES ASSUME NEW i \in 1..l, Visible(list[i], hidden) PROVE \E j \in 1..m : shown[j] = list[i]
    OBVIOUS
  <2>1. PICK k \in 1..n : Shown(list, hidden)[k] = list[i]
    BY <1>7
  <2>2. PICK j \in 1..m : shown[j] = Shown(list, hidden)[k]
    BY <1>7 DEF SameNodes, m
  <2>3. QED
    BY <2>1, <2>2
<1>10. \A j \in 1..m : ids[j] \in IdentifiersOf(list)
  <2> TAKE j \in 1..m
  <2>1. PICK i \in 1..l : shown[j] = list[i]
    BY <1>8
  <2>2. QED
    BY <1>2, <1>3, <2>1
<1>11. kept = 1..m
  <2>1. \A k \in 1..m : \A h \in 1..(k - 1) : ids[h] # ids[k]
    <3> SUFFICES ASSUME NEW k \in 1..m, NEW h \in 1..(k - 1), ids[h] = ids[k] PROVE FALSE
      OBVIOUS
    <3>1. h \in 1..m /\ h # k
      BY <1>1
    <3>2. QED
      BY <1>1, <1>3, <3>1 DEF Unique
  <2>2. QED
    BY <1>3, <1>10, <2>1 DEF FirstNamed
<1>12. DOMAIN Known(list, ids) = 1..m /\ \A j \in 1..m : Known(list, ids)[j] = ids[j]
  <2>1. kept \subseteq Nat
    BY <1>1, <1>11
  <2>2. nth \in [1..m -> 1..m] /\ \A j \in 1..m : nth[j] = j
    OBVIOUS
  <2>3. Enumerates(1..m, m, nth)
    <3> HIDE DEF nth
    <3>1. \A i, j \in 1..m : i < j => nth[i] < nth[j]
      BY <2>2
    <3>2. \A i \in 1..m : \E j \in 1..m : nth[j] = i
      BY <2>2
    <3>3. QED
      BY <1>1, <2>2, <3>1, <3>2 DEF Enumerates
  <2>4. Known(list, ids) = Picked(ids, 1..m)
    BY <1>11 DEF Known
  <2> HIDE DEF nth
  <2>5. 1..m \subseteq Nat
    BY <1>1
  <2>6. DOMAIN Picked(ids, 1..m) = 1..m /\ PickedAt(ids, 1..m, nth, m)
    BY <2>3, <2>5, PickedIs
  <2>7. \A j \in 1..m : Picked(ids, 1..m)[j] = ids[nth[j]]
    BY <2>6 DEF PickedAt
  <2>8. QED
    BY <2>2, <2>4, <2>6, <2>7
<1>13. Named(list, ids) = shown
  <2>1. \A j \in 1..m : list[IndexOf(list, Known(list, ids)[j])] = shown[j]
    <3> TAKE j \in 1..m
    <3>1. PICK i \in 1..l : shown[j] = list[i]
      BY <1>8
    <3>2. Known(list, ids)[j] = list[i].id /\ list[i].id \in IdentifiersOf(list)
      BY <1>2, <1>3, <1>12, <3>1
    <3>3. i = IndexOf(list, list[i].id)
      BY <3>2, IndexFound DEF l
    <3>4. QED
      BY <3>1, <3>2, <3>3
  <2>2. Named(list, ids) = [j \in 1..m |-> list[IndexOf(list, Known(list, ids)[j])]]
    BY <1>12 DEF Named
  <2>3. shown = [j \in 1..m |-> shown[j]]
    BY <1>1
  <2>4. QED
    BY <2>1, <2>2, <2>3
<1> DEFINE q == LeftOut(list, ids)
<1>14. /\ q \in Seq(Entry(Addresses))
       /\ \A j \in 1..Len(q) : q[j].id \notin ToSet(ids) /\ \E i \in 1..l : q[j] = list[i]
  BY LeftOutHas DEF l
<1> HIDE DEF q
<1>15. \A j \in 1..Len(q) : ~ Visible(q[j], hidden)
  <2> SUFFICES ASSUME NEW j \in 1..Len(q), Visible(q[j], hidden) PROVE FALSE
    OBVIOUS
  <2>1. PICK i \in 1..l : q[j] = list[i]
    BY <1>14
  <2>2. PICK k \in 1..m : shown[k] = list[i]
    BY <1>9, <2>1
  <2>3. ids[k] = q[j].id /\ k \in DOMAIN ids
    BY <1>3, <2>1, <2>2
  <2>4. q[j].id \in ToSet(ids)
    BY <2>3 DEF ToSet
  <2>5. QED
    BY <1>14, <2>4
<1>16. Ordered(list, ids) = shown \o q
  BY <1>13, OrderedIs DEF q
<1>17. shown \o q \in NodeList(Addresses)
  BY <1>4, <1>16, OrderedKeeps
<1>18. \A j \in 1..m : Visible(shown[j], hidden)
  <2> TAKE j \in 1..m
  <2>1. PICK i \in 1..n : shown[j] = Shown(list, hidden)[i]
    BY <1>7 DEF SameNodes, m
  <2>2. QED
    BY <1>7, <2>1
<1>20. Shown(shown \o q, hidden) = shown
  BY <1>14, <1>15, <1>17, <1>18, ShownFirst DEF m
<1>19. QED
  BY <1>4, <1>16, <1>20 DEF ids

\* The identifiers of a list after each of its changes, and of what it shows.
LEMMA AppendedIdentifiers ==
  ASSUME NEW S, NEW list \in NodeList(S), NEW n \in Entry(S), n.id \notin IdentifiersOf(list)
  PROVE  IdentifiersOf(list) \subseteq IdentifiersOf(Append(list, n))
<1> DEFINE new == Append(list, n)
<1>1. /\ new \in NodeList(S) /\ Len(new) = Len(list) + 1 /\ Len(list) \in Nat
      /\ \A i \in 1..Len(list) : new[i] = list[i]
  BY ListAppended, NodeListHas
<1> HIDE DEF new
<1>2. \A i \in 1..Len(list) : i \in 1..Len(new)
  BY <1>1
<1>3. /\ IdentifiersOf(list) = {list[j].id : j \in 1..Len(list)}
      /\ IdentifiersOf(new) = {new[j].id : j \in 1..Len(new)}
  BY <1>1, IdentifiersAre
<1>4. QED
  BY <1>1, <1>2, <1>3 DEF new

LEMMA EditedIdentifiers ==
  ASSUME NEW S, NEW list \in NodeList(S), NEW i \in 1..Len(list), NEW a \in S
  PROVE  IdentifiersOf(list) \subseteq IdentifiersOf([list EXCEPT ![i].address = a])
<1> DEFINE new == [list EXCEPT ![i].address = a]
<1>1. /\ new \in NodeList(S) /\ Len(new) = Len(list)
      /\ \A j \in 1..Len(list) : new[j] = IF j = i THEN [id |-> list[i].id, address |-> a] ELSE list[j]
  BY ListEdited
<1> HIDE DEF new
<1>2. \A j \in 1..Len(list) : new[j].id = list[j].id
  BY <1>1
<1>3. /\ IdentifiersOf(list) = {list[j].id : j \in 1..Len(list)}
      /\ IdentifiersOf(new) = {new[j].id : j \in 1..Len(list)}
  BY <1>1, IdentifiersAre
<1>4. QED
  BY <1>2, <1>3 DEF new

LEMMA RemovedIdentifiers ==
  ASSUME NEW S, NEW list \in NodeList(S), NEW i \in 1..Len(list),
         NEW id \in IdentifiersOf(list), id # list[i].id
  PROVE  id \in IdentifiersOf(RemoveAt(list, i))
<1> DEFINE new == RemoveAt(list, i)
<1>1. /\ new \in NodeList(S) /\ Len(new) = Len(list) - 1
      /\ \A j \in 1..(Len(list) - 1) : new[j] = IF j < i THEN list[j] ELSE list[j + 1]
  BY ListRemoved
<1>2. Len(list) \in Nat
  BY NodeListHas
<1>3. PICK k \in 1..Len(list) : list[k].id = id
  BY IdentifiersAre
<1>4. k # i
  BY <1>3
<1> HIDE DEF new
<1>5. IdentifiersOf(new) = {new[j].id : j \in 1..Len(new)}
  BY <1>1, IdentifiersAre
<1>6. CASE k < i
  <2>1. k \in 1..Len(new) /\ new[k] = list[k]
    BY <1>1, <1>2, <1>6
  <2>2. QED
    BY <1>3, <1>5, <2>1 DEF new
<1>7. CASE ~ (k < i)
  <2>1. k - 1 \in 1..Len(new) /\ ~ (k - 1 < i) /\ k - 1 + 1 = k
    BY <1>1, <1>2, <1>4, <1>7
  <2>2. new[k - 1] = list[k]
    BY <1>1, <2>1
  <2>3. QED
    BY <1>3, <1>5, <2>1, <2>2 DEF new
<1>8. QED
  BY <1>6, <1>7

LEMMA SameIdentifiers ==
  ASSUME NEW S, NEW p \in NodeList(S), NEW q \in NodeList(S), SameNodes(p, q)
  PROVE  IdentifiersOf(p) \subseteq IdentifiersOf(q)
<1>1. /\ IdentifiersOf(p) = {p[i].id : i \in 1..Len(p)}
      /\ IdentifiersOf(q) = {q[i].id : i \in 1..Len(q)}
  BY IdentifiersAre
<1>2. \A i \in 1..Len(p) : \E j \in 1..Len(q) : q[j] = p[i]
  BY DEF SameNodes
<1>3. QED
  BY <1>1, <1>2

LEMMA ShownIdentifiers ==
  ASSUME NEW hidden, NEW list \in NodeList(Addresses), NEW id \in IdentifiersOf(Shown(list, hidden))
  PROVE  id \notin hidden
<1>1. PICK m \in Nat : \E nth \in [1..m -> Nat] : Shows(list, Shown(list, hidden), m, nth, hidden)
  BY ShownHas
<1>2. PICK nth \in [1..m -> Nat] : Shows(list, Shown(list, hidden), m, nth, hidden)
  BY <1>1
<1>3. /\ Shown(list, hidden) = [j \in 1..m |-> list[nth[j]]]
      /\ \A j \in 1..m : Visible(list[nth[j]], hidden)
  BY <1>2 DEF Shows
<1>4. PICK j \in 1..m : id = list[nth[j]].id
  BY <1>3 DEF IdentifiersOf, ToSet
<1>5. QED
  BY <1>3, <1>4 DEF Visible

\* A list without repetitions is not longer than one that has all of its nodes.
LEMMA NotLonger ==
  ASSUME NEW S, NEW p \in NodeList(S), NEW q \in NodeList(S),
         \A i \in 1..Len(p) : \E j \in 1..Len(q) : q[j] = p[i]
  PROVE  Len(p) <= Len(q)
<1>1. Len(p) \in Nat /\ Len(q) \in Nat /\ Unique(p) /\ DOMAIN p = 1..Len(p)
  BY NodeListHas
<1>2. SUFFICES ASSUME Len(q) < Len(p) PROVE FALSE
  BY <1>1
<1> DEFINE at == [i \in 1..Len(p) |-> CHOOSE j \in 1..Len(q) : q[j] = p[i]]
<1>3. at \in [1..Len(p) -> 1..Len(q)] /\ \A i \in 1..Len(p) : q[at[i]] = p[i]
  OBVIOUS
<1> HIDE DEF at
<1>4. /\ IsFiniteSet(1..Len(p)) /\ Cardinality(1..Len(p)) = Len(p)
      /\ IsFiniteSet(1..Len(q)) /\ Cardinality(1..Len(q)) = Len(q)
  <2>1. Len(p) \in Int /\ Len(q) \in Int /\ 1 \in Int
    BY <1>1
  <2>2. /\ IsFiniteSet(1..Len(p)) /\ Cardinality(1..Len(p)) = IF 1 > Len(p) THEN 0 ELSE Len(p) - 1 + 1
        /\ IsFiniteSet(1..Len(q)) /\ Cardinality(1..Len(q)) = IF 1 > Len(q) THEN 0 ELSE Len(q) - 1 + 1
    BY <2>1, FS_Interval
  <2>3. QED
    BY <1>1, <2>2
<1>5. \E i, j \in 1..Len(p) : i # j /\ at[i] = at[j]
  <2>1. PICK A : A = 1..Len(p)
    OBVIOUS
  <2>2. PICK B : B = 1..Len(q)
    OBVIOUS
  <2>3. /\ IsFiniteSet(A) /\ IsFiniteSet(B) /\ Cardinality(B) < Cardinality(A)
        /\ at \in [A -> B]
    BY <1>2, <1>3, <1>4, <2>1, <2>2
  <2>4. \E x, y \in A : x # y /\ at[x] = at[y]
    BY <2>3, FS_PigeonHole
  <2>5. QED
    BY <2>1, <2>4
<1>6. PICK i \in 1..Len(p) : \E j \in 1..Len(p) : i # j /\ at[i] = at[j]
  BY <1>5
<1>7. PICK j \in 1..Len(p) : i # j /\ at[i] = at[j]
  BY <1>6
<1>8. p[i] = p[j]
  BY <1>3, <1>7
<1>9. QED
  BY <1>1, <1>7, <1>8 DEF Unique

\* The same nodes in another order are what Configuration calls reordered.
LEMMA ReorderedIs ==
  ASSUME NEW S, NEW p \in NodeList(S), NEW q \in NodeList(S), SameNodes(p, q)
  PROVE  Promised!Reordered(p, q)
<1>1. /\ Unique(p) /\ DOMAIN p = 1..Len(p) /\ Len(p) \in Nat
      /\ Unique(q) /\ DOMAIN q = 1..Len(q) /\ Len(q) \in Nat
  BY NodeListHas
<1>2. /\ \A i \in 1..Len(p) : \E j \in 1..Len(q) : q[j] = p[i]
      /\ \A j \in 1..Len(q) : \E i \in 1..Len(p) : p[i] = q[j]
  BY DEF SameNodes
<1>3. Len(p) <= Len(q) /\ Len(q) <= Len(p)
  BY <1>2, NotLonger
<1>4. Len(q) = Len(p)
  <2>1. Len(p) \in Nat /\ Len(q) \in Nat
    BY <1>1
  <2>2. QED
    BY <1>3, <2>1
<1>5. Promised!Unique(q)
  BY <1>1 DEF Unique, Promised!Unique
<1>6. Promised!Identifiers(q) = Promised!Identifiers(p)
  <2>1. /\ Promised!Identifiers(p) = {p[i].id : i \in 1..Len(p)}
        /\ Promised!Identifiers(q) = {q[i].id : i \in 1..Len(q)}
    BY <1>1 DEF Promised!Identifiers
  <2>2. \A i \in 1..Len(p) : p[i].id \in {q[j].id : j \in 1..Len(q)}
    BY <1>2
  <2>3. \A j \in 1..Len(q) : q[j].id \in {p[i].id : i \in 1..Len(p)}
    BY <1>2
  <2>4. QED
    BY <2>1, <2>2, <2>3
<1>7. ASSUME NEW id \in Promised!Identifiers(p)
      PROVE  Promised!NodeWith(q, id) = Promised!NodeWith(p, id)
  <2>1. PICK i : i = CHOOSE h \in DOMAIN p : p[h].id = id
    OBVIOUS
  <2>2. PICK j : j = CHOOSE h \in DOMAIN q : q[h].id = id
    OBVIOUS
  <2>3. i \in 1..Len(p) /\ p[i].id = id
    BY <1>1, <2>1 DEF Promised!Identifiers
  <2>4. j \in 1..Len(q) /\ q[j].id = id
    <3>1. id \in Promised!Identifiers(q)
      BY <1>6
    <3>2. QED
      BY <1>1, <2>2, <3>1 DEF Promised!Identifiers
  <2>5. PICK k \in 1..Len(q) : q[k] = p[i]
    BY <1>2, <2>3
  <2>6. k = j
    BY <1>1, <2>3, <2>4, <2>5 DEF Unique
  <2>7. Promised!Positions(p)[id] = i
    BY <2>1 DEF Promised!Positions
  <2>8. Promised!Positions(q)[id] = j
    BY <1>6, <2>2 DEF Promised!Positions
  <2>9. QED
    BY <2>5, <2>6, <2>7, <2>8 DEF Promised!NodeWith
<1>8. QED
  BY <1>4, <1>5, <1>6, <1>7 DEF Promised!Reordered

\* What sanitizeStoredNodes has made of the first k entries of a list: sound nodes, and
\* of a sound list the nodes themselves.
HandWrittenNode == [id : Nat, address : Addresses \cup {NoAddress}]
SoundNode == [id : Nat \ {0}, address : Addresses]
Cleaned(list, d, k) ==
  /\ d.nodes \in Seq(SoundNode) /\ d.next \in Nat \ {0}
  /\ Unique(d.nodes) /\ Len(d.nodes) <= k
  /\ list \in NodeList(Addresses) => d.nodes = [i \in 1..k |-> list[i]]

LEMMA FreeIdentifier ==
  ASSUME NEW list \in Seq(SoundNode), NEW w \in Nat \ {0}
  PROVE  LET free == Min((w..(w + Len(list))) \ IdentifiersOf(list))
         IN  /\ free \in Nat \ {0} /\ free \notin IdentifiersOf(list)
             /\ w \notin IdentifiersOf(list) => free = w
<1> DEFINE n == Len(list)
           wide == w..(w + n)
           taken == IdentifiersOf(list)
           free == Min(wide \ taken)
<1>1. n \in Nat /\ DOMAIN list = 1..n
  OBVIOUS
<1>2. taken = {list[i].id : i \in 1..n}
  BY <1>1 DEF IdentifiersOf, ToSet
<1> HIDE DEF n, taken
<1>3. wide \ taken # {}
  <2> SUFFICES ASSUME wide \subseteq taken PROVE FALSE
    OBVIOUS
  <2>1. \A x \in wide : \E i \in 1..n : list[i].id = x
    BY <1>2
  <2> DEFINE at == [x \in wide |-> CHOOSE i \in 1..n : list[i].id = x]
  <2>2. at \in [wide -> 1..n] /\ \A x \in wide : list[at[x]].id = x
    BY <2>1
  <2> HIDE DEF at
  <2>3. /\ IsFiniteSet(wide) /\ Cardinality(wide) = n + 1
        /\ IsFiniteSet(1..n) /\ Cardinality(1..n) = n
    <3>1. w \in Int /\ w + n \in Int /\ 1 \in Int /\ n \in Int
      BY <1>1
    <3>2. /\ IsFiniteSet(wide) /\ Cardinality(wide) = IF w > w + n THEN 0 ELSE w + n - w + 1
          /\ IsFiniteSet(1..n) /\ Cardinality(1..n) = IF 1 > n THEN 0 ELSE n - 1 + 1
      BY <3>1, FS_Interval
    <3>3. QED
      BY <1>1, <3>2
  <2>4. PICK B : B = 1..n
    OBVIOUS
  <2>5. /\ IsFiniteSet(B) /\ Cardinality(B) < Cardinality(wide)
        /\ at \in [wide -> B]
    BY <1>1, <2>2, <2>3, <2>4
  <2> HIDE DEF wide
  <2>6. \E x, y \in wide : x # y /\ at[x] = at[y]
    BY <2>3, <2>5, FS_PigeonHole
  <2>7. QED
    BY <2>2, <2>6
<1>4. wide \ taken \subseteq Nat /\ \A x \in wide : w <= x /\ x \in Nat \ {0}
  BY <1>1
<1>5. free \in wide \ taken /\ \A y \in wide \ taken : free <= y
  <2> DEFINE open == wide \ taken
  <2>1. open \subseteq Nat /\ open # {}
    BY <1>3, <1>4
  <2> HIDE DEF open
  <2>2. Min(open) \in open /\ \A y \in open : Min(open) <= y
    BY <2>1, MinIsLeast
  <2>3. QED
    BY <2>2 DEF open
<1>6. w \notin taken => free = w
  <2>1. w \in wide /\ free \in Nat /\ w <= free
    BY <1>1, <1>4, <1>5
  <2>2. w \notin taken => free <= w
    BY <1>5, <2>1
  <2>3. QED
    BY <2>1, <2>2
<1>7. QED
  BY <1>4, <1>5, <1>6 DEF n, taken

LEMMA EntryCleaned ==
  ASSUME NEW list \in Seq(HandWrittenNode), NEW k \in 1..Len(list), NEW d, Cleaned(list, d, k - 1)
  PROVE  Cleaned(list, SanitizeEntry(d, list[k]), k)
<1> DEFINE node == list[k]
           p == d.nodes
           n == Len(p)
           w == IF node.id = 0 THEN d.next ELSE node.id
           free == Min((w..(w + n)) \ IdentifiersOf(p))
           e == [node EXCEPT !.id = free]
           next == Max({d.next, free + 1})
           d2 == SanitizeEntry(d, node)
<1>1. /\ p \in Seq(SoundNode) /\ d.next \in Nat \ {0} /\ Unique(p) /\ n <= k - 1
      /\ list \in NodeList(Addresses) => p = [i \in 1..(k - 1) |-> list[i]]
      /\ n \in Nat /\ DOMAIN p = 1..n /\ k \in Nat /\ k <= Len(list) /\ Len(list) \in Nat
  BY DEF Cleaned
<1>2. node \in HandWrittenNode /\ node.id \in Nat /\ node.address \in Addresses \cup {NoAddress}
  <2>1. node \in HandWrittenNode
    OBVIOUS
  <2> HIDE DEF node
  <2>2. QED
    BY <2>1 DEF HandWrittenNode
<1>3. CASE node.address = NoAddress
  <2>1. d2 = d
    BY <1>3 DEF SanitizeEntry
  <2>2. list \notin NodeList(Addresses)
    <3> SUFFICES ASSUME list \in NodeList(Addresses) PROVE FALSE
      OBVIOUS
    <3>1. node.address \in Addresses
      BY NodeListHas
    <3>2. QED
      BY <1>3, <3>1, AddressesAssumption
  <2>3. QED
    BY <1>1, <2>1, <2>2 DEF Cleaned
<1>4. CASE node.address # NoAddress
  <2>1. w \in Nat \ {0}
    BY <1>1, <1>2
  <2>2. /\ free \in Nat \ {0} /\ free \notin IdentifiersOf(p)
        /\ w \notin IdentifiersOf(p) => free = w
    <3> HIDE DEF w
    <3>1. QED
      BY <1>1, <2>1, FreeIdentifier
  <2>3. d2 = [nodes |-> Append(p, e), next |-> next]
    BY <1>4 DEF SanitizeEntry
  <2> HIDE DEF free, w
  <2>4. e = [id |-> free, address |-> node.address]
    BY <1>2 DEF HandWrittenNode
  <2>5. e \in SoundNode /\ e.id = free
    BY <1>2, <1>4, <2>2, <2>4 DEF SoundNode
  <2>6. next \in Nat \ {0}
    <3>1. d.next \in Nat /\ free + 1 \in Nat /\ d.next # 0 /\ free + 1 # 0
      BY <1>1, <2>2
    <3>2. next \in {d.next, free + 1}
      BY <3>1, MaxOfTwo
    <3>3. QED
      BY <3>1, <3>2
  <2>7. d2.nodes = Append(p, e) /\ d2.next = next
    BY <2>3
  <2> HIDE DEF e, next, p, n, d2
  <2>8. /\ Append(p, e) \in Seq(SoundNode) /\ Len(Append(p, e)) = n + 1
        /\ \A i \in 1..n : Append(p, e)[i] = p[i]
        /\ Append(p, e)[n + 1] = e
    BY <1>1, <2>5, AppendProperties DEF n
  <2>9. DOMAIN Append(p, e) = 1..(n + 1)
    BY <1>1, <2>8
  <2>10. \A i \in 1..n : p[i].id # free
    BY <1>1, <2>2 DEF IdentifiersOf, ToSet
  <2>11. Unique(Append(p, e))
    <3> SUFFICES ASSUME NEW i \in 1..(n + 1), NEW j \in 1..(n + 1),
                        Append(p, e)[i].id = Append(p, e)[j].id
                 PROVE  i = j
      BY <2>9 DEF Unique
    <3>1. (i \in 1..n \/ i = n + 1) /\ (j \in 1..n \/ j = n + 1)
      BY <1>1
    <3>2. CASE i \in 1..n /\ j \in 1..n
      BY <1>1, <2>8, <3>2 DEF Unique
    <3>3. CASE i = n + 1 \/ j = n + 1
      BY <2>5, <2>8, <2>10, <3>1, <3>3
    <3>4. QED
      BY <3>1, <3>2, <3>3
  <2>12. n + 1 <= k
    BY <1>1
  <2>13. ASSUME list \in NodeList(Addresses)
         PROVE  Append(p, e) = [i \in 1..k |-> list[i]]
    <3>1. /\ DOMAIN list = 1..Len(list) /\ Unique(list)
          /\ node.id \in 1..MaxID /\ node = [id |-> node.id, address |-> node.address]
      BY <2>13, NodeListHas
    <3>2. MaxID \in Nat
      BY BoundAssumption
    <3>3. node.id # 0 /\ w = node.id
      BY <3>1, <3>2 DEF w
    <3>4. p = [i \in 1..(k - 1) |-> list[i]]
      BY <1>1, <2>13
    <3>5. n = k - 1
      BY <1>1, <3>4 DEF n
    <3>6. \A i \in 1..n : p[i].id # node.id
      <4> SUFFICES ASSUME NEW i \in 1..n, list[i].id = list[k].id PROVE FALSE
        BY <3>4, <3>5
      <4>1. i \in 1..Len(list) /\ i # k
        BY <1>1, <3>5
      <4>2. QED
        BY <3>1, <4>1 DEF Unique
    <3>7. w \notin IdentifiersOf(p)
      BY <1>1, <3>3, <3>6 DEF IdentifiersOf, ToSet
    <3>8. e = node
      BY <2>2, <2>4, <3>1, <3>3, <3>7
    <3>9. n + 1 = k
      BY <1>1, <3>5
    <3>10. \A i \in 1..k : Append(p, e)[i] = list[i]
      <4> TAKE i \in 1..k
      <4>1. CASE i = k
        BY <2>8, <3>8, <3>9, <4>1
      <4>2. CASE i \in 1..n
        BY <2>8, <3>4, <3>5, <4>2
      <4>3. QED
        BY <1>1, <3>9, <4>1, <4>2
    <3>11. Append(p, e) = [i \in DOMAIN Append(p, e) |-> Append(p, e)[i]]
      <4>1. \A q \in Seq(SoundNode) : q = [i \in DOMAIN q |-> q[i]]
        OBVIOUS
      <4>2. QED
        BY <2>8, <4>1, Zenon
    <3>12. DOMAIN Append(p, e) = 1..k
      BY <2>9, <3>9
    <3>13. QED
      BY <3>10, <3>11, <3>12
  <2>14. QED
    BY <2>6, <2>7, <2>8, <2>11, <2>12, <2>13 DEF Cleaned, d2, node
<1>5. QED
  BY <1>3, <1>4

\* The function that SanitizeStoredNodes defines recursively, up to the n-th entry.
Cleaning(list, n, g) ==
  g = [k \in 0..n |-> IF k = 0 THEN [nodes |-> <<>>, next |-> 1]
                      ELSE SanitizeEntry(g[k - 1], list[k])]

LEMMA CleaningExists ==
  ASSUME NEW list \in Seq(HandWrittenNode)
  PROVE  \E g : Cleaning(list, Len(list), g)
<1> DEFINE Missed == {n \in 0..Len(list) : ~(\E g : Cleaning(list, n, g))}
<1>1. Len(list) \in Nat
  OBVIOUS
<1>2. SUFFICES ASSUME Missed # {} PROVE FALSE
  BY <1>1
<1>3. PICK n \in Missed : \A m \in Missed : n <= m
  <2>1. Missed \subseteq Nat
    OBVIOUS
  <2> HIDE DEF Missed
  <2>2. QED
    BY <1>2, <2>1, LeastNatural
<1>4. CASE n = 0
  <2> DEFINE g == [k \in 0..0 |-> [nodes |-> <<>>, next |-> 1]]
  <2>1. \A k \in 0..0 : k = 0
    OBVIOUS
  <2>2. Cleaning(list, 0, g)
    BY <2>1 DEF Cleaning
  <2>3. QED
    BY <1>3, <1>4, <2>2
<1>5. CASE n # 0
  <2>1. n \in Nat /\ n - 1 \in Nat /\ n - 1 \in 0..Len(list) /\ ~(n <= n - 1)
    BY <1>1, <1>3, <1>5
  <2>2. PICK h : Cleaning(list, n - 1, h)
    BY <1>3, <2>1
  <2> DEFINE g == [k \in 0..n |-> IF k = n THEN SanitizeEntry(h[n - 1], list[n]) ELSE h[k]]
  <2>3. \A k \in 0..(n - 1) : g[k] = h[k] /\ k # n
    BY <2>1
  <2>4. g[n] = SanitizeEntry(h[n - 1], list[n])
    BY <2>1
  <2>5. \A k \in 0..(n - 1) : h[k] = IF k = 0 THEN [nodes |-> <<>>, next |-> 1]
                                    ELSE SanitizeEntry(h[k - 1], list[k])
    BY <2>2 DEF Cleaning
  <2>6. g = [k \in 0..n |-> g[k]]
    OBVIOUS
  <2> HIDE DEF g
  <2>7. \A k \in 0..n : g[k] = IF k = 0 THEN [nodes |-> <<>>, next |-> 1]
                              ELSE SanitizeEntry(g[k - 1], list[k])
    <3> SUFFICES ASSUME NEW k \in 0..n
                 PROVE  g[k] = IF k = 0 THEN [nodes |-> <<>>, next |-> 1]
                               ELSE SanitizeEntry(g[k - 1], list[k])
      OBVIOUS
    <3>1. CASE k = n
      <4>1. n - 1 \in 0..(n - 1)
        BY <2>1
      <4>2. g[n - 1] = h[n - 1]
        BY <2>3, <4>1
      <4>3. QED
        BY <1>5, <2>4, <3>1, <4>2
    <3>2. CASE k = 0
      <4>1. 0 \in 0..(n - 1)
        BY <2>1
      <4>2. QED
        BY <2>3, <2>5, <3>2, <4>1
    <3>3. CASE k # n /\ k # 0
      <4>1. k \in 0..(n - 1) /\ k - 1 \in 0..(n - 1)
        BY <2>1, <3>3
      <4>2. g[k] = h[k] /\ g[k - 1] = h[k - 1]
        BY <2>3, <4>1
      <4>3. h[k] = SanitizeEntry(h[k - 1], list[k])
        BY <2>5, <3>3, <4>1
      <4>4. QED
        BY <3>3, <4>2, <4>3
    <3>4. QED
      BY <3>1, <3>2, <3>3
  <2>8. Cleaning(list, n, g)
    BY <2>6, <2>7 DEF Cleaning
  <2>9. QED
    BY <1>3, <2>8
<1>6. QED
  BY <1>4, <1>5

LEMMA CleanedBy ==
  ASSUME NEW list \in Seq(HandWrittenNode)
  PROVE  \E g : Cleaning(list, Len(list), g) /\ SanitizeStoredNodes(list) = g[Len(list)].nodes
<1> DEFINE g == CHOOSE g : Cleaning(list, Len(list), g)
<1>1. Cleaning(list, Len(list), g)
  BY CleaningExists
<1>2. SanitizeStoredNodes(list) = g[Len(list)].nodes
  BY DEF SanitizeStoredNodes, Cleaning
<1>3. QED
  BY <1>1, <1>2

\* What a hand may write is read as sound nodes, and a sound list as it is.
LEMMA AllCleaned ==
  ASSUME NEW list \in Seq(HandWrittenNode)
  PROVE  /\ SanitizeStoredNodes(list) \in Seq(SoundNode) /\ Unique(SanitizeStoredNodes(list))
         /\ list \in NodeList(Addresses) => SanitizeStoredNodes(list) = list
<1>1. PICK g : Cleaning(list, Len(list), g) /\ SanitizeStoredNodes(list) = g[Len(list)].nodes
  BY CleanedBy
<1>2. Len(list) \in Nat
  OBVIOUS
<1> DEFINE Missed == {k \in 0..Len(list) : ~Cleaned(list, g[k], k)}
<1>3. Missed = {}
  <2> SUFFICES ASSUME Missed # {} PROVE FALSE
    OBVIOUS
  <2>1. PICK n \in Missed : \A m \in Missed : n <= m
    <3>1. Missed \subseteq Nat /\ Missed # {}
      OBVIOUS
    <3> HIDE DEF Missed
    <3>2. QED
      BY <3>1, LeastNatural
  <2>2. g[n] = IF n = 0 THEN [nodes |-> <<>>, next |-> 1] ELSE SanitizeEntry(g[n - 1], list[n])
    BY <1>1 DEF Cleaning
  <2>3. CASE n = 0
    <3> DEFINE d == [nodes |-> <<>>, next |-> 1]
    <3>1. <<>> \in Seq(SoundNode) /\ Len(<<>>) = 0 /\ DOMAIN <<>> = {} /\ 1 \in Nat \ {0}
      OBVIOUS
    <3>2. Unique(<<>>)
      BY <3>1 DEF Unique
    <3>3. <<>> = [i \in 1..0 |-> list[i]]
      OBVIOUS
    <3>4. d.nodes = <<>> /\ d.next = 1
      OBVIOUS
    <3> HIDE DEF d
    <3>5. Cleaned(list, d, 0)
      BY <3>1, <3>2, <3>3, <3>4 DEF Cleaned
    <3>6. QED
      BY <2>1, <2>2, <2>3, <3>5 DEF d
  <2>4. CASE n # 0
    <3>1. n \in 1..Len(list) /\ n - 1 \in 0..Len(list) /\ ~(n <= n - 1)
      BY <1>2, <2>1, <2>4
    <3>2. Cleaned(list, g[n - 1], n - 1)
      BY <2>1, <3>1
    <3>3. Cleaned(list, SanitizeEntry(g[n - 1], list[n]), n)
      BY <3>1, <3>2, EntryCleaned
    <3>4. QED
      BY <2>1, <2>2, <2>4, <3>3
  <2>5. QED
    BY <2>3, <2>4
<1>4. Cleaned(list, g[Len(list)], Len(list))
  BY <1>2, <1>3
<1>5. list \in NodeList(Addresses) => list = [i \in 1..Len(list) |-> list[i]]
  OBVIOUS
<1>6. QED
  BY <1>1, <1>4, <1>5 DEF Cleaned

LEMMA HandWrittenHas ==
  ASSUME NEW list, HandWritten(list)
  PROVE  SanitizeStoredNodes(list) \in NodeList(Addresses)
<1> DEFINE clean == SanitizeStoredNodes(list)
<1>1. list \in Seq(HandWrittenNode) /\ IdentifiersOf(clean) \subseteq 1..MaxID
  BY DEF HandWritten, HandWrittenNode
<1>2. clean \in Seq(SoundNode) /\ Unique(clean)
  BY <1>1, AllCleaned
<1> HIDE DEF clean
<1>3. \A i \in 1..Len(clean) : clean[i] \in SoundNode /\ clean[i].id \in 1..MaxID
  <2>1. \A i \in 1..Len(clean) : clean[i] \in SoundNode /\ clean[i].id \in IdentifiersOf(clean)
    BY <1>2 DEF IdentifiersOf, ToSet
  <2>2. QED
    BY <1>1, <2>1
<1>4. \A n \in SoundNode : n.id \in 1..MaxID => n \in Entry(Addresses)
  BY DEF SoundNode, Entry
<1>5. clean \in Seq(Entry(Addresses))
  <2>1. \A i \in 1..Len(clean) : clean[i] \in Entry(Addresses)
    BY <1>3, <1>4
  <2>2. QED
    BY <1>2, <2>1
<1>6. QED
  BY <1>2, <1>5, NodeListIs DEF clean

\* A sound list read from a file is the list that was written.
LEMMA NodesLoaded ==
  ASSUME NEW file, file \in NodeList(Addresses) \cup HandEdited \cup {Missing, Broken}
  PROVE  /\ LoadNodes(file) \in NodeList(Addresses)
         /\ file \in NodeList(Addresses) => LoadNodes(file) = file
<1>1. ASSUME file \in NodeList(Addresses) PROVE LoadNodes(file) = file
  <2>1. file \in Seq(HandWrittenNode)
    <3>1. file \in Seq(Entry(Addresses))
      BY <1>1, NodeListIs
    <3>2. MaxID \in Nat
      BY BoundAssumption
    <3>3. Entry(Addresses) \subseteq HandWrittenNode
      BY <3>2 DEF Entry, HandWrittenNode
    <3>4. \A i \in DOMAIN file : file[i] \in HandWrittenNode
      BY <3>1, <3>3
    <3>5. QED
      BY <3>1, <3>4
  <2>2. SanitizeStoredNodes(file) = file
    BY <1>1, <2>1, AllCleaned
  <2>3. file \notin {Missing, Broken}
    BY <1>1, FilesAssumption
  <2>4. QED
    BY <2>2, <2>3 DEF LoadNodes
<1>2. CASE file \in {Missing, Broken}
  BY <1>2, <1>1, EmptyNodeList DEF LoadNodes
<1>3. CASE file \notin {Missing, Broken} /\ file \in HandEdited
  BY <1>1, <1>3, HandEditedAssumption, HandWrittenHas DEF LoadNodes
<1>4. QED
  BY <1>1, <1>2, <1>3

LEMMA ModelsLoaded ==
  ASSUME NEW file, file \in {Missing, Broken} \cup ModelList
  PROVE  /\ LoadModels(file) \in ModelList
         /\ file \in ModelList => LoadModels(file) = file
<1>1. {} \in ModelList
  BY DEF ModelList, Providers
<1>2. file \in ModelList => file \notin {Missing, Broken}
  BY FilesAssumption
<1>3. QED
  BY <1>1, <1>2 DEF LoadModels

LEMMA ListSorted ==
  ASSUME NEW list \in NodeList(Addresses)
  PROVE  SortedByID(list) \in NodeList(Addresses)
<1> DEFINE ids == IdentifiersOf(list)
           byID == [id \in ids |-> list[IndexOf(list, id)]]
           m == Cardinality(ids)
           nth == [j \in 1..m |-> CHOOSE i \in ids : Rank(ids, i) = j - 1]
           sorted == Picked(byID, ids)
<1>1. ids \subseteq 1..MaxID /\ MaxID \in Nat
  BY IdentifiersAre, BoundAssumption
<1>2. \A id \in ids : byID[id] \in Entry(Addresses) /\ byID[id].id = id
  <2> SUFFICES ASSUME NEW id \in ids
               PROVE  list[IndexOf(list, id)] \in Entry(Addresses) /\ list[IndexOf(list, id)].id = id
    OBVIOUS
  <2> HIDE DEF byID, ids
  <2>1. IndexOf(list, id) \in 1..Len(list) /\ list[IndexOf(list, id)].id = id
    BY IndexFound DEF ids
  <2>2. QED
    BY <2>1, NodeListHas
<1>3. SortedByID(list) = sorted
  BY DEF SortedByID
<1> HIDE DEF byID, sorted, ids
<1>4. IsFiniteSet(ids) /\ m \in Nat /\ ids \subseteq Nat
  <2>1. IsFiniteSet(1..MaxID) /\ ids \in SUBSET (1..MaxID)
    BY <1>1, FS_Interval
  <2>2. IsFiniteSet(ids)
    BY <2>1, FS_Subset
  <2>3. QED
    BY <1>1, <2>2, FS_CardinalityType
<1>5. /\ \A i, j \in ids : i < j => Rank(ids, i) < Rank(ids, j)
      /\ \A i \in ids : Rank(ids, i) \in 0..(m - 1)
      /\ \A r \in 0..(m - 1) : \E i \in ids : Rank(ids, i) = r
  BY <1>4, RanksAreDense
<1> HIDE DEF m
<1>6. \A j \in 1..m : nth[j] \in ids /\ Rank(ids, nth[j]) = j - 1
  <2> SUFFICES ASSUME NEW j \in 1..m
               PROVE  nth[j] \in ids /\ Rank(ids, nth[j]) = j - 1
    OBVIOUS
  <2>1. j - 1 \in 0..(m - 1)
    BY <1>4
  <2>2. QED
    BY <1>5, <2>1
<1>7. nth = [j \in 1..m |-> nth[j]]
  OBVIOUS
<1> HIDE DEF nth
<1>8. \A i, j \in ids : Rank(ids, i) < Rank(ids, j) => i < j
  <2> SUFFICES ASSUME NEW i \in ids, NEW j \in ids, Rank(ids, i) < Rank(ids, j), ~(i < j)
               PROVE  FALSE
    OBVIOUS
  <2>1. i \in Nat /\ j \in Nat /\ Rank(ids, i) \in Int /\ Rank(ids, j) \in Int
    BY <1>4, <1>5
  <2>2. i = j \/ j < i
    BY <2>1
  <2>3. QED
    BY <1>5, <2>1, <2>2
<1>9. Enumerates(ids, m, nth)
  <2>1. nth \in [1..m -> ids]
    BY <1>6, <1>7
  <2>2. \A i, j \in 1..m : i < j => nth[i] < nth[j]
    <3> SUFFICES ASSUME NEW i \in 1..m, NEW j \in 1..m, i < j PROVE nth[i] < nth[j]
      OBVIOUS
    <3>1. i - 1 < j - 1
      BY <1>4
    <3>2. QED
      BY <1>6, <1>8, <3>1
  <2>3. \A i \in ids : \E j \in 1..m : nth[j] = i
    <3> SUFFICES ASSUME NEW i \in ids PROVE \E j \in 1..m : nth[j] = i
      OBVIOUS
    <3>1. PICK r : r = Rank(ids, i) /\ r \in 0..(m - 1)
      BY <1>5
    <3>2. PICK j : j = r + 1 /\ j \in 1..m /\ j - 1 = r
      BY <1>4, <3>1
    <3>3. nth[j] \in ids /\ Rank(ids, nth[j]) = r
      BY <1>6, <3>2
    <3>4. nth[j] \in Nat /\ i \in Nat
      BY <1>4, <3>3
    <3>5. ~(nth[j] < i) /\ ~(i < nth[j])
      <4>1. ~(r < r)
        BY <3>1, <1>4
      <4>2. QED
        BY <1>5, <3>1, <3>3, <4>1
    <3>6. nth[j] = i
      BY <3>4, <3>5
    <3>7. QED
      BY <3>2, <3>6
  <2>4. QED
    BY <1>4, <2>1, <2>2, <2>3 DEF Enumerates
<1>10. DOMAIN sorted = 1..m /\ PickedAt(byID, ids, nth, m)
  BY <1>4, <1>9, PickedIs DEF sorted
<1>11. \A j \in 1..m : sorted[j] = byID[nth[j]]
  BY <1>10 DEF PickedAt, sorted
<1>12. \A j \in 1..m : sorted[j] \in Entry(Addresses) /\ sorted[j].id = nth[j]
  BY <1>2, <1>6, <1>11
<1>13. sorted = [j \in DOMAIN sorted |-> sorted[j]]
  BY DEF sorted, Picked
<1>14. sorted \in Seq(Entry(Addresses))
  BY <1>4, <1>10, <1>12, <1>13
<1>15. Unique(sorted)
  <2> SUFFICES ASSUME NEW i \in 1..m, NEW j \in 1..m, nth[i] = nth[j] PROVE i = j
    BY <1>10, <1>12 DEF Unique
  <2>1. i - 1 = j - 1
    BY <1>6
  <2>2. QED
    BY <1>4, <2>1
<1>16. QED
  BY <1>3, <1>14, <1>15, NodeListIs

\* The identifier that a record gets is free.
LEMMA NextIsFree ==
  ASSUME NEW records, \A n \in records : n.id \in 1..MaxID
  PROVE  NextID(records) \in Nat \ {0} /\ \A n \in records : n.id # NextID(records)
<1> DEFINE S == {n.id : n \in records} \cup {0}
<1>1. MaxID \in Nat
  BY BoundAssumption
<1>2. S \subseteq 0..MaxID /\ S # {} /\ \A n \in records : n.id \in S
  BY <1>1
<1>3. NextID(records) = Max(S) + 1
  BY DEF NextID
<1> HIDE DEF S
<1>4. Max(S) \in S /\ \A y \in S : Max(S) >= y
  BY <1>1, <1>2, MaxIsGreatest
<1>5. Max(S) \in Nat /\ \A y \in S : y \in Nat
  <2>1. \A y \in 0..MaxID : y \in Nat
    BY <1>1
  <2>2. QED
    BY <1>2, <1>4, <2>1
<1>6. \A y \in S : y # Max(S) + 1
  BY <1>4, <1>5
<1>7. QED
  BY <1>2, <1>3, <1>5, <1>6

-----------------------------------------------------------------------------
(***************************************************************************)
(* The invariant.                                                          *)
(***************************************************************************)
Changed(old, new) ==
  \/ Promised!Added(old, new) \/ Promised!Edited(old, new)
  \/ Promised!Removed(old, new) \/ Promised!Reordered(old, new)

\* What the server shows of the store's list, and that the store has the rest.
ShownBeside(list, shown) ==
  shown = Shown(list, unread) /\ unread \subseteq IdentifiersOf(list)

\* What is in memory while an operation saves, and what it was before.
SaveKept ==
  save # NoSave =>
    /\ models = IF save.by = "models" THEN save.next.models ELSE save.undo.models
    /\ save.by = "nodes" =>
         /\ save.file = "nodes" /\ save.next.nodes = nodes /\ save.next.models = models
         /\ Changed(save.undo.nodes, nodes)
         /\ reload = "idle" => ShownBeside(nodes, save.next.shown)
    /\ save.by = "models" =>
         save.file = "models" /\ save.next.nodes = nodes /\ save.undo.nodes = nodes
    /\ save.by = "import" =>
         /\ reload = "idle" /\ save.undo.nodes = nodes
         /\ save.file = "models" => nodesFile = save.next.nodes

\* How far the reload is behind the store.
ReloadKept ==
  /\ reload = "idle" => ShownBeside(Answered.nodes, serverNodes)
  /\ reload \in {"list", "install"} =>
       serverNodes = <<>> /\ (save # NoSave /\ save.by = "nodes" => save.next.shown = <<>>)
  /\ reload = "install" =>
       listed = Answered.nodes /\ (save # NoSave => save.next.nodes = save.undo.nodes)

ConfigKept == TypeOK /\ SaveKept /\ ReloadKept

\* A step that Configuration does not take.
NothingPromised == Answered' = Answered /\ UNCHANGED <<nodesFile, modelsFile>>

LEMMA SavingIs ==
  ASSUME NEW by \in {"nodes", "models", "import"}, NEW file \in {"nodes", "models"},
         NEW l \in NodeList(Addresses), NEW m \in ModelList, NEW s \in NodeList(Usable),
         nodes \in NodeList(Addresses), models \in ModelList
  PROVE  LET save2 == Save(by, file, [nodes |-> l, models |-> m, shown |-> s])
         IN  /\ save2 \in Saving /\ save2 # NoSave
             /\ save2.by = by /\ save2.file = file /\ save2.pc = "write"
             /\ save2.next.nodes = l /\ save2.next.models = m /\ save2.next.shown = s
             /\ save2.undo.nodes = nodes /\ save2.undo.models = models
<1> DEFINE next == [nodes |-> l, models |-> m, shown |-> s]
           undo == [nodes |-> nodes, models |-> models]
           save2 == Save(by, file, next)
<1>1. /\ next \in [nodes : NodeList(Addresses), models : ModelList, shown : NodeList(Usable)]
      /\ next.nodes = l /\ next.models = m /\ next.shown = s
  OBVIOUS
<1>2. /\ undo \in [nodes : NodeList(Addresses), models : ModelList]
      /\ undo.nodes = nodes /\ undo.models = models
  OBVIOUS
<1> HIDE DEF next
<1>3. save2 = [by |-> by, file |-> file, pc |-> "write", next |-> next, undo |-> undo]
  BY DEF Save
<1> HIDE DEF undo
<1>4. save2 \in Saving
  BY <1>1, <1>2, <1>3 DEF Saving
<1>5. QED
  BY <1>1, <1>2, <1>3, <1>4, NoSaveAssumption DEF next

LEMMA SavingHas ==
  ASSUME NEW s \in Saving
  PROVE  /\ s # NoSave /\ s.by \in {"nodes", "models", "import"} /\ s.file \in {"nodes", "models"}
         /\ s.next.nodes \in NodeList(Addresses) /\ s.next.models \in ModelList
         /\ s.next.shown \in NodeList(Usable)
         /\ s.undo.nodes \in NodeList(Addresses) /\ s.undo.models \in ModelList
         /\ s.undo = [nodes |-> s.undo.nodes, models |-> s.undo.models]
<1>1. /\ s.next \in [nodes : NodeList(Addresses), models : ModelList, shown : NodeList(Usable)]
      /\ s.undo \in [nodes : NodeList(Addresses), models : ModelList]
      /\ s.by \in {"nodes", "models", "import"} /\ s.file \in {"nodes", "models"}
  BY DEF Saving
<1>2. QED
  BY <1>1, NoSaveAssumption

\* What the lists are when no operation saves.
LEMMA AnsweredIs ==
  /\ save = NoSave => Answered.nodes = nodes /\ Answered.models = models
  /\ save # NoSave => Answered.nodes = save.undo.nodes /\ Answered.models = save.undo.models
  BY DEF Answered

LEMMA NodesSaveKept ==
  ASSUME ConfigKept, NEW list \in NodeList(Addresses), NEW shown \in NodeList(Usable),
         SaveNodes(list, shown), Changed(nodes, list),
         reload = "idle" => ShownBeside(list, shown),
         reload \in {"list", "install"} => shown = <<>>,
         reload = "install" => list = nodes
  PROVE  ConfigKept' /\ NothingPromised
<1>1. /\ save = NoSave /\ nodes' = list
      /\ save' = Save("nodes", "nodes", [nodes |-> list, models |-> models, shown |-> shown])
      /\ UNCHANGED <<nodesFile, modelsFile, models, serverNodes, unread, reload, listed>>
  BY DEF SaveNodes, files, reloading
<1>2. TypeOK /\ nodes \in NodeList(Addresses) /\ models \in ModelList
  BY DEF ConfigKept, TypeOK
<1>3. /\ save' \in Saving /\ save' # NoSave /\ save'.by = "nodes" /\ save'.file = "nodes"
      /\ save'.next.nodes = list /\ save'.next.models = models /\ save'.next.shown = shown
      /\ save'.undo.nodes = nodes /\ save'.undo.models = models
  BY <1>1, <1>2, SavingIs
<1>4. TypeOK'
  BY <1>1, <1>2, <1>3 DEF TypeOK
<1>5. SaveKept'
  BY <1>1, <1>3 DEF SaveKept, Changed, ShownBeside
<1>6. Answered' = Answered /\ Answered'.nodes = nodes
  <2>1. save'.undo = [nodes |-> nodes, models |-> models]
    BY <1>1 DEF Save
  <2>2. QED
    BY <1>1, <1>3, <2>1 DEF Answered
<1>7. ReloadKept'
  BY <1>1, <1>3, <1>6, AnsweredIs DEF ConfigKept, ReloadKept, ShownBeside
<1>8. QED
  BY <1>1, <1>6, <1>4, <1>5, <1>7 DEF ConfigKept, NothingPromised

LEMMA InsertNodeKept ==
  ASSUME ConfigKept, AddDuringReload = FALSE, NEW a \in Usable, InsertNode(a)
  PROVE  ConfigKept' /\ NothingPromised
<1> DEFINE id == NextID(ToSet(nodes))
           n == [id |-> id, address |-> a]
<1>1. /\ reload = "idle" /\ id <= MaxID /\ save = NoSave
      /\ SaveNodes(Append(nodes, n), Append(serverNodes, n))
  BY DEF InsertNode, SaveNodes
<1>2. /\ nodes \in NodeList(Addresses) /\ serverNodes \in NodeList(Usable)
      /\ serverNodes = Shown(nodes, unread) /\ unread \subseteq IdentifiersOf(nodes)
  BY <1>1 DEF ConfigKept, TypeOK, ReloadKept, Answered, ShownBeside
<1>3. /\ Len(nodes) \in Nat /\ DOMAIN nodes = 1..Len(nodes)
      /\ \A i \in 1..Len(nodes) : nodes[i].id \in 1..MaxID
  BY <1>2, NodeListHas
<1>4. id \in Nat \ {0} /\ \A m \in ToSet(nodes) : m.id # id
  <2>1. \A m \in ToSet(nodes) : m.id \in 1..MaxID
    BY <1>3 DEF ToSet
  <2>2. QED
    BY <2>1, NextIsFree
<1>5. id \in 1..MaxID /\ id \notin IdentifiersOf(nodes)
  BY <1>1, <1>4, BoundAssumption DEF IdentifiersOf
<1> HIDE DEF id
<1>6. n \in Entry(Usable) /\ n.id = id
  BY <1>5 DEF Entry
<1> HIDE DEF n
<1>7. n \in Entry(Addresses)
  BY <1>6, UsableEntry
<1>8. id \notin IdentifiersOf(serverNodes)
  <2>1. PICK m \in Nat : \E nth \in [1..m -> Nat] : Shows(nodes, serverNodes, m, nth, unread)
    BY <1>2, ShownHas
  <2>2. PICK nth \in [1..m -> Nat] : Shows(nodes, serverNodes, m, nth, unread)
    BY <2>1
  <2>3. \A j \in DOMAIN serverNodes : \E i \in 1..Len(nodes) : serverNodes[j] = nodes[i]
    BY <2>2 DEF Shows
  <2>4. ToSet(serverNodes) \subseteq ToSet(nodes)
    BY <1>3, <2>3 DEF ToSet
  <2>5. QED
    BY <1>5, <2>4 DEF IdentifiersOf
<1>9. Append(nodes, n) \in NodeList(Addresses) /\ Append(serverNodes, n) \in NodeList(Usable)
  BY <1>2, <1>5, <1>6, <1>7, <1>8, ListAppended
<1>10. ShownBeside(Append(nodes, n), Append(serverNodes, n))
  <2>1. Shown(Append(nodes, n), unread) = Append(serverNodes, n)
    BY <1>2, <1>5, <1>6, ShownAppended
  <2>2. QED
    BY <1>2, <1>5, <1>6, <1>7, <2>1, AppendedIdentifiers DEF ShownBeside
<1>11. Promised!Added(nodes, Append(nodes, n))
  <2>1. n \in Promised!ListedNode
    BY <1>7 DEF Promised!ListedNode, Entry
  <2>2. Promised!Identifiers(nodes) = IdentifiersOf(nodes)
    BY DEF Promised!Identifiers, IdentifiersOf, ToSet
  <2>3. QED
    BY <1>5, <1>6, <2>1, <2>2 DEF Promised!Added
<1>12. Changed(nodes, Append(nodes, n))
  BY <1>11 DEF Changed
<1>13. SaveNodes(Append(nodes, n), Append(serverNodes, n)) /\ reload = "idle"
  BY <1>1 DEF n
<1>14. QED
  BY <1>9, <1>10, <1>12, <1>13, NodesSaveKept

LEMMA EmptyServerHasNone ==
  ASSUME ConfigKept, reload \in {"list", "install"}
  PROVE  serverNodes = <<>> /\ IdentifiersOf(serverNodes) = {}
  BY DEF ConfigKept, ReloadKept, IdentifiersOf, ToSet

LEMMA UpdateNodeKept ==
  ASSUME ConfigKept, NEW id \in 1..MaxID, NEW a \in Usable, UpdateNode(id, a)
  PROVE  ConfigKept' /\ NothingPromised
<1> DEFINE i == IndexOf(nodes, id)
           k == IndexOf(serverNodes, id)
           list == [nodes EXCEPT ![i].address = a]
           shown == [serverNodes EXCEPT ![k].address = a]
<1>1. /\ id \in IdentifiersOf(serverNodes) /\ id \in IdentifiersOf(nodes)
      /\ SaveNodes(list, shown) /\ save = NoSave
  BY DEF UpdateNode, SaveNodes
<1>2. /\ nodes \in NodeList(Addresses) /\ serverNodes \in NodeList(Usable)
      /\ reload = "idle" => ShownBeside(nodes, serverNodes)
  BY <1>1 DEF ConfigKept, TypeOK, ReloadKept, Answered
<1>3. i \in 1..Len(nodes) /\ k \in 1..Len(serverNodes) /\ DOMAIN nodes = 1..Len(nodes)
  BY <1>1, <1>2, IndexFound, NodeListHas
<1>4. a \in Addresses
  BY AddressesAssumption
<1>5. list \in NodeList(Addresses) /\ shown \in NodeList(Usable)
  <2> HIDE DEF i, k
  <2>1. QED
    BY <1>2, <1>3, <1>4, ListEdited
<1>6. reload = "idle" => ShownBeside(list, shown)
  <2>1. reload = "idle" => shown = Shown(list, unread)
    BY <1>1, <1>2, ShownEdited DEF ShownBeside
  <2>2. IdentifiersOf(nodes) \subseteq IdentifiersOf(list)
    <3> HIDE DEF i
    <3>1. QED
      BY <1>2, <1>3, <1>4, EditedIdentifiers
  <2>3. QED
    BY <1>2, <2>1, <2>2 DEF ShownBeside
<1>7. reload \notin {"list", "install"}
  BY <1>1, EmptyServerHasNone
<1> HIDE DEF i, shown
<1>8. Changed(nodes, list)
  BY <1>3, <1>4 DEF Changed, Promised!Edited
<1> HIDE DEF list
<1>9. QED
  BY <1>1, <1>5, <1>6, <1>7, <1>8, NodesSaveKept

LEMMA DeleteNodeKept ==
  ASSUME ConfigKept, NEW id \in 1..MaxID, DeleteNode(id)
  PROVE  ConfigKept' /\ NothingPromised
<1> DEFINE i == IndexOf(nodes, id)
           k == IndexOf(serverNodes, id)
           list == RemoveAt(nodes, i)
           shown == RemoveAt(serverNodes, k)
<1>1. /\ id \in IdentifiersOf(serverNodes) /\ id \in IdentifiersOf(nodes)
      /\ SaveNodes(list, shown) /\ save = NoSave
  BY DEF DeleteNode, SaveNodes
<1>2. /\ nodes \in NodeList(Addresses) /\ serverNodes \in NodeList(Usable)
      /\ reload = "idle" => ShownBeside(nodes, serverNodes)
  BY <1>1 DEF ConfigKept, TypeOK, ReloadKept, Answered
<1>3. i \in 1..Len(nodes) /\ k \in 1..Len(serverNodes) /\ DOMAIN nodes = 1..Len(nodes)
  BY <1>1, <1>2, IndexFound, NodeListHas
<1>4. list \in NodeList(Addresses) /\ shown \in NodeList(Usable)
  <2> HIDE DEF i, k
  <2>1. QED
    BY <1>2, <1>3, ListRemoved
<1>5. reload = "idle" => ShownBeside(list, shown)
  <2> SUFFICES ASSUME reload = "idle" PROVE ShownBeside(list, shown)
    OBVIOUS
  <2>1. shown = Shown(list, unread)
    BY <1>1, <1>2, ShownRemoved DEF ShownBeside
  <2>2. id \notin unread
    BY <1>1, <1>2, ShownIdentifiers DEF ShownBeside
  <2>3. nodes[i].id = id
    BY <1>1, <1>2, IndexFound
  <2>4. unread \subseteq IdentifiersOf(list)
    <3> HIDE DEF i
    <3>1. QED
      BY <1>2, <1>3, <2>2, <2>3, RemovedIdentifiers DEF ShownBeside
  <2>5. QED
    BY <2>1, <2>4 DEF ShownBeside
<1>6. reload \notin {"list", "install"}
  BY <1>1, EmptyServerHasNone
<1>7. Changed(nodes, list)
  <2> HIDE DEF i
  <2>1. Promised!Removed(nodes, list)
    BY <1>3 DEF Promised!Removed, RemoveAt
  <2>2. QED
    BY <2>1 DEF Changed
<1> HIDE DEF list, shown
<1>8. QED
  BY <1>1, <1>4, <1>5, <1>6, <1>7, NodesSaveKept

\* An order that names nothing leaves a list as it is.
LEMMA UnnamedOrder ==
  ASSUME NEW S, NEW list \in NodeList(S)
  PROVE  Ordered(list, <<>>) = list
<1> DEFINE nth == [j \in 1..Len(list) |-> j]
           all == {i \in DOMAIN list : list[i].id \notin ToSet(<<>>)}
<1>1. list \in Seq(Entry(S)) /\ Len(list) \in Nat /\ DOMAIN list = 1..Len(list)
  BY NodeListHas
<1>2. ToSet(<<>>) = {} /\ all = 1..Len(list)
  BY <1>1 DEF ToSet
<1> HIDE DEF all
<1>3. Enumerates(all, Len(list), nth)
  <2>1. \A j \in 1..Len(list) : nth[j] = j
    OBVIOUS
  <2>2. nth \in [1..Len(list) -> all]
    BY <1>2
  <2> HIDE DEF nth
  <2>3. \A i, j \in 1..Len(list) : i < j => nth[i] < nth[j]
    BY <2>1
  <2>4. \A i \in all : \E j \in 1..Len(list) : nth[j] = i
    BY <1>2, <2>1
  <2>5. QED
    BY <1>1, <2>2, <2>3, <2>4 DEF Enumerates
<1>4. DOMAIN Picked(list, all) = 1..Len(list) /\ PickedAt(list, all, nth, Len(list))
  <2> HIDE DEF nth
  <2>1. all \subseteq Nat
    BY <1>1, <1>2
  <2>2. QED
    BY <1>3, <2>1, PickedIs
<1>5. \A j \in 1..Len(list) : Picked(list, all)[j] = list[j]
  BY <1>4 DEF PickedAt
<1>6. Picked(list, all) = list
  <2>1. Picked(list, all) = [j \in DOMAIN Picked(list, all) |-> Picked(list, all)[j]]
    BY DEF Picked
  <2>2. list = [j \in 1..Len(list) |-> list[j]]
    BY <1>1
  <2>3. QED
    BY <1>4, <1>5, <2>1, <2>2
<1>7. LeftOut(list, <<>>) = list
  BY <1>6 DEF LeftOut, all
<1>8. Named(list, <<>>) = <<>>
  <2>1. FirstNamed(list, <<>>) = {}
    BY DEF FirstNamed
  <2>2. Cardinality({}) = 0
    BY FS_EmptySet
  <2>3. DOMAIN Known(list, <<>>) = {}
    BY <2>1, <2>2 DEF Known, Picked
  <2>4. QED
    BY <2>3 DEF Named
<1>9. QED
  BY <1>1, <1>7, <1>8, OrderedIs

LEMMA ReorderNodesKept ==
  ASSUME ConfigKept, NEW order \in Orders, ReorderNodes(order)
  PROVE  ConfigKept' /\ NothingPromised
<1> DEFINE shown == Ordered(serverNodes, order)
           list == Ordered(nodes, IDsOf(shown))
<1>1. SaveNodes(list, shown) /\ save = NoSave
  BY DEF ReorderNodes, SaveNodes, IDsOf
<1>2. /\ nodes \in NodeList(Addresses) /\ serverNodes \in NodeList(Usable)
      /\ reload = "idle" => ShownBeside(nodes, serverNodes)
  BY <1>1 DEF ConfigKept, TypeOK, ReloadKept, Answered
<1>3. shown \in NodeList(Usable) /\ SameNodes(serverNodes, shown)
  BY <1>2, OrdersAssumption, OrderedKeeps
<1> HIDE DEF shown
<1>4. IDsOf(shown) \in Seq(Nat)
  <2>1. Len(shown) \in Nat /\ DOMAIN shown = 1..Len(shown) /\ \A i \in 1..Len(shown) : shown[i].id \in 1..MaxID
    BY <1>3, NodeListHas
  <2>2. \A i \in 1..Len(shown) : shown[i].id \in Nat
    BY <2>1, BoundAssumption
  <2>3. QED
    BY <2>1, <2>2 DEF IDsOf
<1>5. list \in NodeList(Addresses) /\ SameNodes(nodes, list)
  BY <1>2, <1>4, OrderedKeeps
<1>6. reload = "idle" => ShownBeside(list, shown)
  <2>1. reload = "idle" => shown = Shown(list, unread)
    BY <1>2, <1>3, ShownReordered DEF ShownBeside
  <2>2. IdentifiersOf(nodes) \subseteq IdentifiersOf(list)
    BY <1>2, <1>5, SameIdentifiers
  <2>3. QED
    BY <1>2, <2>1, <2>2 DEF ShownBeside
<1>7. reload \in {"list", "install"} => shown = <<>> /\ list = nodes
  <2> SUFFICES ASSUME reload \in {"list", "install"} PROVE shown = <<>> /\ list = nodes
    OBVIOUS
  <2>1. serverNodes = <<>>
    BY EmptyServerHasNone
  <2>2. shown = <<>>
    <3>1. shown \in Seq(Entry(Usable)) /\ Len(shown) \in Nat
      BY <1>3, NodeListHas
    <3>2. \A j \in 1..Len(shown) : FALSE
      BY <1>3, <2>1 DEF SameNodes
    <3>3. QED
      BY <3>1, <3>2
  <2>3. IDsOf(shown) = <<>>
    BY <2>2 DEF IDsOf
  <2>4. QED
    BY <1>2, <2>2, <2>3, UnnamedOrder
<1> HIDE DEF list
<1>8. Changed(nodes, list)
  BY <1>2, <1>5, ReorderedIs DEF Changed
<1>9. QED
  BY <1>1, <1>3, <1>5, <1>6, <1>7, <1>8, NodesSaveKept

LEMMA ModelListIs ==
  ASSUME NEW list
  PROVE  list \in ModelList <=>
           /\ \A m \in list : m \in [id : 1..MaxID, key : Keys \cup {NoKey}]
           /\ \A m, n \in list : m.id = n.id => m = n
<1>1. list \in Providers <=> \A m \in list : m \in [id : 1..MaxID, key : Keys \cup {NoKey}]
  BY DEF Providers
<1>2. QED
  BY <1>1 DEF ModelList

LEMMA ModelsSaveKept ==
  ASSUME ConfigKept, NEW new \in ModelList, SaveModels(new)
  PROVE  ConfigKept' /\ NothingPromised
<1>1. /\ save = NoSave /\ models' = new
      /\ save' = Save("models", "models", [nodes |-> nodes, models |-> new, shown |-> <<>>])
      /\ UNCHANGED <<nodesFile, modelsFile, nodes, serverNodes, unread, reload, listed>>
  BY DEF SaveModels, files, reloading
<1>2. TypeOK /\ nodes \in NodeList(Addresses) /\ models \in ModelList
  BY DEF ConfigKept, TypeOK
<1>3. /\ save' \in Saving /\ save' # NoSave /\ save'.by = "models" /\ save'.file = "models"
      /\ save'.next.nodes = nodes /\ save'.next.models = new
      /\ save'.undo.nodes = nodes /\ save'.undo.models = models
  <2>1. <<>> \in NodeList(Usable)
    BY EmptyNodeList
  <2>2. QED
    BY <1>1, <1>2, <2>1, SavingIs
<1>4. TypeOK'
  BY <1>1, <1>2, <1>3 DEF TypeOK
<1>5. SaveKept'
  BY <1>1, <1>3 DEF SaveKept, ShownBeside
<1>6. Answered' = Answered /\ Answered'.nodes = nodes
  <2>1. save'.undo = [nodes |-> nodes, models |-> models]
    BY <1>1 DEF Save
  <2>2. QED
    BY <1>1, <1>3, <2>1 DEF Answered
<1>7. ReloadKept'
  BY <1>1, <1>3, <1>6, AnsweredIs DEF ConfigKept, ReloadKept, ShownBeside
<1>8. QED
  BY <1>1, <1>6, <1>4, <1>5, <1>7 DEF ConfigKept, NothingPromised

LEMMA InsertModelKept ==
  ASSUME ConfigKept, NEW key \in Keys \cup {NoKey}, InsertModel(key)
  PROVE  ConfigKept' /\ NothingPromised
<1>1. PICK id : id = NextID(models)
  OBVIOUS
<1> DEFINE m == [id |-> id, key |-> key]
<1>2. id <= MaxID /\ SaveModels(models \cup {m})
  BY <1>1 DEF InsertModel
<1>3. models \in ModelList
  BY DEF ConfigKept, TypeOK
<1>4. \A n \in models : n.id \in 1..MaxID
  BY <1>3, ModelListIs
<1>5. id \in 1..MaxID /\ \A n \in models : n.id # id
  BY <1>1, <1>2, <1>4, NextIsFree, BoundAssumption
<1>6. m \in [id : 1..MaxID, key : Keys \cup {NoKey}] /\ m.id = id
  BY <1>5
<1> HIDE DEF m
<1>7. models \cup {m} \in ModelList
  BY <1>3, <1>5, <1>6, ModelListIs
<1>8. QED
  BY <1>2, <1>7, ModelsSaveKept

LEMMA UpdateModelKept ==
  ASSUME ConfigKept, NEW key \in Keys \cup {NoKey}, NEW m \in models, UpdateModel(m, key)
  PROVE  ConfigKept' /\ NothingPromised
<1>1. PICK k : k = IF key = NoKey THEN m.key ELSE key
  OBVIOUS
<1> DEFINE e == [m EXCEPT !.key = k]
<1>2. SaveModels((models \ {m}) \cup {e})
  BY <1>1 DEF UpdateModel
<1>3. models \in ModelList
  BY DEF ConfigKept, TypeOK
<1>4. m \in [id : 1..MaxID, key : Keys \cup {NoKey}]
  BY <1>3, ModelListIs
<1>5. k \in Keys \cup {NoKey}
  BY <1>1, <1>4
<1>6. e \in [id : 1..MaxID, key : Keys \cup {NoKey}] /\ e.id = m.id
  BY <1>4, <1>5
<1> HIDE DEF e
<1>7. (models \ {m}) \cup {e} \in ModelList
  BY <1>3, <1>6, ModelListIs
<1>8. QED
  BY <1>2, <1>7, ModelsSaveKept

LEMMA DeleteModelKept ==
  ASSUME ConfigKept, NEW m \in models, DeleteModel(m)
  PROVE  ConfigKept' /\ NothingPromised
<1>1. models \in ModelList /\ SaveModels(models \ {m})
  BY DEF ConfigKept, TypeOK, DeleteModel
<1>2. models \ {m} \in ModelList
  BY <1>1, ModelListIs
<1>3. QED
  BY <1>1, <1>2, ModelsSaveKept

LEMMA ImportConfigKept ==
  ASSUME ConfigKept, NEW p \in Payloads, ImportConfig(p)
  PROVE  ConfigKept' /\ NothingPromised
<1>1. PICK cleaned : cleaned = SortedByID(SanitizeStoredNodes(p.nodes))
  OBVIOUS
<1>2. /\ save = NoSave /\ reload = "idle"
      /\ save' = Save("import", "nodes", [nodes |-> cleaned, models |-> p.providers, shown |-> <<>>])
      /\ UNCHANGED <<nodesFile, modelsFile, nodes, models, serverNodes, unread, reload, listed>>
  BY <1>1 DEF ImportConfig, files, reloading
<1>3. TypeOK /\ nodes \in NodeList(Addresses) /\ models \in ModelList
  BY DEF ConfigKept, TypeOK
<1>4. cleaned \in NodeList(Addresses) /\ p.providers \in ModelList
  BY <1>1, PayloadsAssumption, HandWrittenHas, ListSorted
<1>5. /\ save' \in Saving /\ save' # NoSave /\ save'.by = "import" /\ save'.file = "nodes"
      /\ save'.undo.nodes = nodes /\ save'.undo.models = models
  <2>1. <<>> \in NodeList(Usable)
    BY EmptyNodeList
  <2>2. QED
    BY <1>2, <1>3, <1>4, <2>1, SavingIs
<1>6. TypeOK'
  BY <1>2, <1>3, <1>5 DEF TypeOK
<1>7. SaveKept'
  BY <1>2, <1>5 DEF SaveKept, ShownBeside
<1>8. Answered' = Answered /\ Answered'.nodes = nodes
  <2>1. save'.undo = [nodes |-> nodes, models |-> models]
    BY <1>2 DEF Save
  <2>2. QED
    BY <1>2, <1>5, <2>1 DEF Answered
<1>9. ReloadKept'
  BY <1>2, <1>5, <1>8, AnsweredIs DEF ConfigKept, ReloadKept, ShownBeside
<1>10. QED
  BY <1>2, <1>8, <1>6, <1>7, <1>9 DEF ConfigKept, NothingPromised

-----------------------------------------------------------------------------
(***************************************************************************)
(* Writing and reloading.                                                  *)
(***************************************************************************)
\* What a save goes on with, apart from the step and the file it is at.
LEMMA SavingShape ==
  \E N, U : Saving = [by : {"nodes", "models", "import"}, file : {"nodes", "models"},
                      pc : {"write", "rename"}, next : N, undo : U]
  BY DEF Saving

LEMMA WriteTemporaryKept ==
  ASSUME ConfigKept, WriteTemporary
  PROVE  ConfigKept' /\ NothingPromised
<1>1. /\ save \in Saving /\ save' = [save EXCEPT !.pc = "rename"]
      /\ UNCHANGED <<nodesFile, modelsFile, nodes, models, serverNodes, unread, reload, listed>>
  BY DEF WriteTemporary, ConfigKept, TypeOK, files, reloading
<1>2. PICK N, U : Saving = [by : {"nodes", "models", "import"}, file : {"nodes", "models"},
                            pc : {"write", "rename"}, next : N, undo : U]
  BY SavingShape
<1>3. /\ save' \in Saving /\ save'.by = save.by /\ save'.file = save.file
      /\ save'.next = save.next /\ save'.undo = save.undo
  BY <1>1, <1>2
<1>4. save # NoSave /\ save' # NoSave
  BY <1>1, <1>3, NoSaveAssumption
<1>5. Answered' = Answered
  BY <1>3, <1>4 DEF Answered
<1>6. TypeOK'
  BY <1>1, <1>3 DEF ConfigKept, TypeOK
<1>7. SaveKept'
  BY <1>1, <1>3, <1>4 DEF ConfigKept, SaveKept, Changed, ShownBeside
<1>8. ReloadKept'
  BY <1>1, <1>3, <1>4, <1>5 DEF ConfigKept, ReloadKept, ShownBeside
<1>9. QED
  BY <1>1, <1>5, <1>6, <1>7, <1>8 DEF ConfigKept, NothingPromised

\* The last file is in place: what was to be stored is.
LEMMA RenameLastKept ==
  ASSUME ConfigKept, Rename, ~(save.by = "import" /\ save.file = "nodes")
  PROVE  ConfigKept'
<1>1. /\ save \in Saving /\ save # NoSave /\ save' = NoSave
      /\ nodes' = save.next.nodes /\ models' = save.next.models
      /\ serverNodes' = IF save.by = "nodes" THEN save.next.shown ELSE serverNodes
      /\ reload' = IF save.by = "import" THEN "drop" ELSE reload
      /\ listed' = listed /\ unread' = unread
      /\ IF save.file = "nodes" THEN nodesFile' = save.next.nodes /\ UNCHANGED modelsFile
         ELSE modelsFile' = save.next.models /\ UNCHANGED nodesFile
  BY DEF Rename, ConfigKept, TypeOK
<1>2. TypeOK /\ SaveKept /\ ReloadKept
  BY DEF ConfigKept
<1>3. TypeOK'
  BY <1>1, <1>2, SavingHas DEF TypeOK
<1>4. SaveKept'
  BY <1>1 DEF SaveKept, ShownBeside
<1>5. Answered'.nodes = nodes'
  BY <1>1 DEF Answered
<1>6. ReloadKept'
  <2>1. save.by \in {"nodes", "models", "import"}
    BY <1>1, SavingHas
  <2>2. CASE save.by = "nodes"
    BY <1>1, <1>2, <1>5, <2>2, AnsweredIs DEF SaveKept, ReloadKept, ShownBeside
  <2>3. CASE save.by = "models"
    BY <1>1, <1>2, <1>5, <2>3, AnsweredIs DEF SaveKept, ReloadKept, ShownBeside
  <2>4. CASE save.by = "import"
    BY <1>1, <1>2, <1>5, <2>4 DEF SaveKept, ReloadKept, ShownBeside
  <2>5. QED
    BY <2>1, <2>2, <2>3, <2>4
<1>7. QED
  BY <1>3, <1>4, <1>6 DEF ConfigKept

\* The import's first file is in place: the second follows.
LEMMA RenameFirstKept ==
  ASSUME ConfigKept, Rename, save.by = "import", save.file = "nodes"
  PROVE  /\ ConfigKept' /\ Answered' = Answered
         /\ save.next.nodes \in NodeList(Addresses)
         /\ nodesFile' = save.next.nodes /\ UNCHANGED modelsFile
<1>1. /\ save \in Saving /\ save' = [save EXCEPT !.file = "models", !.pc = "write"]
      /\ nodesFile' = save.next.nodes
      /\ UNCHANGED <<modelsFile, nodes, models, serverNodes, unread, reload, listed>>
  BY DEF Rename, ConfigKept, TypeOK
<1>2. PICK N, U : Saving = [by : {"nodes", "models", "import"}, file : {"nodes", "models"},
                            pc : {"write", "rename"}, next : N, undo : U]
  BY SavingShape
<1>3. /\ save' \in Saving /\ save'.by = save.by /\ save'.file = "models"
      /\ save'.next = save.next /\ save'.undo = save.undo
  BY <1>1, <1>2
<1>4. save # NoSave /\ save' # NoSave /\ save.next.nodes \in NodeList(Addresses)
  BY <1>1, <1>3, SavingHas
<1>5. Answered' = Answered
  BY <1>3, <1>4 DEF Answered
<1>6. TypeOK'
  BY <1>1, <1>3, <1>4 DEF ConfigKept, TypeOK
<1>7. SaveKept'
  BY <1>1, <1>3, <1>4 DEF ConfigKept, SaveKept, ShownBeside
<1>8. ReloadKept'
  BY <1>1, <1>3, <1>4, <1>5 DEF ConfigKept, ReloadKept, ShownBeside
<1>9. QED
  BY <1>1, <1>4, <1>5, <1>6, <1>7, <1>8 DEF ConfigKept

\* A write that fails puts back what was there.
LEMMA WriteFailsKept ==
  ASSUME ConfigKept, WriteFails
  PROVE  ConfigKept' /\ NothingPromised
<1>1. /\ save \in Saving /\ save # NoSave /\ save' = NoSave
      /\ nodes' = save.undo.nodes /\ models' = save.undo.models
      /\ UNCHANGED <<nodesFile, modelsFile, serverNodes, unread, reload, listed>>
  BY DEF WriteFails, Undone, ConfigKept, TypeOK, files, reloading
<1>2. Answered' = Answered
  BY <1>1, SavingHas DEF Answered
<1>3. TypeOK'
  BY <1>1, SavingHas DEF ConfigKept, TypeOK
<1>4. SaveKept'
  BY <1>1 DEF SaveKept, ShownBeside
<1>5. ReloadKept'
  BY <1>1, <1>2 DEF ConfigKept, ReloadKept, ShownBeside
<1>6. QED
  BY <1>1, <1>2, <1>3, <1>4, <1>5 DEF ConfigKept, NothingPromised

LEMMA DropNodesKept ==
  ASSUME ConfigKept, DropNodes
  PROVE  ConfigKept' /\ NothingPromised
<1>1. /\ reload = "drop" /\ (save # NoSave => save.by # "nodes")
      /\ serverNodes' = <<>> /\ reload' = "list"
      /\ UNCHANGED <<nodesFile, modelsFile, nodes, models, save, unread, listed>>
  BY DEF DropNodes, ServerUnlocked, files
<1>2. Answered' = Answered
  BY <1>1 DEF Answered
<1>3. TypeOK'
  BY <1>1, EmptyNodeList DEF ConfigKept, TypeOK
<1>4. SaveKept'
  BY <1>1 DEF ConfigKept, SaveKept, ShownBeside
<1>5. ReloadKept'
  BY <1>1 DEF ConfigKept, ReloadKept, ShownBeside
<1>6. QED
  BY <1>1, <1>2, <1>3, <1>4, <1>5 DEF ConfigKept, NothingPromised

LEMMA ListNodesKept ==
  ASSUME ConfigKept, ListNodes
  PROVE  ConfigKept' /\ NothingPromised
<1>1. /\ reload = "list" /\ save = NoSave
      /\ listed' = nodes /\ reload' = "install"
      /\ UNCHANGED <<nodesFile, modelsFile, nodes, models, save, serverNodes, unread>>
  BY DEF ListNodes, files
<1>2. Answered' = Answered
  BY <1>1 DEF Answered
<1>3. TypeOK'
  BY <1>1 DEF ConfigKept, TypeOK
<1>4. SaveKept'
  BY <1>1 DEF ConfigKept, SaveKept, ShownBeside
<1>5. ReloadKept'
  BY <1>1, <1>2, AnsweredIs DEF ConfigKept, ReloadKept, ShownBeside
<1>6. QED
  BY <1>1, <1>2, <1>3, <1>4, <1>5 DEF ConfigKept, NothingPromised

LEMMA InstallNodesKept ==
  ASSUME ConfigKept, InstallNodes
  PROVE  ConfigKept' /\ NothingPromised
<1>1. /\ reload = "install" /\ (save # NoSave => save.by # "nodes")
      /\ serverNodes' = Shown(listed, {}) /\ unread' = {} /\ reload' = "idle" /\ listed' = <<>>
      /\ UNCHANGED <<nodesFile, modelsFile, nodes, models, save>>
  BY DEF InstallNodes, ServerUnlocked, files
<1>2. Answered' = Answered
  BY <1>1 DEF Answered
<1>3. TypeOK'
  BY <1>1, EmptyNodeList, ShownHas DEF ConfigKept, TypeOK
<1>4. SaveKept'
  BY <1>1 DEF ConfigKept, SaveKept, ShownBeside
<1>5. ReloadKept'
  BY <1>1, <1>2 DEF ConfigKept, ReloadKept, ShownBeside
<1>6. QED
  BY <1>1, <1>2, <1>3, <1>4, <1>5 DEF ConfigKept, NothingPromised

LEMMA RestartKept ==
  ASSUME ConfigKept, Restart
  PROVE  /\ ConfigKept' /\ UNCHANGED <<nodesFile, modelsFile>>
         /\ Answered' = [nodes |-> LoadNodes(nodesFile), models |-> LoadModels(modelsFile)]
<1>1. /\ nodes' = LoadNodes(nodesFile) /\ models' = LoadModels(modelsFile)
      /\ serverNodes' = Shown(nodes', unread') /\ unread' = Unread(nodes')
      /\ save' = NoSave /\ reload' = "idle" /\ listed' = <<>>
      /\ UNCHANGED <<nodesFile, modelsFile>>
  BY DEF Restart, files
<1>2. nodes' \in NodeList(Addresses) /\ models' \in ModelList
  BY <1>1, NodesLoaded, ModelsLoaded DEF ConfigKept, TypeOK
<1>3. Answered' = [nodes |-> nodes', models |-> models']
  BY <1>1 DEF Answered
<1>7. unread' \subseteq IdentifiersOf(nodes') /\ IdentifiersOf(nodes') \subseteq 1..MaxID
  BY <1>1, <1>2, IdentifiersAre DEF Unread
<1>4. TypeOK'
  BY <1>1, <1>2, <1>7, EmptyNodeList, ShownHas DEF ConfigKept, TypeOK
<1>5. SaveKept' /\ ReloadKept'
  BY <1>1, <1>3, <1>7 DEF SaveKept, ReloadKept, ShownBeside
<1>6. QED
  BY <1>1, <1>3, <1>4, <1>5 DEF ConfigKept

LEMMA InitKept ==
  ASSUME Init
  PROVE  ConfigKept
<1>1. nodes \in NodeList(Addresses) /\ models \in ModelList
  BY NodesLoaded, ModelsLoaded DEF Init
<1>2. unread \subseteq IdentifiersOf(nodes) /\ IdentifiersOf(nodes) \subseteq 1..MaxID
  BY <1>1, IdentifiersAre DEF Init, Unread
<1>3. TypeOK
  BY <1>1, <1>2, EmptyNodeList, ShownHas DEF Init, TypeOK
<1>4. QED
  BY <1>2, <1>3, AnsweredIs DEF Init, ConfigKept, SaveKept, ReloadKept, ShownBeside

LEMMA StutterKept ==
  ASSUME ConfigKept, UNCHANGED vars
  PROVE  ConfigKept' /\ NothingPromised
<1>1. UNCHANGED <<nodesFile, modelsFile, nodes, models, save, serverNodes, unread, reload, listed>>
  BY DEF vars, files, reloading
<1>2. Answered' = Answered
  BY <1>1 DEF Answered
<1>3. QED
  BY <1>1, <1>2 DEF ConfigKept, TypeOK, SaveKept, ReloadKept, Changed, NothingPromised, ShownBeside

-----------------------------------------------------------------------------
(***************************************************************************)
(* The theorems.                                                           *)
(***************************************************************************)
LEMMA StepKept ==
  ASSUME ConfigKept, AddDuringReload = FALSE, [Next]_vars
  PROVE  ConfigKept'
<1>1. CASE \E a \in Usable : InsertNode(a) \/ \E id \in 1..MaxID : UpdateNode(id, a)
  BY <1>1, InsertNodeKept, UpdateNodeKept
<1>2. CASE \E id \in 1..MaxID : DeleteNode(id)
  BY <1>2, DeleteNodeKept
<1>3. CASE \E order \in Orders : ReorderNodes(order)
  BY <1>3, ReorderNodesKept
<1>4. CASE \E key \in Keys \cup {NoKey} : InsertModel(key) \/ \E m \in models : UpdateModel(m, key)
  BY <1>4, InsertModelKept, UpdateModelKept
<1>5. CASE \E m \in models : DeleteModel(m)
  BY <1>5, DeleteModelKept
<1>6. CASE \E p \in Payloads : ImportConfig(p)
  BY <1>6, ImportConfigKept
<1>7. CASE Rename
  BY <1>7, RenameFirstKept, RenameLastKept
<1>8. CASE WriteTemporary \/ WriteFails
  BY <1>8, WriteTemporaryKept, WriteFailsKept
<1>9. CASE DropNodes \/ ListNodes \/ InstallNodes
  BY <1>9, DropNodesKept, ListNodesKept, InstallNodesKept
<1>10. CASE Restart
  BY <1>10, RestartKept
<1>11. CASE UNCHANGED vars
  BY <1>11, StutterKept
<1>12. QED
  BY <1>1, <1>2, <1>3, <1>4, <1>5, <1>6, <1>7, <1>8, <1>9, <1>10, <1>11 DEF Next

\* While no node is added during an import's reload, the store, the files and the
\* server's list stay as far apart as the operation and the reload that are under way
\* make them (configStore, reloadNodesFromStore).
THEOREM StoreIsAlwaysKept ==
  ASSUME AddDuringReload = FALSE
  PROVE  Spec => []ConfigKept
<1>1. Init => ConfigKept
  BY InitKept
<1>2. ConfigKept /\ [Next]_vars => ConfigKept'
  BY StepKept
<1>3. QED
  BY <1>1, <1>2, PTL DEF Spec

\* Between requests the list the server shows is what the store's list shows, less what
\* a start with an unreadable file left out, which the store still has.
THEOREM ListsAlwaysAgree ==
  ASSUME AddDuringReload = FALSE
  PROVE  Spec => []ListsAgree
<1>1. ConfigKept => ListsAgree
  BY AnsweredIs DEF ConfigKept, ReloadKept, ListsAgree, ServerShowsStore, ShownBeside
<1>2. QED
  BY <1>1, StoreIsAlwaysKept, PTL

-----------------------------------------------------------------------------
(***************************************************************************)
(* The store implements Configuration.  A request begins and fails without *)
(* a change of what is answered or kept; the renaming of its file is the   *)
(* step that Configuration takes.                                          *)
(***************************************************************************)
LEMMA PromisedLists ==
  ASSUME NEW list \in NodeList(Addresses)
  PROVE  list \in Seq(Promised!ListedNode) /\ Promised!Unique(list)
  BY NodeListHas DEF Promised!ListedNode, Entry, Promised!Unique, Unique

LEMMA PromisedProviders ==
  ASSUME NEW list \in ModelList
  PROVE  list \in Promised!Providers
  BY DEF ModelList, Providers, Promised!Providers

LEMMA NothingChanges ==
  ASSUME NothingPromised
  PROVE  UNCHANGED Promised!configuration
  BY DEF NothingPromised, Promised!configuration

LEMMA PromisedStart ==
  ASSUME Init
  PROVE  Promised!Start
<1>1. save = NoSave /\ nodes = LoadNodes(nodesFile) /\ models = LoadModels(modelsFile)
  BY DEF Init
<1>2. nodes \in NodeList(Addresses) /\ models \in ModelList
  BY InitKept DEF ConfigKept, TypeOK
<1>3. Answered.nodes = nodes /\ Answered.models = models
  BY <1>1, AnsweredIs
<1>4. QED
  BY <1>1, <1>2, <1>3, PromisedLists, PromisedProviders DEF Promised!Start

\* The last file of an operation is in place.
LEMMA RenamePromised ==
  ASSUME ConfigKept, ConfigKept', Rename, ~(save.by = "import" /\ save.file = "nodes")
  PROVE  Promised!Change
<1>1. /\ save \in Saving /\ save # NoSave /\ save' = NoSave
      /\ nodes' = save.next.nodes /\ models' = save.next.models
      /\ IF save.file = "nodes" THEN nodesFile' = save.next.nodes /\ UNCHANGED modelsFile
         ELSE modelsFile' = save.next.models /\ UNCHANGED nodesFile
  BY DEF Rename, ConfigKept, TypeOK
<1>2. /\ save.by \in {"nodes", "models", "import"} /\ save.file \in {"nodes", "models"}
      /\ save.next.nodes \in NodeList(Addresses) /\ save.next.models \in ModelList
  BY <1>1, SavingHas
<1>3. SaveKept
  BY DEF ConfigKept
<1>4. /\ Answered.nodes = save.undo.nodes /\ Answered.models = save.undo.models
      /\ Answered'.nodes = save.next.nodes /\ Answered'.models = save.next.models
  BY <1>1 DEF Answered
<1>5. /\ LoadNodes(save.next.nodes) = save.next.nodes
      /\ LoadModels(save.next.models) = save.next.models
  BY <1>2, NodesLoaded, ModelsLoaded
<1>6. CASE save.by = "nodes"
  <2>1. /\ save.file = "nodes" /\ save.next.nodes = nodes /\ save.next.models = save.undo.models
        /\ Changed(save.undo.nodes, save.next.nodes)
    BY <1>1, <1>3, <1>6 DEF SaveKept
  <2>2. nodesFile' = save.next.nodes /\ UNCHANGED modelsFile
    BY <1>1, <2>1
  <2>3. Promised!NodeRequest
    BY <1>4, <1>5, <2>1, <2>2 DEF Promised!NodeRequest, Changed
  <2>4. QED
    BY <2>3 DEF Promised!Change
<1>7. CASE save.by = "models"
  <2>1. save.file = "models" /\ save.next.nodes = save.undo.nodes
    BY <1>1, <1>3, <1>7 DEF SaveKept
  <2>2. modelsFile' = save.next.models /\ UNCHANGED nodesFile
    BY <1>1, <2>1
  <2>3. Promised!ProviderRequest
    BY <1>2, <1>4, <1>5, <2>1, <2>2, PromisedProviders DEF Promised!ProviderRequest
  <2>4. QED
    BY <2>3 DEF Promised!Change
<1>8. CASE save.by = "import"
  <2>1. save.file = "models" /\ nodesFile = save.next.nodes
    BY <1>1, <1>2, <1>3, <1>8 DEF SaveKept
  <2>2. modelsFile' = save.next.models /\ UNCHANGED nodesFile
    BY <1>1, <2>1
  <2>3. Promised!Import
    BY <1>2, <1>4, <1>5, <2>1, <2>2, PromisedProviders DEF Promised!Import
  <2>4. QED
    BY <2>3 DEF Promised!Change
<1>9. QED
  BY <1>2, <1>6, <1>7, <1>8

\* The first file of an import is in place.
LEMMA ImportPromised ==
  ASSUME ConfigKept, Rename, save.by = "import", save.file = "nodes"
  PROVE  Promised!Change
<1>1. /\ Answered' = Answered /\ save.next.nodes \in NodeList(Addresses)
      /\ nodesFile' = save.next.nodes /\ UNCHANGED modelsFile
  BY RenameFirstKept
<1>2. LoadNodes(save.next.nodes) = save.next.nodes
  BY <1>1, NodesLoaded
<1>3. Promised!ImportNodes
  BY <1>1, <1>2, PromisedLists DEF Promised!ImportNodes
<1>4. QED
  BY <1>3 DEF Promised!Change

LEMMA RestartPromised ==
  ASSUME ConfigKept, Restart
  PROVE  Promised!Change
<1>1. /\ UNCHANGED <<nodesFile, modelsFile>>
      /\ Answered'.nodes = LoadNodes(nodesFile) /\ Answered'.models = LoadModels(modelsFile)
  BY RestartKept
<1>2. Promised!Restart
  BY <1>1 DEF Promised!Restart
<1>3. QED
  BY <1>2 DEF Promised!Change

LEMMA StepPromised ==
  ASSUME ConfigKept, AddDuringReload = FALSE, [Next]_vars
  PROVE  [Promised!Change]_(Promised!configuration)
<1>1. CASE \E a \in Usable : InsertNode(a) \/ \E id \in 1..MaxID : UpdateNode(id, a)
  BY <1>1, InsertNodeKept, UpdateNodeKept, NothingChanges
<1>2. CASE \E id \in 1..MaxID : DeleteNode(id)
  BY <1>2, DeleteNodeKept, NothingChanges
<1>3. CASE \E order \in Orders : ReorderNodes(order)
  BY <1>3, ReorderNodesKept, NothingChanges
<1>4. CASE \E key \in Keys \cup {NoKey} : InsertModel(key) \/ \E m \in models : UpdateModel(m, key)
  BY <1>4, InsertModelKept, UpdateModelKept, NothingChanges
<1>5. CASE \E m \in models : DeleteModel(m)
  BY <1>5, DeleteModelKept, NothingChanges
<1>6. CASE \E p \in Payloads : ImportConfig(p)
  BY <1>6, ImportConfigKept, NothingChanges
<1>7. CASE Rename
  BY <1>7, StepKept, ImportPromised, RenamePromised
<1>8. CASE WriteTemporary \/ WriteFails
  BY <1>8, WriteTemporaryKept, WriteFailsKept, NothingChanges
<1>9. CASE DropNodes \/ ListNodes \/ InstallNodes
  BY <1>9, DropNodesKept, ListNodesKept, InstallNodesKept, NothingChanges
<1>10. CASE Restart
  BY <1>10, RestartPromised
<1>11. CASE UNCHANGED vars
  BY <1>11, StutterKept, NothingChanges
<1>12. QED
  BY <1>1, <1>2, <1>3, <1>4, <1>5, <1>6, <1>7, <1>8, <1>9, <1>10, <1>11 DEF Next

\* The store implements Configuration: a request that fails or is cut off leaves both
\* lists and both files as they were, one that succeeds is on disk, and only the import's
\* first file is ever ahead of what the service answers (configStore, writeFileAtomic).
THEOREM ConfigurationIsImplemented ==
  ASSUME AddDuringReload = FALSE
  PROVE  Spec => ConfigurationImplemented
<1>1. Init => Promised!Start
  BY PromisedStart
<1>2. ConfigKept /\ [Next]_vars => [Promised!Change]_(Promised!configuration)
  BY StepPromised
<1>3. QED
  BY <1>1, <1>2, StoreIsAlwaysKept, PTL
     DEF Spec, ConfigurationImplemented, Promised!ConfigurationSpec

-----------------------------------------------------------------------------
(***************************************************************************)
(* The connections and streams of the nodes (NodeStreams): for every set   *)
(* of nodes, addresses and containers and every number of contexts and     *)
(* stream goroutines.                                                      *)
(***************************************************************************)
USE ListsAssumption, MaxContextsAssumption

\* A handler that purges saw a change, a goroutine that connected knows
\* where to, one that starts streams has a context to start them with, and a
\* context nobody created has no goroutine.
Fits(c) ==
  /\ At(c, "purge") \/ At(c, "cancel") => connection[c].changed
  /\ At(c, "check") \/ At(c, "register") => connection[c].use \in Contexts
  /\ ~ At(c, "none") /\ ~ At(c, "start") => connection[c].own \in URLs
Underway ==
  \A c \in Contexts : Fits(c) /\ (c > created => connection[c] = NoConnection)

\* The inductive invariant.
Registration == StreamsTypeOK /\ Underway /\ StreamHasTailer /\ StaleIsTransient

\* A goroutine that is somewhere has a node.
LEMMA ActiveConnection ==
  ASSUME StreamsTypeOK, NEW c \in Contexts, connection[c].pc # "none"
  PROVE  /\ connection[c] \in Running
         /\ connection[c].pc \in Places
         /\ Node(c) \in Nodes
         /\ connection[c].own \in URLs \cup {NoURL}
         /\ connection[c].list \in SUBSET Containers
         /\ connection[c].changed \in BOOLEAN
         /\ connection[c].use \in Contexts \cup {NoContext}
         /\ connection[c].todo \in SUBSET Containers
         /\ connection[c].next \in SUBSET Containers
  BY DEF StreamsTypeOK, Connection, Running, NoConnection, Node

\* The context of a connect is one of Contexts.
LEMMA FreshContext ==
  ASSUME StreamsTypeOK, created < MaxContexts
  PROVE  created + 1 \in Contexts /\ created + 1 \in 0..MaxContexts
  BY DEF StreamsTypeOK, Contexts

\* A goroutine moves on in one step.
LEMMA BecomeType ==
  ASSUME StreamsTypeOK, NEW c \in Contexts, NEW state \in Connection, Become(c, state)
  PROVE  connection' \in [Contexts -> Connection]
  BY DEF StreamsTypeOK, Become

\* A connection that runs, or none, is a connection.
LEMMA RunningConnection == Running \subseteq Connection /\ NoConnection \in Connection
  BY DEF Connection

\* Moving on keeps a connection typed.
LEMMA MoveType ==
  ASSUME StreamsTypeOK, NEW c \in Contexts, connection[c].pc # "none", NEW place \in Places, Move(c, place)
  PROVE  connection' \in [Contexts -> Connection]
<1>1. connection[c] \in Running
  BY ActiveConnection
<1>2. [connection[c] EXCEPT !.pc = place] \in Running
  BY <1>1 DEF Running
<1>3. QED
  BY <1>2, BecomeType, RunningConnection DEF Move

\* Going back to listening keeps a connection typed.
LEMMA ListenType ==
  ASSUME StreamsTypeOK, NEW c \in Contexts, connection[c].pc # "none", Listen(c)
  PROVE  connection' \in [Contexts -> Connection]
<1>1. connection[c] \in Running
  BY ActiveConnection
<1>2. [connection[c] EXCEPT !.pc = "listen", !.list = {}, !.changed = FALSE,
                            !.use = NoContext, !.todo = {}] \in Running
  BY <1>1 DEF Running, Places
<1>3. QED
  BY <1>2, BecomeType, RunningConnection DEF Listen

\* Adding and editing a node start a goroutine for it.
LEMMA ConnectType ==
  ASSUME StreamsTypeOK, NEW n \in Nodes, Connect(n)
  PROVE  /\ created' \in 0..MaxContexts
         /\ nodeContext' \in [Nodes -> Contexts \cup {NoContext}]
         /\ connection' \in [Contexts -> Connection]
<1>1. created + 1 \in Contexts /\ created + 1 \in 0..MaxContexts
  BY FreshContext DEF Connect
<1>2. [NoConnection EXCEPT !.pc = "start", !.node = n] \in Running
  BY DEF NoConnection, Running, Places
<1>3. connection' \in [Contexts -> Connection]
  BY <1>1, <1>2, BecomeType, RunningConnection DEF Connect
<1>4. QED
  BY <1>1, <1>3 DEF StreamsTypeOK, Connect

\* What a step of a goroutine makes of it.
LEMMA ConnectionType ==
  ASSUME StreamsTypeOK, Underway, NEW c \in Contexts, ConnectionStep(c)
  PROVE  connection' \in [Contexts -> Connection]
<1>1. CASE CancelContext(c)
  BY <1>1 DEF CancelContext, StreamsTypeOK
<1>2. CASE ReadNode(c)
  <2>1. connection[c] \in Running /\ Node(c) \in Nodes
    BY <1>2, ActiveConnection DEF ReadNode, At
  <2>2. address[Node(c)] \in URLs \cup {NoURL}
    BY <2>1 DEF StreamsTypeOK
  <2>3. [connection[c] EXCEPT !.pc = "connect", !.own = address[Node(c)]] \in Running
    BY <2>1, <2>2 DEF Running, Places
  <2>4. QED
    BY <1>2, <2>3, BecomeType, RunningConnection DEF ReadNode
<1>3. CASE FetchHost(c)
  BY <1>3, MoveType DEF FetchHost, At, Places
<1>4. CASE FetchHostFails(c) \/ EndListening(c)
  BY <1>4, BecomeType, RunningConnection DEF FetchHostFails, EndListening
<1>5. CASE SetNodeHost(c)
  BY <1>5, MoveType DEF SetNodeHost, At, Places
<1>6. ASSUME NEW list \in SUBSET Containers, ContainersChanged(c, list)
      PROVE  connection' \in [Contexts -> Connection]
  <2> DEFINE todo == IF hostID[Node(c)] = NoHost THEN {} ELSE list
  <2>1. connection[c] \in Running /\ todo \in SUBSET Containers
    BY <1>6, ActiveConnection DEF ContainersChanged, At
  <2> HIDE DEF todo
  <2>2. [connection[c] EXCEPT !.pc = "compare", !.list = list, !.todo = todo] \in Running
    BY <2>1 DEF Running, Places
  <2>3. QED
    BY <1>6, <2>2, BecomeType, RunningConnection DEF ContainersChanged, todo
<1>7. CASE CompareLists(c)
  <2> DEFINE changed == ~ SameContainerSet(names[Node(c)], connection[c].list)
             place == IF changed THEN "purge" ELSE "commit"
  <2>1. connection[c] \in Running /\ changed \in BOOLEAN /\ place \in Places
    BY <1>7, ActiveConnection DEF CompareLists, At, Places
  <2>2. Become(c, [connection[c] EXCEPT !.changed = changed, !.pc = place])
    BY <1>7 DEF CompareLists
  <2> HIDE DEF changed, place
  <2>3. [connection[c] EXCEPT !.changed = changed, !.pc = place] \in Running
    BY <2>1 DEF Running
  <2>4. QED
    BY <2>2, <2>3, BecomeType, RunningConnection
<1>8. CASE PurgeNodeHistory(c)
  <2>1. connection[c] \in Running /\ Node(c) \in Nodes
    BY <1>8, ActiveConnection DEF PurgeNodeHistory, At
  <2>2. nodeContext[Node(c)] \in Contexts \cup {NoContext}
    BY <2>1 DEF StreamsTypeOK
  <2>3. [connection[c] EXCEPT !.pc = "cancel", !.use = nodeContext[Node(c)]] \in Running
    BY <2>1, <2>2 DEF Running, Places
  <2>4. QED
    BY <1>8, <2>3, BecomeType, RunningConnection DEF PurgeNodeHistory
<1>9. CASE CancelPurged(c)
  BY <1>9, MoveType DEF CancelPurged, At, Places
<1>10. CASE CommitContainers(c)
  <2> DEFINE place == IF connection[c].changed THEN "renew" ELSE "check"
  <2>1. connection[c] \in Running /\ place \in Places
    BY <1>10, ActiveConnection DEF CommitContainers, At, Places
  <2>2. Become(c, [connection[c] EXCEPT !.use = c, !.pc = place])
    BY <1>10 DEF CommitContainers
  <2> HIDE DEF place
  <2>3. [connection[c] EXCEPT !.use = c, !.pc = place] \in Running
    BY <2>1 DEF Running
  <2>4. QED
    BY <2>2, <2>3, BecomeType, RunningConnection
<1>11. CASE RenewContext(c)
  <2>1. connection[c] \in Running /\ created + 1 \in Contexts
    BY <1>11, ActiveConnection, FreshContext DEF RenewContext, At
  <2>2. [connection[c] EXCEPT !.pc = "check", !.use = created + 1] \in Running
    BY <2>1 DEF Running, Places
  <2>3. CASE c \in cancelled
    BY <1>11, <2>3, ListenType DEF RenewContext, At
  <2>4. CASE c \notin cancelled
    BY <1>11, <2>2, <2>4, BecomeType, RunningConnection DEF RenewContext
  <2>5. QED BY <2>3, <2>4
<1>12. CASE StreamsDone(c)
  BY <1>12, ListenType DEF StreamsDone, At
<1>13. CASE RegisterStream(c)
  <2>1. connection[c] \in Running
    BY <1>13, ActiveConnection DEF RegisterStream, At
  <2>2. [connection[c] EXCEPT !.pc = "check", !.next = {}] \in Running
    BY <2>1 DEF Running, Places
  <2>3. QED
    BY <1>13, <2>2, BecomeType, RunningConnection DEF RegisterStream
<1>14. ASSUME NEW k \in Containers, CheckContext(c, k)
       PROVE  connection' \in [Contexts -> Connection]
  <2> DEFINE todo == connection[c].todo \ {k}
             next == IF connection[c].use \in cancelled THEN {} ELSE {k}
             place == IF connection[c].use \in cancelled THEN "check" ELSE "register"
  <2>1. /\ connection[c] \in Running
        /\ todo \in SUBSET Containers /\ next \in SUBSET Containers /\ place \in Places
    BY <1>14, ActiveConnection DEF CheckContext, At, Places
  <2>2. Become(c, [connection[c] EXCEPT !.todo = todo, !.next = next, !.pc = place])
    BY <1>14 DEF CheckContext
  <2> HIDE DEF todo, next, place
  <2>3. [connection[c] EXCEPT !.todo = todo, !.next = next, !.pc = place] \in Running
    BY <2>1 DEF Running
  <2>4. QED
    BY <2>2, <2>3, BecomeType, RunningConnection
<1>15. QED
  BY <1>1, <1>2, <1>3, <1>4, <1>5, <1>6, <1>7, <1>8, <1>9, <1>10, <1>11, <1>12, <1>13, <1>14
    DEF ConnectionStep
-----------------------------------------------------------------------------
(***************************************************************************)
(* Type correctness.                                                       *)
(***************************************************************************)
\* A step of a goroutine keeps every other variable well typed too.
LEMMA ConnectionTypeStep ==
  ASSUME StreamsTypeOK, Underway, NEW c \in Contexts, ConnectionStep(c)
  PROVE  StreamsTypeOK'
<1>1. connection' \in [Contexts -> Connection]
  BY ConnectionType
<1> USE <1>1
<1>2. CASE CancelContext(c)
  BY <1>2 DEF CancelContext, Cancelled, StreamsTypeOK, nodeVars, streamVars
<1>3. CASE ReadNode(c)
  BY <1>3 DEF ReadNode, StreamsTypeOK, nodeVars, contextVars, streamVars
<1>4. CASE FetchHost(c)
  BY <1>4 DEF FetchHost, StreamsTypeOK, nodeVars, contextVars, streamVars
<1>5. CASE FetchHostFails(c)
  BY <1>5 DEF FetchHostFails, StreamsTypeOK, nodeVars, contextVars, streamVars
<1>6. CASE SetNodeHost(c)
  <2>1. connection[c].own \in URLs
    BY <1>6 DEF SetNodeHost, Underway, Fits, At
  <2>2. hostID' \in [Nodes -> URLs \cup {NoHost}]
    BY <1>6, <2>1 DEF SetNodeHost, StreamsTypeOK
  <2>3. QED
    BY <1>6, <2>2 DEF SetNodeHost, StreamsTypeOK, contextVars, streamVars
<1>7. CASE EndListening(c)
  BY <1>7 DEF EndListening, StreamsTypeOK, nodeVars, contextVars, streamVars
<1>8. ASSUME NEW list \in SUBSET Containers, ContainersChanged(c, list)
      PROVE  StreamsTypeOK'
  BY <1>8 DEF ContainersChanged, StreamsTypeOK, nodeVars, contextVars, streamVars
<1>9. CASE CompareLists(c)
  BY <1>9 DEF CompareLists, StreamsTypeOK, nodeVars, contextVars, streamVars
<1>10. CASE PurgeNodeHistory(c)
  <2>1. Node(c) \in Nodes
    BY <1>10, ActiveConnection DEF PurgeNodeHistory, At
  <2>2. QED
    BY <1>10, <2>1 DEF PurgeNodeHistory, StreamsTypeOK, contextVars, streamVars
<1>11. CASE CancelPurged(c)
  <2>1. ToCancel(c) \subseteq Contexts
    BY <1>11, ActiveConnection DEF CancelPurged, At, ToCancel
  <2>2. QED
    BY <1>11, <2>1 DEF CancelPurged, StreamsTypeOK, nodeVars, streamVars
<1>12. CASE CommitContainers(c)
  <2>1. connection[c].list \in SUBSET Containers
    BY <1>12, ActiveConnection DEF CommitContainers, At
  <2>2. names' \in [Nodes -> {NoList} \cup SUBSET Containers]
    BY <1>12, <2>1 DEF CommitContainers, StreamsTypeOK
  <2>3. stale' \subseteq Nodes
    BY <1>12 DEF CommitContainers, Freshened, StreamsTypeOK
  <2>4. QED
    BY <1>12, <2>2, <2>3 DEF CommitContainers, StreamsTypeOK, contextVars, streamVars
<1>13. CASE RenewContext(c)
  <2>1. created + 1 \in Contexts /\ created + 1 \in 0..MaxContexts
    BY <1>13, FreshContext DEF RenewContext
  <2>2. cancelled' \subseteq Contexts
    BY <1>13, <2>1 DEF RenewContext, StreamsTypeOK
  <2>3. nodeContext' \in [Nodes -> Contexts \cup {NoContext}]
    BY <1>13, <2>1 DEF RenewContext, StreamsTypeOK
  <2>4. created' \in 0..MaxContexts
    BY <1>13, <2>1 DEF RenewContext
  <2>5. QED
    BY <1>13, <2>2, <2>3, <2>4 DEF RenewContext, StreamsTypeOK, nodeVars, streamVars
<1>14. CASE StreamsDone(c)
  BY <1>14 DEF StreamsDone, StreamsTypeOK, nodeVars, contextVars, streamVars
<1>15. CASE RegisterStream(c)
  <2>1. Node(c) \in Nodes /\ connection[c].use \in Contexts /\ connection[c].next \subseteq Containers
    BY <1>15, ActiveConnection DEF RegisterStream, At, Underway, Fits
  <2>2. streams' \subseteq StreamKeys /\ tailer' \in [Tailers -> Tailer]
    <3>1. CASE UNCHANGED streamVars
      BY <3>1 DEF streamVars, StreamsTypeOK
    <3>2. ASSUME NEW k \in connection[c].next, NEW t \in Tailers,
                 StartTailer(t, <<Node(c), k>>, connection[c].use)
          PROVE  streams' \subseteq StreamKeys /\ tailer' \in [Tailers -> Tailer]
      <4>1. <<Node(c), k>> \in StreamKeys
        BY <2>1 DEF StreamKeys
      <4>2. [pc |-> "reading", key |-> <<Node(c), k>>, ctx |-> connection[c].use] \in Tailer
        BY <4>1, <2>1 DEF Tailer
      <4>3. QED
        BY <3>2, <4>1, <4>2 DEF StartTailer, StreamsTypeOK
    <3>3. QED
      BY <1>15, <3>1, <3>2 DEF RegisterStream
  <2>3. QED
    BY <1>15, <2>2 DEF RegisterStream, StreamsTypeOK, nodeVars, contextVars
<1>16. ASSUME NEW k \in Containers, CheckContext(c, k)
       PROVE  StreamsTypeOK'
  BY <1>16 DEF CheckContext, StreamsTypeOK, nodeVars, contextVars, streamVars
<1>17. QED
  BY <1>2, <1>3, <1>4, <1>5, <1>6, <1>7, <1>8, <1>9, <1>10, <1>11, <1>12, <1>13, <1>14, <1>15, <1>16
    DEF ConnectionStep

\* So do the user's operations
LEMMA UserTypeStep ==
  ASSUME StreamsTypeOK, UserStep
  PROVE  StreamsTypeOK'
<1>1. ASSUME NEW n \in Nodes, NEW a \in URLs, AddNode(n, a)
      PROVE  StreamsTypeOK'
  BY <1>1, ConnectType DEF AddNode, StreamsTypeOK, streamVars
<1>2. ASSUME NEW n \in Nodes, NEW a \in URLs, UpdateNodeURL(n, a)
      PROVE  StreamsTypeOK'
  <2>1. doomed' \subseteq Contexts
    BY <1>2 DEF UpdateNodeURL, Doom, StreamsTypeOK
  <2>2. QED
    BY <1>2, <2>1, ConnectType DEF UpdateNodeURL, StreamsTypeOK
<1>3. ASSUME NEW n \in Nodes, UnbindNode(n)
      PROVE  StreamsTypeOK'
  <2>1. doomed' \subseteq Contexts
    BY <1>3 DEF UnbindNode, Doom, StreamsTypeOK
  <2>2. QED
    BY <1>3, <2>1 DEF UnbindNode, StreamsTypeOK
<1>4. QED
  BY <1>1, <1>2, <1>3 DEF UserStep

\* and the stream goroutines.
LEMMA TailerTypeStep ==
  ASSUME StreamsTypeOK, NEW t \in Tailers, TailerStep(t)
  PROVE  StreamsTypeOK'
<1>1. CASE StopTailer(t)
  <2>1. [tailer[t] EXCEPT !.pc = "release"] \in Tailer
    BY <1>1 DEF StopTailer, StreamsTypeOK, Tailer, IdleTailer
  <2>2. tailer' \in [Tailers -> Tailer]
    BY <1>1, <2>1 DEF StopTailer, StreamsTypeOK
  <2>3. QED
    BY <1>1, <2>2 DEF StopTailer, StreamsTypeOK, nodeVars, contextVars
<1>2. CASE ReleaseContainerStream(t)
  BY <1>2 DEF ReleaseContainerStream, Released, StreamsTypeOK, Tailer, nodeVars, contextVars
<1>3. QED
  BY <1>1, <1>2 DEF TailerStep

\* Every step keeps the types.
LEMMA TypeStep ==
  ASSUME StreamsTypeOK, Underway, StreamsNext
  PROVE  StreamsTypeOK'
BY UserTypeStep, ConnectionTypeStep, TailerTypeStep DEF StreamsNext
-----------------------------------------------------------------------------
(***************************************************************************)
(* Where the goroutines are.                                               *)
(***************************************************************************)
\* One goroutine moves; the others are where they were.
LEMMA BecomeUnderway ==
  ASSUME StreamsTypeOK, Underway, NEW c \in Contexts,
         \A d \in Contexts \ {c} : connection'[d] = connection[d],
         created' \in Nat, created <= created', c <= created', Fits(c)'
  PROVE  Underway'
<1> SUFFICES ASSUME NEW d \in Contexts
             PROVE  Fits(d)' /\ (d > created' => connection'[d] = NoConnection)
  BY DEF Underway
<1>1. CASE d = c
  BY <1>1 DEF Contexts
<1>2. CASE d # c
  <2>1. connection'[d] = connection[d]
    BY <1>2
  <2>2. d > created' => d > created
    BY DEF StreamsTypeOK, Contexts
  <2>3. QED
    BY <2>1, <2>2 DEF At, Underway, Fits
<1>3. QED
  BY <1>1, <1>2

\* A goroutine that is somewhere runs in a context that was created.
LEMMA Created ==
  ASSUME StreamsTypeOK, Underway, NEW c \in Contexts, connection[c].pc # "none"
  PROVE  created \in Nat /\ c <= created
BY DEF StreamsTypeOK, Underway, Contexts, NoConnection

\* It is where Underway lets it be after each of its steps.
LEMMA ConnectionFits ==
  ASSUME StreamsTypeOK, Underway, NEW c \in Contexts, ConnectionStep(c), ~ CancelContext(c)
  PROVE  /\ connection[c].pc # "none"
         /\ \A d \in Contexts \ {c} : connection'[d] = connection[d]
         /\ Fits(c)'
<1> DEFINE Goal == /\ connection[c].pc # "none"
                   /\ \A d \in Contexts \ {c} : connection'[d] = connection[d]
                   /\ Fits(c)'
<1> SUFFICES Goal
  OBVIOUS
<1>2. CASE ReadNode(c)
  <2>1. connection[c] \in Running /\ Node(c) \in Nodes
    BY <1>2, ActiveConnection DEF ReadNode, At
  <2>2. Node(c) \in Bound => address[Node(c)] \in URLs
    BY <2>1 DEF Bound, StreamsTypeOK
  <2>3. QED
    BY <1>2, <2>1, <2>2 DEF Become, StreamsTypeOK, ReadNode, At, Fits, Running, NoConnection
<1>3. CASE FetchHost(c)
  BY <1>3, ActiveConnection DEF Become, StreamsTypeOK, FetchHost, Move, At, Underway, Fits, Running
<1>4. CASE FetchHostFails(c) \/ EndListening(c)
  BY <1>4 DEF Become, StreamsTypeOK, FetchHostFails, EndListening, At, Fits, NoConnection
<1>5. CASE SetNodeHost(c)
  BY <1>5, ActiveConnection DEF Become, StreamsTypeOK, SetNodeHost, Move, At, Underway, Fits, Running
<1>6. ASSUME NEW list \in SUBSET Containers, ContainersChanged(c, list)
      PROVE  Goal
  BY <1>6, ActiveConnection DEF Become, StreamsTypeOK, ContainersChanged, At, Underway, Fits, Running
<1>7. CASE CompareLists(c)
  BY <1>7, ActiveConnection, ZenonT(60) DEF Become, StreamsTypeOK, CompareLists, At, Underway, Fits, Running
<1>8. CASE PurgeNodeHistory(c)
  BY <1>8, ActiveConnection DEF Become, StreamsTypeOK, PurgeNodeHistory, At, Underway, Fits, Running
<1>9. CASE CancelPurged(c)
  BY <1>9, ActiveConnection DEF Become, StreamsTypeOK, CancelPurged, Move, At, Underway, Fits, Running
<1>10. CASE CommitContainers(c)
  BY <1>10, ActiveConnection DEF Become, StreamsTypeOK, CommitContainers, At, Underway, Fits, Running
<1>11. CASE RenewContext(c)
  <2>1. connection[c] \in Running /\ created + 1 \in Contexts /\ connection[c].own \in URLs
    BY <1>11, ActiveConnection, FreshContext DEF RenewContext, At, Underway, Fits
  <2>2. CASE c \in cancelled
    <3>1. Listen(c) /\ connection[c].pc # "none"
      BY <1>11, <2>2 DEF RenewContext, At
    <3>2. QED
      BY <2>1, <3>1 DEF Become, StreamsTypeOK, Listen, At, Fits, Running
  <2>3. CASE c \notin cancelled
    <3>1. PICK fresh \in Contexts : Become(c, [connection[c] EXCEPT !.pc = "check", !.use = fresh])
      BY <1>11, <2>1, <2>3 DEF RenewContext
    <3>2. connection[c].pc # "none"
      BY <1>11 DEF RenewContext, At
    <3>3. QED
      BY <2>1, <3>1, <3>2 DEF Become, StreamsTypeOK, At, Fits, Running
  <2>4. QED
    BY <2>2, <2>3
<1>12. CASE StreamsDone(c)
  BY <1>12, ActiveConnection DEF Become, StreamsTypeOK, StreamsDone, Listen, At, Underway, Fits, Running
<1>13. CASE RegisterStream(c)
  BY <1>13, ActiveConnection DEF Become, StreamsTypeOK, RegisterStream, At, Underway, Fits, Running
<1>14. ASSUME NEW k \in Containers, CheckContext(c, k)
       PROVE  Goal
  BY <1>14, ActiveConnection DEF Become, StreamsTypeOK, CheckContext, At, Underway, Fits, Running
<1>15. QED
  BY <1>2, <1>3, <1>4, <1>5, <1>6, <1>7, <1>8, <1>9, <1>10, <1>11, <1>12, <1>13, <1>14
    DEF ConnectionStep

\* A step of a connection leaves all of them where they may be.
LEMMA ConnectionUnderway ==
  ASSUME StreamsTypeOK, Underway, NEW c \in Contexts, ConnectionStep(c)
  PROVE  Underway'
<1>1. CASE CancelContext(c)
  BY <1>1 DEF CancelContext, Underway, Fits, At
<1>2. CASE ~ CancelContext(c)
  <2>1. created' = created \/ created' = created + 1
    BY <1>2 DEF ConnectionStep, ReadNode, FetchHost, FetchHostFails, SetNodeHost, EndListening,
      ContainersChanged, CompareLists, PurgeNodeHistory, CancelPurged, CommitContainers,
      RenewContext, StreamsDone, RegisterStream, CheckContext, contextVars
  <2>2. c <= created /\ created \in Nat
    BY <1>2, ConnectionFits, Created
  <2>3. created' \in Nat /\ created <= created' /\ c <= created'
    BY <2>1, <2>2 DEF Contexts
  <2>4. QED
    BY <1>2, <2>3, ConnectionFits, BecomeUnderway
<1>3. QED
  BY <1>1, <1>2

\* A connection starts in a context just created.
LEMMA ConnectUnderway ==
  ASSUME StreamsTypeOK, Underway, NEW n \in Nodes, Connect(n)
  PROVE  Underway'
<1>1. created + 1 \in Contexts /\ created' = created + 1 /\ created \in Nat
  BY FreshContext DEF Connect, StreamsTypeOK
<1>2. PICK fresh \in Contexts :
        fresh = created + 1 /\ Become(fresh, [NoConnection EXCEPT !.pc = "start", !.node = n])
  BY <1>1 DEF Connect
<1>3. Fits(fresh)' /\ \A d \in Contexts \ {fresh} : connection'[d] = connection[d]
  BY <1>2 DEF Become, StreamsTypeOK, NoConnection, Fits, At
<1>4. QED
  BY <1>1, <1>2, <1>3, BecomeUnderway

\* Every step leaves the connections where they may be.
LEMMA UnderwayStep ==
  ASSUME StreamsTypeOK, Underway, StreamsNext
  PROVE  Underway'
<1>1. CASE UserStep
  <2>1. ASSUME NEW n \in Nodes, NEW a \in URLs, AddNode(n, a) \/ UpdateNodeURL(n, a)
        PROVE  Underway'
    BY <2>1, ConnectUnderway DEF AddNode, UpdateNodeURL
  <2>2. ASSUME NEW n \in Nodes, UnbindNode(n)
        PROVE  Underway'
    BY <2>2 DEF UnbindNode, Underway, Fits, At
  <2>3. QED
    BY <1>1, <2>1, <2>2 DEF UserStep
<1>2. ASSUME NEW c \in Contexts, ConnectionStep(c)
      PROVE  Underway'
  BY <1>2, ConnectionUnderway
<1>3. ASSUME NEW t \in Tailers, TailerStep(t)
      PROVE  Underway'
  BY <1>3 DEF TailerStep, StopTailer, ReleaseContainerStream, contextVars, Underway, Fits, At
<1>4. QED
  BY <1>1, <1>2, <1>3 DEF StreamsNext
-----------------------------------------------------------------------------
(***************************************************************************)
(* Streams.                                                                *)
(***************************************************************************)
\* Steps that start and end no stream goroutine only drop registrations.
LEMMA TailersStay ==
  ASSUME StreamHasTailer, tailer' = tailer, streams' \subseteq streams
  PROVE  StreamHasTailer'
BY DEF StreamHasTailer

\* Every step leaves each registered stream its goroutine.
LEMMA StreamHasTailerStep ==
  ASSUME StreamsTypeOK, Underway, StreamHasTailer, StreamsNext
  PROVE  StreamHasTailer'
<1>1. CASE UserStep
  BY <1>1, TailersStay DEF UserStep, AddNode, UpdateNodeURL, UnbindNode, streamVars
<1>2. ASSUME NEW c \in Contexts, RegisterStream(c)
      PROVE  StreamHasTailer'
  <2>1. CASE UNCHANGED streamVars
    BY <2>1, TailersStay DEF streamVars
  <2>2. ASSUME NEW key \in StreamKeys, NEW t \in Tailers, NEW ctx, StartTailer(t, key, ctx)
        PROVE  StreamHasTailer'
    <3>1. tailer'[t] # IdleTailer /\ tailer'[t].key = key
      BY <2>2 DEF StartTailer, StreamsTypeOK, IdleTailer
    <3>2. \A u \in Tailers \ {t} : tailer'[u] = tailer[u]
      BY <2>2 DEF StartTailer, StreamsTypeOK
    <3>3. tailer[t] = IdleTailer /\ streams' = streams \cup {key}
      BY <2>2 DEF StartTailer
    <3>4. QED
      BY <3>1, <3>2, <3>3 DEF StreamHasTailer
  <2>3. \A k \in connection[c].next : <<Node(c), k>> \in StreamKeys
    BY <1>2, ActiveConnection DEF RegisterStream, At, StreamKeys
  <2>4. QED
    BY <1>2, <2>1, <2>2, <2>3 DEF RegisterStream
<1>3. ASSUME NEW c \in Contexts, ConnectionStep(c), ~ RegisterStream(c)
      PROVE  StreamHasTailer'
  <2>1. UNCHANGED streamVars
    BY <1>3 DEF ConnectionStep, CancelContext, ReadNode, FetchHost, FetchHostFails, SetNodeHost,
      EndListening, ContainersChanged, CompareLists, PurgeNodeHistory, CancelPurged,
      CommitContainers, RenewContext, StreamsDone, CheckContext
  <2>2. QED
    BY <2>1, TailersStay DEF streamVars
<1>4. ASSUME NEW t \in Tailers, StopTailer(t)
      PROVE  StreamHasTailer'
  <2>1. \A u \in Tailers \ {t} : tailer'[u] = tailer[u]
    BY <1>4 DEF StopTailer, StreamsTypeOK
  <2>2. tailer'[t] # IdleTailer /\ tailer'[t].key = tailer[t].key
    BY <1>4 DEF StopTailer, StreamsTypeOK, Tailer, IdleTailer
  <2>3. QED
    BY <1>4, <2>1, <2>2 DEF StopTailer, StreamHasTailer
<1>5. ASSUME NEW t \in Tailers, ReleaseContainerStream(t)
      PROVE  StreamHasTailer'
  <2>1. \A u \in Tailers \ {t} : tailer'[u] = tailer[u]
    BY <1>5 DEF ReleaseContainerStream, StreamsTypeOK
  <2>2. streams' = streams \ {tailer[t].key}
    BY <1>5 DEF ReleaseContainerStream, Released
  <2>3. QED
    BY <2>1, <2>2 DEF StreamHasTailer
<1>6. QED
  BY <1>1, <1>2, <1>3, <1>4, <1>5 DEF StreamsNext, TailerStep
-----------------------------------------------------------------------------
(***************************************************************************)
(* Stale nodes.                                                            *)
(***************************************************************************)
\* A node remains accounted for as long as every handler that processes a
\* changed list still does.
LEMMA HandlersStay ==
  ASSUME StaleIsTransient, stale' \subseteq stale,
         \A d \in Contexts : Processing(d) /\ Node(d) \in stale'
                            => Processing(d)' /\ Node(d)' = Node(d)
  PROVE  StaleIsTransient'
BY DEF StaleIsTransient

\* A step of a goroutine that was processing nothing leaves them all alone.
LEMMA OtherHandlersStay ==
  ASSUME StreamsTypeOK, StaleIsTransient, NEW c \in Contexts, ~ Processing(c), stale' = stale,
         \A d \in Contexts \ {c} : connection'[d] = connection[d]
  PROVE  StaleIsTransient'
BY HandlersStay DEF Processing, Node

\* Every step leaves each stale node the handler that will commit its list.
LEMMA StaleIsTransientStep ==
  ASSUME StreamsTypeOK, Underway, StaleIsTransient, StreamsNext
  PROVE  StaleIsTransient'
<1>1. ASSUME NEW n \in Nodes, NEW a \in URLs, AddNode(n, a) \/ UpdateNodeURL(n, a)
      PROVE  StaleIsTransient'
  <2>1. PICK fresh \in Contexts :
          fresh = created + 1 /\ Become(fresh, [NoConnection EXCEPT !.pc = "start", !.node = n])
    BY <1>1, FreshContext DEF AddNode, UpdateNodeURL, Connect
  <2>2. \A d \in Contexts \ {fresh} : connection'[d] = connection[d]
    BY <2>1 DEF Become, StreamsTypeOK
  <2>3. ~ Processing(fresh)
    BY <2>1 DEF Underway, Processing, NoConnection, StreamsTypeOK
  <2>4. QED
    BY <1>1, <2>2, <2>3, OtherHandlersStay DEF AddNode, UpdateNodeURL
<1>2. ASSUME NEW n \in Nodes, UnbindNode(n)
      PROVE  StaleIsTransient'
  BY <1>2, HandlersStay DEF UnbindNode, Processing, Node
<1>3. ASSUME NEW t \in Tailers, TailerStep(t)
      PROVE  StaleIsTransient'
  BY <1>3, HandlersStay DEF TailerStep, StopTailer, ReleaseContainerStream, nodeVars, Processing, Node
<1>4. ASSUME NEW c \in Contexts, CancelContext(c)
      PROVE  StaleIsTransient'
  BY <1>4, HandlersStay DEF CancelContext, nodeVars, Processing, Node
<1>5. ASSUME NEW c \in Contexts, PurgeNodeHistory(c)
      PROVE  StaleIsTransient'
  <2>1. connection[c] \in Running /\ connection[c].changed
    BY <1>5, ActiveConnection DEF PurgeNodeHistory, At, Underway, Fits
  <2>2. Processing(c)' /\ Node(c)' = Node(c)
    BY <1>5, <2>1 DEF PurgeNodeHistory, Become, StreamsTypeOK, Processing, Node, Running
  <2>3. \A d \in Contexts \ {c} : connection'[d] = connection[d]
    BY <1>5 DEF PurgeNodeHistory, Become, StreamsTypeOK
  <2>4. ~ Processing(c) /\ stale' = stale \cup {Node(c)}
    BY <1>5 DEF PurgeNodeHistory, At, Processing
  <2>5. QED
    BY <2>2, <2>3, <2>4 DEF StaleIsTransient, Processing, Node
<1>6. ASSUME NEW c \in Contexts, CancelPurged(c)
      PROVE  StaleIsTransient'
  <2>1. connection[c] \in Running /\ connection[c].changed
    BY <1>6, ActiveConnection DEF CancelPurged, At, Underway, Fits
  <2>2. Processing(c)' /\ Node(c)' = Node(c)
    BY <1>6, <2>1 DEF CancelPurged, Move, Become, StreamsTypeOK, Processing, Node, Running
  <2>3. \A d \in Contexts \ {c} : connection'[d] = connection[d]
    BY <1>6 DEF CancelPurged, Move, Become, StreamsTypeOK
  <2>4. QED
    BY <1>6, <2>2, <2>3, HandlersStay DEF CancelPurged, nodeVars, Processing, Node
<1>7. ASSUME NEW c \in Contexts, CommitContainers(c)
      PROVE  StaleIsTransient'
  <2>1. \A d \in Contexts \ {c} : connection'[d] = connection[d]
    BY <1>7 DEF CommitContainers, Become, StreamsTypeOK
  <2>2. stale' \subseteq stale /\ (Processing(c) => Node(c) \notin stale')
    BY <1>7 DEF CommitContainers, Freshened, Processing
  <2>3. QED
    BY <2>1, <2>2, HandlersStay DEF Processing, Node
<1>8. ASSUME NEW c \in Contexts, ConnectionStep(c), ~ CancelContext(c),
             ~ PurgeNodeHistory(c), ~ CancelPurged(c), ~ CommitContainers(c)
      PROVE  StaleIsTransient'
  <2>1. stale' = stale /\ ~ Processing(c)
    BY <1>8 DEF ConnectionStep, ReadNode, FetchHost, FetchHostFails, SetNodeHost, EndListening,
      ContainersChanged, CompareLists, RenewContext, StreamsDone, RegisterStream, CheckContext,
      nodeVars, At, Processing
  <2>2. QED
    BY <1>8, <2>1, ConnectionFits, OtherHandlersStay
<1>9. QED
  BY <1>1, <1>2, <1>3, <1>4, <1>5, <1>6, <1>7, <1>8 DEF StreamsNext, UserStep
-----------------------------------------------------------------------------
(***************************************************************************)
(* The theorems.                                                           *)
(***************************************************************************)
LEMMA RegistrationInit ==
  ASSUME StreamsInit
  PROVE  Registration
<1>1. StreamsTypeOK
  BY DEF StreamsInit, StreamsTypeOK, Connection, Tailer, NoContext
<1>2. Underway
  BY DEF StreamsInit, Underway, Fits, At, NoConnection
<1>3. StreamHasTailer /\ StaleIsTransient
  BY DEF StreamsInit, StreamHasTailer, StaleIsTransient
<1>4. QED
  BY <1>1, <1>2, <1>3 DEF Registration

\* Every step keeps the invariant.
LEMMA RegistrationStep ==
  ASSUME Registration, [StreamsNext]_streamsVars
  PROVE  Registration'
<1>1. CASE StreamsNext
  BY <1>1, TypeStep, UnderwayStep, StreamHasTailerStep, StaleIsTransientStep DEF Registration
<1>2. CASE UNCHANGED streamsVars
  <2>1. StreamsTypeOK'
    BY <1>2 DEF Registration, StreamsTypeOK, streamsVars, nodeVars, contextVars, streamVars
  <2>2. Underway' /\ StreamHasTailer' /\ StaleIsTransient'
    BY <1>2 DEF Registration, Underway, Fits, At, StreamHasTailer, StaleIsTransient, Processing, Node,
      streamsVars, nodeVars, contextVars, streamVars
  <2>3. QED
    BY <2>1, <2>2 DEF Registration
<1>3. QED
  BY <1>1, <1>2

\* Registration holds throughout.
THEOREM RegistrationInvariant == StreamsSpec => []Registration
<1>1. StreamsInit => Registration
  BY RegistrationInit
<1>2. Registration /\ [StreamsNext]_streamsVars => Registration'
  BY RegistrationStep
<1>3. QED
  BY <1>1, <1>2, PTL DEF StreamsSpec

\* Every variable keeps its type.
THEOREM StreamsTypeCorrect == StreamsSpec => []StreamsTypeOK
<1>1. Registration => StreamsTypeOK
  BY DEF Registration
<1>2. QED
  BY <1>1, RegistrationInvariant, PTL

\* A registered stream always has a goroutine that will release it, so no
\* container is shut out of being streamed again (startContainerStreams).
THEOREM StreamHasTailerAlways == StreamsSpec => []StreamHasTailer
<1>1. Registration => StreamHasTailer
  BY DEF Registration
<1>2. QED
  BY <1>1, RegistrationInvariant, PTL

\* A node is only ever stale while a handler of updateNodeContainers is on its
\* way to commit the new list.
THEOREM StaleIsTransientAlways == StreamsSpec => []StaleIsTransient
<1>1. Registration => StaleIsTransient
  BY DEF Registration
<1>2. QED
  BY <1>1, RegistrationInvariant, PTL

\* Stale nodes have their handler and registered streams their goroutine
\* (updateNodeContainers, startContainerStreams).
THEOREM StreamsAreSoundAlways == StreamsSpec => []StreamsAreSound
<1>1. Registration => StreamsAreSound
  BY DEF Registration, StreamsAreSound
<1>2. QED
  BY <1>1, RegistrationInvariant, PTL
=============================================================================
