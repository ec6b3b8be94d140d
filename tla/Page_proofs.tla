----------------------------- MODULE Page_proofs -----------------------------
(***************************************************************************)
(* Proofs about the log page: its AI assistant (Assistant, Providers), its *)
(* scope and searches (LogScope) and its record feed (LogFeed), each for   *)
(* every value of its constants.                                           *)
(***************************************************************************)
EXTENDS Providers, LogScope, LogFeed, ListLemmas

(***************************************************************************)
(* The chats.                                                              *)
(***************************************************************************)
\* A list of chats: not too many, none twice, each with the messages it may keep.
DistinctIds(list) == \A i, j \in DOMAIN list : list[i].id = list[j].id => i = j
ChatsOf(list) ==
  /\ list \in Seq(Session) /\ DistinctIds(list)
  /\ \A i \in DOMAIN list : Len(list[i].messages) <= MaxMessages
ChatList(list) == ChatsOf(list) /\ Len(list) <= MaxSessions

\* What the bounds are: positive numbers.
LEMMA ChatBounds ==
  /\ MaxSessions \in Nat \ {0} /\ MaxMessages \in Nat \ {0} /\ MaxAttachments \in Nat \ {0}
  /\ MaxQuestions \in Nat \ {0}
  BY BoundsAssumption

\* The identifiers of a list are those of its chats.
LEMMA IdsOfList ==
  ASSUME NEW list
  PROVE  Ids(list) = {list[i].id : i \in DOMAIN list}
  BY DEF Ids, ToSet

\* The least of two numbers.
LEMMA MinOfTwo ==
  ASSUME NEW a \in Nat, NEW b \in Nat
  PROVE  Min({a, b}) \in {a, b} /\ Min({a, b}) <= a /\ Min({a, b}) <= b
<1>1. {a, b} \subseteq Nat /\ {a, b} # {}
  OBVIOUS
<1>2. QED
  BY <1>1, MinIsLeast

\* The first elements of a list, at most some number of them.
LEMMA ForemostElements ==
  ASSUME NEW S, NEW q \in Seq(S), NEW n \in Nat \ {0}
  PROVE  /\ Foremost(q, n) \in Seq(S) /\ Len(Foremost(q, n)) <= n
         /\ Len(Foremost(q, n)) <= Len(q) /\ (Len(q) > 0 => Len(Foremost(q, n)) > 0)
         /\ \A i \in 1..Len(Foremost(q, n)) : i \in 1..Len(q) /\ Foremost(q, n)[i] = q[i]
<1> DEFINE c == Min({n, Len(q)})
<1>1. Len(q) \in Nat
  OBVIOUS
<1>2. c \in {n, Len(q)} /\ c <= n /\ c <= Len(q)
  BY <1>1, MinOfTwo
<1> HIDE DEF c
<1>3. c \in 0..Len(q) /\ (Len(q) > 0 => c > 0)
  BY <1>1, <1>2
<1>4. /\ SubSeq(q, 1, c) \in Seq(S) /\ Len(SubSeq(q, 1, c)) = c
      /\ \A i \in 1..c : SubSeq(q, 1, c)[i] = q[i]
  BY <1>3, FirstElements
<1>5. Foremost(q, n) = SubSeq(q, 1, c)
  BY DEF Foremost, c
<1>6. \A i \in 1..c : i \in 1..Len(q)
  BY <1>1, <1>3
<1>7. QED
  BY <1>2, <1>3, <1>4, <1>5, <1>6

\* The last elements of a list, at most some number of them; a short list as it is.
LEMMA RecentElements ==
  ASSUME NEW S, NEW q \in Seq(S), NEW n \in Nat \ {0}
  PROVE  /\ Recent(q, n) \in Seq(S) /\ Len(Recent(q, n)) <= n
         /\ ToSet(Recent(q, n)) \subseteq ToSet(q)
         /\ Len(q) <= n => Recent(q, n) = q
<1> DEFINE from == Max({1, Len(q) - n + 1})
           r == SubSeq(q, from, Len(q))
<1>1. Len(q) \in Nat /\ Len(q) - n + 1 \in Int /\ DOMAIN q = 1..Len(q)
  OBVIOUS
<1>2. from \in {1, Len(q) - n + 1} /\ from >= 1 /\ from >= Len(q) - n + 1
  <2>1. \A x \in Int : \E y \in {1, x} : \A z \in {1, x} : y >= z
    OBVIOUS
  <2>2. \A x \in Int : Max({1, x}) \in {1, x} /\ \A z \in {1, x} : Max({1, x}) >= z
    BY <2>1 DEF Max
  <2>3. QED
    BY <1>1, <2>2
<1> HIDE DEF from
<1>3. from \in Int /\ from >= 1 /\ Len(q) \in Int
  BY <1>1, <1>2
<1>4. \A i \in from..Len(q) : q[i] \in S
  BY <1>1, <1>3
<1>5. /\ r \in Seq(S)
      /\ Len(r) = IF from <= Len(q) THEN Len(q) - from + 1 ELSE 0
      /\ \A i \in 1..(Len(q) - from + 1) : r[i] = q[from + i - 1]
  BY <1>3, <1>4, SubSeqProperties
<1>6. Recent(q, n) = r
  BY DEF Recent, from
<1> HIDE DEF r
<1>7. Len(r) <= n
  BY <1>1, <1>2, <1>3, <1>5
<1>8. ASSUME NEW x \in ToSet(r) PROVE x \in ToSet(q)
  <2>1. PICK i \in 1..Len(r) : x = r[i]
    BY <1>5 DEF ToSet
  <2>2. i \in 1..(Len(q) - from + 1) /\ from + i - 1 \in 1..Len(q)
    BY <1>1, <1>3, <1>5
  <2>3. x = q[from + i - 1]
    BY <1>5, <2>1, <2>2
  <2>4. QED
    BY <1>1, <2>2, <2>3 DEF ToSet
<1>9. ASSUME Len(q) <= n PROVE r = q
  <2>1. from = 1
    BY <1>1, <1>2, <1>9
  <2>2. Len(r) = Len(q)
    BY <1>1, <1>5, <2>1
  <2>3. \A i \in 1..Len(q) : r[i] = q[i]
    <3>1. \A i \in 1..Len(q) : i \in 1..(Len(q) - 1 + 1) /\ 1 + i - 1 = i
      BY <1>1
    <3>2. QED
      BY <1>5, <2>1, <3>1
  <2>4. r \in Seq(S) /\ q \in Seq(S)
    BY <1>5
  <2>5. QED
    BY <2>2, <2>3, <2>4, SeqEqual
<1>10. QED
  BY <1>5, <1>6, <1>7, <1>8, <1>9

\* The chats of a list without one.
LEMMA OtherChats ==
  ASSUME NEW list, ChatList(list), NEW id
  PROVE  /\ ChatList(Others(list, id))
         /\ ToSet(Others(list, id)) = {s \in ToSet(list) : s.id # id}
<1> DEFINE kept == {i \in DOMAIN list : list[i].id # id}
           p == Picked(list, kept)
<1>1. /\ list \in Seq(Session) /\ DOMAIN list = 1..Len(list) /\ Len(list) \in Nat
      /\ DistinctIds(list) /\ Len(list) <= MaxSessions
      /\ \A i \in DOMAIN list : Len(list[i].messages) <= MaxMessages
  BY DEF ChatList, ChatsOf
<1>2. kept \in SUBSET (1..Len(list)) /\ \A i \in kept : i \in DOMAIN list /\ list[i].id # id
  BY <1>1
<1>3. Others(list, id) = p /\ \A i \in DOMAIN list : list[i].id # id => i \in kept
  BY DEF Others
<1> HIDE DEF kept
<1>4. p \in Seq(Session)
  BY <1>1, <1>2, PickedElements
<1>5. PICK m \in 0..Len(list) : \E nth \in [1..m -> kept] : PickedAt(list, kept, nth, m)
  BY <1>1, <1>2, PickedElements
<1>6. PICK nth \in [1..m -> kept] : PickedAt(list, kept, nth, m)
  BY <1>5
<1>7. /\ Len(p) = m
      /\ \A j \in 1..m : p[j] = list[nth[j]] /\ nth[j] \in kept
      /\ \A i, j \in 1..m : i < j => nth[i] < nth[j]
      /\ \A i \in kept : \E j \in 1..m : nth[j] = i
  BY <1>6 DEF PickedAt
<1> HIDE DEF p
<1>8. DOMAIN p = 1..m
  BY <1>4, <1>7
<1>9. \A j \in 1..m : nth[j] \in DOMAIN list /\ nth[j] \in Nat
  <2>1. \A i \in kept : i \in DOMAIN list /\ i \in Nat
    BY <1>1, <1>2
  <2>2. QED
    BY <1>7, <2>1
<1>10. ASSUME NEW i \in 1..m, NEW j \in 1..m, p[i].id = p[j].id PROVE i = j
  <2>1. list[nth[i]].id = list[nth[j]].id
    BY <1>7, <1>10
  <2>2. nth[i] = nth[j]
    BY <1>1, <1>9, <2>1 DEF DistinctIds
  <2>3. ~ (i < j) /\ ~ (j < i)
    BY <1>7, <1>9, <2>2
  <2>4. QED
    BY <2>3
<1>11. DistinctIds(p)
  BY <1>8, <1>10 DEF DistinctIds
<1>12. \A j \in DOMAIN p : Len(p[j].messages) <= MaxMessages
  BY <1>1, <1>7, <1>8, <1>9
<1>13. Len(p) <= MaxSessions
  BY <1>1, <1>7, ChatBounds
<1>14. ASSUME NEW x \in ToSet(p) PROVE x \in ToSet(list) /\ x.id # id
  <2>1. PICK j \in 1..m : x = p[j]
    BY <1>8 DEF ToSet
  <2>2. x = list[nth[j]] /\ nth[j] \in kept
    BY <1>7, <2>1
  <2>3. QED
    BY <1>2, <2>2 DEF ToSet
<1>15. ASSUME NEW x \in ToSet(list), x.id # id PROVE x \in ToSet(p)
  <2>1. PICK i \in DOMAIN list : x = list[i]
    BY DEF ToSet
  <2>2. PICK j \in 1..m : nth[j] = i
    BY <1>3, <1>7, <1>15, <2>1
  <2>3. x = p[j]
    BY <1>7, <2>1, <2>2
  <2>4. QED
    BY <1>8, <2>3 DEF ToSet
<1>16. QED
  BY <1>3, <1>4, <1>11, <1>12, <1>13, <1>14, <1>15 DEF ChatList, ChatsOf

\* A chat of its own in front of a list, which is cut at its limit.
LEMMA FrontedChats ==
  ASSUME NEW list, ChatList(list), NEW s \in Session, s.id \notin Ids(list),
         Len(s.messages) <= MaxMessages
  PROVE  /\ ChatList(Foremost(<<s>> \o list, MaxSessions))
         /\ s \in ToSet(Foremost(<<s>> \o list, MaxSessions))
         /\ ToSet(Foremost(<<s>> \o list, MaxSessions)) \subseteq {s} \cup ToSet(list)
<1> DEFINE all == <<s>> \o list
           p == Foremost(all, MaxSessions)
<1>1. /\ list \in Seq(Session) /\ DOMAIN list = 1..Len(list) /\ Len(list) \in Nat
      /\ DistinctIds(list)
      /\ \A i \in DOMAIN list : Len(list[i].messages) <= MaxMessages
  BY DEF ChatList, ChatsOf
<1>2. <<s>> \in Seq(Session) /\ Len(<<s>>) = 1 /\ <<s>>[1] = s
  OBVIOUS
<1>3. /\ all \in Seq(Session) /\ Len(all) = 1 + Len(list)
      /\ \A i \in 1..(1 + Len(list)) : all[i] = IF i <= 1 THEN <<s>>[i] ELSE list[i - 1]
  BY <1>1, <1>2, ConcatProperties
<1> HIDE DEF all
<1>4. all[1] = s /\ \A i \in 2..Len(all) : all[i] = list[i - 1] /\ i - 1 \in DOMAIN list
  BY <1>1, <1>2, <1>3
<1>5. /\ p \in Seq(Session) /\ Len(p) <= MaxSessions /\ Len(p) > 0
      /\ \A i \in 1..Len(p) : i \in 1..Len(all) /\ p[i] = all[i]
  <2>1. Len(all) > 0
    BY <1>1, <1>3
  <2>2. QED
    BY <1>3, <2>1, ChatBounds, ForemostElements
<1> HIDE DEF p
<1>6. Len(p) \in Nat /\ DOMAIN p = 1..Len(p)
  BY <1>5
<1> DEFINE At(i) == (i = 1 /\ p[i] = s) \/ (i > 1 /\ i - 1 \in DOMAIN list /\ p[i] = list[i - 1])
<1>7. \A i \in DOMAIN p : At(i)
  <2> SUFFICES ASSUME NEW i \in 1..Len(p)
               PROVE  At(i)
    BY <1>6
  <2>1. i \in 1..Len(all) /\ p[i] = all[i]
    BY <1>5
  <2>2. i = 1 \/ i \in 2..Len(all)
    BY <1>1, <1>3, <2>1
  <2>3. \A j \in 2..Len(all) : j > 1
    BY <1>1, <1>3
  <2>4. QED
    BY <1>4, <2>1, <2>2, <2>3
<1>8. \A i \in DOMAIN list : list[i].id # s.id
  BY IdsOfList
<1>9. DistinctIds(p)
  <2> SUFFICES ASSUME NEW i \in DOMAIN p, NEW j \in DOMAIN p, p[i].id = p[j].id PROVE i = j
    BY DEF DistinctIds
  <2>1. CASE i = 1 \/ j = 1
    BY <1>7, <1>8, <2>1
  <2>2. CASE i > 1 /\ j > 1
    <3>1. i - 1 = j - 1
      BY <1>1, <1>7, <2>2 DEF DistinctIds
    <3>2. i \in Nat /\ j \in Nat
      BY <1>6
    <3>3. QED
      BY <3>1, <3>2
  <2>3. QED
    BY <1>7, <2>1, <2>2
<1>10. \A i \in DOMAIN p : Len(p[i].messages) <= MaxMessages
  BY <1>1, <1>7
<1>11. 1 \in DOMAIN p /\ p[1] = s
  BY <1>4, <1>5, <1>6
<1>12. ASSUME NEW x \in ToSet(p) PROVE x \in {s} \cup ToSet(list)
  <2>1. PICK i \in DOMAIN p : x = p[i]
    BY DEF ToSet
  <2>2. QED
    BY <1>7, <2>1 DEF ToSet
<1>13. QED
  BY <1>5, <1>9, <1>10, <1>11, <1>12 DEF ChatList, ChatsOf, ToSet, p, all

\* A list has a chat with just these messages.
SaidIn(list, id, said) == \E s \in ToSet(list) : s.id = id /\ s.messages = said

\* The chat that is shown, written back into its list: in front, with what was said.
LEMMA SyncedChats ==
  ASSUME NEW list, ChatList(list), NEW id \in Chats, NEW seen, seen \subseteq Logs,
         NEW said \in Seq(Message), Len(said) <= MaxMessages, id \in Ids(list)
  PROVE  /\ ChatList(Synced(list, id, seen, said))
         /\ Ids(Synced(list, id, seen, said)) \subseteq Ids(list)
         /\ SaidIn(Synced(list, id, seen, said), id, said)
<1> DEFINE s == [id |-> id, context |-> seen, messages |-> Recent(said, MaxMessages)]
           rest == Others(list, id)
           all == Foremost(<<s>> \o rest, MaxSessions)
<1>1. Recent(said, MaxMessages) = said
  BY RecentElements, ChatBounds
<1>2. s \in Session /\ s.id = id /\ s.messages = said
  BY <1>1 DEF Session
<1>3. Synced(list, id, seen, said) = all
  BY DEF Synced
<1> HIDE DEF s
<1>4. ChatList(rest) /\ ToSet(rest) = {x \in ToSet(list) : x.id # id}
  BY OtherChats
<1> HIDE DEF rest
<1>5. s.id \notin Ids(rest)
  BY <1>2, <1>4 DEF Ids
<1>6. ChatList(all) /\ s \in ToSet(all) /\ ToSet(all) \subseteq {s} \cup ToSet(rest)
  BY <1>2, <1>4, <1>5, FrontedChats
<1> HIDE DEF all
<1>7. Ids(all) \subseteq Ids(list)
  <2>1. \A x \in ToSet(all) : x.id \in Ids(list)
    BY <1>2, <1>4, <1>6 DEF Ids
  <2>2. QED
    BY <2>1 DEF Ids
<1>8. SaidIn(all, id, said)
  BY <1>2, <1>6 DEF SaidIn
<1>9. QED
  BY <1>3, <1>6, <1>7, <1>8

\* Whatever is shown, what syncing leaves is a list of chats of the same identifiers.
LEMMA SyncedIsList ==
  ASSUME NEW list, ChatList(list), NEW id \in Chats \cup {NoChat}, NEW seen, seen \subseteq Logs,
         NEW said \in Seq(Message), Len(said) <= MaxMessages
  PROVE  /\ ChatList(Synced(list, id, seen, said))
         /\ Ids(Synced(list, id, seen, said)) \subseteq Ids(list)
<1>1. CASE id \in Ids(list)
  <2>1. Ids(list) \subseteq Chats
    <3>1. ToSet(list) \subseteq Session
      BY DEF ChatList, ChatsOf, ToSet
    <3>2. QED
      BY <3>1 DEF Ids, Session
  <2>2. QED
    BY <1>1, <2>1, SyncedChats
<1>2. CASE id \notin Ids(list)
  BY <1>2 DEF Synced
<1>3. QED
  BY <1>1, <1>2

\* There is always an identifier that is free: a list is full before all are taken.
LEMMA NewChatIsNew ==
  ASSUME ChatList(sessions)
  PROVE  NewChat \in Chats /\ NewChat \notin Ids(sessions) /\ NewChat # NoChat
<1> DEFINE n == Len(sessions)
           ids == [i \in 1..n |-> sessions[i].id]
           left == Chats \ Ids(sessions)
<1>1. n \in Nat /\ n <= MaxSessions /\ DOMAIN sessions = 1..n
  BY DEF ChatList, ChatsOf
<1>2. Ids(sessions) = {ids[i] : i \in 1..n}
  BY <1>1, IdsOfList
<1>3. left # {}
  <2> SUFFICES ASSUME left = {} PROVE FALSE
    OBVIOUS
  <2> HIDE DEF n, ids
  <2>1. \A id \in Chats : \E i \in 1..n : ids[i] = id
    BY <1>2
  <2> DEFINE place == [id \in Chats |-> CHOOSE i \in 1..n : ids[i] = id]
  <2>2. \A id \in Chats : place[id] \in 1..n /\ ids[place[id]] = id
    BY <2>1
  <2>3. place \in [Chats -> 1..n]
    BY <2>2
  <2> HIDE DEF place
  <2>4. \A id, other \in Chats : place[id] = place[other] => id = other
    BY <2>2
  <2>5. IsFiniteSet(Chats) /\ Cardinality(Chats) = MaxSessions + 1
    <3>1. MaxSessions + 1 \in Int /\ MaxSessions + 1 - 1 + 1 = MaxSessions + 1 /\ ~ (1 > MaxSessions + 1)
      BY ChatBounds
    <3>2. QED
      BY <3>1, FS_Interval DEF Chats
  <2>6. PICK places : places = 1..n
    OBVIOUS
  <2>7. IsFiniteSet(places) /\ Cardinality(places) = n
    <3>1. n \in Int /\ n - 1 + 1 = n /\ (1 > n => n = 0)
      BY <1>1
    <3>2. QED
      BY <2>6, <3>1, FS_Interval
  <2>8. Cardinality(places) < Cardinality(Chats)
    BY <1>1, <2>5, <2>7, ChatBounds
  <2>9. place \in [Chats -> places]
    BY <2>3, <2>6
  <2>10. \E id, other \in Chats : id # other /\ place[id] = place[other]
    BY <2>5, <2>7, <2>8, <2>9, FS_PigeonHole
  <2>11. QED
    BY <2>4, <2>10
<1>4. left \subseteq Nat
  BY ChatBounds DEF Chats
<1>5. Min(left) \in left
  BY <1>3, <1>4, MinIsLeast
<1>6. NewChat = Min(left)
  BY DEF NewChat
<1>7. NoChat \notin Chats
  BY ChatBounds DEF Chats, NoChat
<1>8. QED
  BY <1>5, <1>6, <1>7

\* A new chat is in front of the list it starts.
LEMMA StartedChats ==
  ASSUME ChatList(sessions), active \in Chats \cup {NoChat}, context \subseteq Logs,
         messages \in Seq(Message), Len(messages) <= MaxMessages, NEW seen, seen \subseteq Logs
  PROVE  ChatList(Started(NewChat, seen)) /\ NewChat \in Ids(Started(NewChat, seen))
<1> DEFINE s == [id |-> NewChat, context |-> seen, messages |-> <<>>]
           rest == Synced(sessions, active, context, messages)
           all == Foremost(<<s>> \o rest, MaxSessions)
<1>1. NewChat \in Chats /\ NewChat \notin Ids(sessions)
  BY NewChatIsNew
<1>2. s \in Session /\ s.id = NewChat /\ Len(s.messages) = 0
  <2>1. <<>> \in Seq(Message) /\ Len(<<>>) = 0
    OBVIOUS
  <2>2. QED
    BY <1>1, <2>1 DEF Session
<1>3. Started(NewChat, seen) = all
  BY DEF Started
<1> HIDE DEF s
<1>4. ChatList(rest) /\ Ids(rest) \subseteq Ids(sessions)
  BY SyncedIsList
<1> HIDE DEF rest
<1>5. ChatList(all) /\ s \in ToSet(all)
  BY <1>1, <1>2, <1>4, ChatBounds, FrontedChats
<1>6. QED
  BY <1>2, <1>3, <1>5 DEF Ids

\* The chat of an identifier of the list is the one of that identifier.
LEMMA SessionFound ==
  ASSUME NEW list, ChatList(list), NEW id \in Ids(list)
  PROVE  /\ SessionOf(list, id) \in ToSet(list) /\ SessionOf(list, id).id = id
         /\ SessionOf(list, id) \in Session /\ Len(SessionOf(list, id).messages) <= MaxMessages
<1> DEFINE foundAt == {i \in DOMAIN list : list[i].id = id}
<1>1. /\ list \in Seq(Session) /\ DOMAIN list = 1..Len(list)
      /\ \A i \in DOMAIN list : Len(list[i].messages) <= MaxMessages
  BY DEF ChatList, ChatsOf
<1>2. foundAt \subseteq Nat /\ foundAt # {}
  BY <1>1, IdsOfList
<1>3. Min(foundAt) \in foundAt
  BY <1>2, MinIsLeast
<1>4. SessionOf(list, id) = list[Min(foundAt)]
  BY DEF SessionOf
<1>5. Min(foundAt) \in DOMAIN list /\ list[Min(foundAt)].id = id
  BY <1>3
<1> HIDE DEF foundAt
<1>6. list[Min(foundAt)] \in Session /\ list[Min(foundAt)] \in ToSet(list)
  BY <1>1, <1>5 DEF ToSet
<1>7. QED
  BY <1>1, <1>4, <1>5, <1>6

\* The first of the chats.
LEMMA FirstChat ==
  ASSUME NEW list, ChatList(list), list # <<>>
  PROVE  /\ list[1] \in ToSet(list) /\ list[1] \in Session
         /\ Len(list[1].messages) <= MaxMessages
<1>1. list \in Seq(Session) /\ \A i \in DOMAIN list : Len(list[i].messages) <= MaxMessages
  BY DEF ChatList, ChatsOf
<1>2. 1 \in DOMAIN list
  BY <1>1
<1>3. QED
  BY <1>1, <1>2 DEF ToSet

\* The chats: a list of them, stored as it is; the one shown is of the list, and the
\* questions shown in it are stored with it.
ChatsKept ==
  /\ ChatList(sessions) /\ stored = sessions
  /\ active \in Chats \cup {NoChat} /\ context \subseteq Logs
  /\ messages \in Seq(Message) /\ Len(messages) <= MaxMessages
  /\ QuestionsSurviveReload

\* The requests: at most one could still be answered aloud, and it is the one the
\* page waits for.
AsksKept ==
  /\ busy \in BOOLEAN /\ asked \in 0..MaxQuestions /\ current \in 0..MaxQuestions
  /\ runs \in [Questions -> {"none", "asked", "reading", "cut", "over"}]
  /\ BusyIsWaiting
  /\ \A q \in Questions : runs[q] \in {"asked", "reading"} => q = current

\* The files: those given, and those being read.
FilesKept ==
  /\ attachments \in Seq(Sizes) /\ Len(attachments) <= MaxAttachments
  /\ readings \in [Readings -> Seq(Sizes)]

ChatKept == ChatsKept /\ AsksKept /\ FilesKept

\* What is said joins what is shown, of which the oldest may go.
LEMMA Spoken ==
  ASSUME NEW said \in Seq(Message), NEW m \in Message
  PROVE  /\ Recent(Append(said, m), MaxMessages) \in Seq(Message)
         /\ Len(Recent(Append(said, m), MaxMessages)) <= MaxMessages
         /\ ToSet(Recent(Append(said, m), MaxMessages)) \subseteq ToSet(said) \cup {m}
<1> DEFINE all == Append(said, m)
<1>1. /\ all \in Seq(Message) /\ Len(all) = Len(said) + 1 /\ Len(said) \in Nat
      /\ \A i \in 1..Len(said) : all[i] = said[i]
      /\ all[Len(said) + 1] = m
  OBVIOUS
<1> HIDE DEF all
<1>2. ToSet(all) \subseteq ToSet(said) \cup {m}
  <2> SUFFICES ASSUME NEW x \in ToSet(all) PROVE x \in ToSet(said) \cup {m}
    OBVIOUS
  <2>1. PICK i \in 1..Len(all) : x = all[i]
    BY <1>1 DEF ToSet
  <2>2. i \in 1..Len(said) \/ i = Len(said) + 1
    BY <1>1
  <2>3. CASE i \in 1..Len(said)
    BY <1>1, <2>1, <2>3 DEF ToSet
  <2>4. CASE i = Len(said) + 1
    BY <1>1, <2>1, <2>4
  <2>5. QED
    BY <2>2, <2>3, <2>4
<1>3. /\ Recent(all, MaxMessages) \in Seq(Message) /\ Len(Recent(all, MaxMessages)) <= MaxMessages
      /\ ToSet(Recent(all, MaxMessages)) \subseteq ToSet(all)
  BY <1>1, ChatBounds, RecentElements
<1>4. QED
  BY <1>2, <1>3 DEF all

\* A chat that is new has nothing to lose.
LEMMA NothingSaid == <<>> \in Seq(Message) /\ Len(<<>>) <= MaxMessages /\ ToSet(<<>>) = {}
<1>1. <<>> \in Seq(Message) /\ Len(<<>>) = 0 /\ DOMAIN <<>> = {}
  OBVIOUS
<1>2. QED
  BY <1>1, ChatBounds DEF ToSet

\* A list with the chat that is shown, once synced, keeps the chats.
LEMMA SyncedKept ==
  ASSUME NEW list, ChatList(list), active' \in Chats \cup {NoChat},
         active' # NoChat => active' \in Ids(list), context' \subseteq Logs,
         messages' \in Seq(Message), Len(messages') <= MaxMessages,
         sessions' = Synced(list, active', context', messages'), stored' = sessions'
  PROVE  ChatsKept'
<1> PICK id, seen, said : id = active' /\ seen = context' /\ said = messages'
  OBVIOUS
<1>0. /\ id \in Chats \cup {NoChat} /\ seen \subseteq Logs
      /\ said \in Seq(Message) /\ Len(said) <= MaxMessages
  OBVIOUS
<1>1. sessions' = Synced(list, id, seen, said)
  OBVIOUS
<1>2. ChatList(Synced(list, id, seen, said))
  BY SyncedIsList
<1>3. CASE id = NoChat
  <2>1. QuestionsSurviveReload'
    BY <1>3 DEF QuestionsSurviveReload
  <2>2. QED
    BY <1>1, <1>2, <2>1 DEF ChatsKept
<1>4. CASE id # NoChat
  <2>1. id \in Chats /\ id \in Ids(list)
    BY <1>4
  <2>0. SaidIn(Synced(list, id, seen, said), id, said)
    BY <1>0, <2>1, SyncedChats
  <2>2. PICK s \in ToSet(Synced(list, id, seen, said)) : s.id = id /\ s.messages = said
    BY <2>0 DEF SaidIn
  <2>3. s \in ToSet(sessions') /\ s \in ToSet(stored') /\ s.id = active' /\ s.messages = messages'
    BY <1>1, <2>2
  <2>4. active' \in Ids(sessions')
    BY <2>3 DEF Ids
  <2>5. QuestionsSurviveReload'
    BY <2>3, <2>4 DEF QuestionsSurviveReload
  <2>6. QED
    BY <1>1, <1>2, <2>5 DEF ChatsKept
<1>5. QED
  BY <1>3, <1>4

\* A question joins the chat it is asked in.
LEMMA AskKept ==
  ASSUME NEW list, ChatList(list), NEW seen, seen \subseteq Logs, NEW said \in Seq(Message),
         active' \in Chats, active' \in Ids(list), asked \in 0..MaxQuestions,
         Ask(list, seen, said)
  PROVE  ChatsKept'
<1> DEFINE m == [kind |-> "question", of |-> asked + 1]
<1>1. /\ asked + 1 \in Questions /\ messages' = Recent(Append(said, m), MaxMessages)
      /\ context' = seen /\ sessions' = Synced(list, active', seen, messages') /\ stored' = sessions'
  BY DEF Ask
<1>2. m \in Message
  BY <1>1 DEF Message
<1> HIDE DEF m
<1>3. messages' \in Seq(Message) /\ Len(messages') <= MaxMessages
  BY <1>1, <1>2, Spoken
<1>4. sessions' = Synced(list, active', context', messages')
  BY <1>1
<1>5. QED
  BY <1>1, <1>3, <1>4, SyncedKept

\* What is shown after a chat of the list has been opened.
LEMMA OpenedKept ==
  ASSUME ChatList(sessions'), stored' = sessions', NEW s \in Session, s \in ToSet(sessions'),
         Len(s.messages) <= MaxMessages,
         active' = s.id, context' = s.context, messages' = s.messages
  PROVE  ChatsKept'
<1>1. s.id \in Chats /\ s.context \subseteq Logs /\ s.messages \in Seq(Message)
  BY DEF Session
<1>2. active' \in Ids(sessions')
  BY DEF Ids
<1>3. QuestionsSurviveReload'
  BY <1>2 DEF QuestionsSurviveReload
<1>4. QED
  BY <1>1, <1>3 DEF ChatsKept

\* Giving or taking back a record keeps the chats; the first one may start a chat.
LEMMA ContextKept ==
  ASSUME ChatsKept, NEW log \in Logs, AddContext(log) \/ RemoveContext(log)
  PROVE  ChatsKept'
<1>1. /\ ChatList(sessions) /\ active \in Chats \cup {NoChat} /\ context \subseteq Logs
      /\ messages \in Seq(Message) /\ Len(messages) <= MaxMessages
      /\ active # NoChat => active \in Ids(sessions)
  BY DEF ChatsKept, QuestionsSurviveReload
<1>2. CASE (AddContext(log) /\ active # NoChat) \/ RemoveContext(log)
  <2>1. /\ active' = active /\ messages' = messages /\ context' \subseteq Logs
        /\ sessions' = Synced(sessions, active', context', messages') /\ stored' = sessions'
    BY <1>1, <1>2 DEF AddContext, RemoveContext, SyncActive
  <2>2. QED
    BY <1>1, <2>1, SyncedKept
<1>3. CASE AddContext(log) /\ active = NoChat
  <2>1. PICK list : list = Started(NewChat, {})
    OBVIOUS
  <2>2. /\ active' = NewChat /\ messages' = <<>> /\ context' = context \cup {log}
        /\ sessions' = Synced(list, active', context', messages') /\ stored' = sessions'
    BY <1>3, <2>1 DEF AddContext
  <2>3. ChatList(list) /\ NewChat \in Ids(list)
    BY <1>1, <2>1, StartedChats
  <2>4. NewChat \in Chats
    BY <1>1, NewChatIsNew
  <2>5. messages' \in Seq(Message) /\ Len(messages') <= MaxMessages
    BY <2>2, NothingSaid
  <2>6. active' \in Chats \cup {NoChat} /\ active' \in Ids(list) /\ context' \subseteq Logs
    BY <1>1, <2>2, <2>3, <2>4
  <2>7. QED
    BY <2>2, <2>3, <2>5, <2>6, SyncedKept
<1>4. QED
  BY <1>2, <1>3

\* Opening another chat, or deleting one, keeps them.
LEMMA OpenKept ==
  ASSUME ChatsKept, NEW id \in Chats, SelectSession(id) \/ DeleteSession(id)
  PROVE  ChatsKept'
<1>1. /\ ChatList(sessions) /\ stored = sessions
      /\ active \in Chats \cup {NoChat} /\ context \subseteq Logs
      /\ messages \in Seq(Message) /\ Len(messages) <= MaxMessages
  BY DEF ChatsKept
<1>2. CASE SelectSession(id)
  <2>1. PICK s : s = SessionOf(sessions, id)
    OBVIOUS
  <2>2. /\ id \in Ids(sessions) /\ active' = id /\ context' = s.context /\ messages' = s.messages
        /\ sessions' = sessions /\ stored' = stored
    BY <1>2, <2>1 DEF SelectSession
  <2>3. s \in ToSet(sessions) /\ s.id = id /\ s \in Session /\ Len(s.messages) <= MaxMessages
    BY <1>1, <2>1, <2>2, SessionFound
  <2>4. ChatList(sessions') /\ s \in ToSet(sessions')
    BY <1>1, <2>2, <2>3
  <2>5. QED
    BY <1>1, <2>2, <2>3, <2>4, OpenedKept
<1>3. CASE DeleteSession(id)
  <2>1. PICK rest : rest = Others(sessions, id)
    OBVIOUS
  <2>2. ChatList(rest) /\ ToSet(rest) = {s \in ToSet(sessions) : s.id # id}
    BY <1>1, <2>1, OtherChats
  <2>3. stored' = sessions' /\ (id # active => sessions' = rest /\ UNCHANGED <<active, context, messages>>)
    BY <1>3, <2>1 DEF DeleteSession
  <2>4. CASE id # active
    <3>1. ChatList(sessions')
      BY <2>2, <2>3, <2>4
    <3>2. QuestionsSurviveReload'
      <4>1. QuestionsSurviveReload
        BY DEF ChatsKept
      <4>2. \A s \in ToSet(sessions) : s.id = active => s \in ToSet(rest)
        BY <2>2, <2>4
      <4>3. \A s \in ToSet(sessions) : s.id = active => s \in ToSet(sessions') /\ s \in ToSet(stored')
        BY <2>3, <2>4, <4>2
      <4>4. active # NoChat => active' \in Ids(sessions')
        <5>1. active # NoChat => \E s \in ToSet(sessions) : s.id = active
          BY <4>1 DEF QuestionsSurviveReload, Ids
        <5>2. QED
          BY <2>3, <2>4, <4>3, <5>1 DEF Ids
      <4>5. ASSUME active # NoChat, NEW m \in ToSet(messages), m.kind = "question"
            PROVE  \E s \in ToSet(stored') : s.id = active /\ m \in ToSet(s.messages)
        <5>1. PICK s \in ToSet(stored) : s.id = active /\ m \in ToSet(s.messages)
          BY <4>1, <4>5 DEF QuestionsSurviveReload
        <5>2. s \in ToSet(stored')
          BY <1>1, <4>3, <5>1
        <5>3. QED
          BY <5>1, <5>2
      <4>6. active' = active /\ messages' = messages
        BY <2>3, <2>4
      <4>7. QED
        BY <4>4, <4>5, <4>6 DEF QuestionsSurviveReload
    <3>3. QED
      BY <1>1, <2>3, <2>4, <3>1, <3>2 DEF ChatsKept
  <2>5. CASE id = active /\ rest # <<>>
    <3>1. PICK s : s = rest[1]
      OBVIOUS
    <3>2. active' = s.id /\ context' = s.context /\ messages' = s.messages /\ sessions' = rest
      BY <1>3, <2>1, <2>5, <3>1 DEF DeleteSession
    <3>3. s \in ToSet(rest) /\ s \in Session /\ Len(s.messages) <= MaxMessages
      BY <2>2, <2>5, <3>1, FirstChat
    <3>4. ChatList(sessions') /\ s \in ToSet(sessions')
      BY <2>2, <3>2, <3>3
    <3>5. QED
      BY <2>3, <3>2, <3>3, <3>4, OpenedKept
  <2>6. CASE id = active /\ rest = <<>>
    <3>1. PICK s : s = [id |-> NewChat, context |-> {}, messages |-> <<>>]
      OBVIOUS
    <3>2. active' = NewChat /\ context' = {} /\ messages' = <<>> /\ sessions' = <<s>>
      BY <1>3, <2>1, <2>6, <3>1 DEF DeleteSession
    <3>3. s \in Session /\ s.id = NewChat /\ s.context = {} /\ s.messages = <<>> /\ Len(s.messages) <= MaxMessages
      <4>1. NewChat \in Chats
        BY <1>1, NewChatIsNew
      <4>2. QED
        BY <3>1, <4>1, NothingSaid DEF Session
    <3>4. <<s>> \in Seq(Session) /\ Len(<<s>>) = 1 /\ DOMAIN <<s>> = {1} /\ <<s>>[1] = s
      BY <3>3
    <3>5. ChatList(<<s>>) /\ s \in ToSet(<<s>>)
      BY <3>3, <3>4, ChatBounds DEF ChatList, ChatsOf, DistinctIds, ToSet
    <3>6. ChatList(sessions') /\ s \in ToSet(sessions')
      BY <3>2, <3>5
    <3>7. QED
      BY <2>3, <3>2, <3>3, <3>6, OpenedKept
  <2>7. QED
    BY <2>4, <2>5, <2>6
<1>4. QED
  BY <1>2, <1>3

\* Asking keeps the chats, whether in the chat that is shown or in a new one.
LEMMA QuestionKept ==
  ASSUME ChatsKept, asked \in 0..MaxQuestions,
         SendAssistantMessage \/ \E log \in Logs : BeginLogAnalysis(log)
  PROVE  ChatsKept'
<1>1. /\ ChatList(sessions) /\ active \in Chats \cup {NoChat} /\ context \subseteq Logs
      /\ messages \in Seq(Message) /\ Len(messages) <= MaxMessages
      /\ active # NoChat => active \in Ids(sessions)
  BY DEF ChatsKept, QuestionsSurviveReload
<1>2. NewChat \in Chats /\ <<>> \in Seq(Message)
  BY <1>1, NewChatIsNew, NothingSaid
<1>3. CASE SendAssistantMessage /\ active # NoChat
  <2>1. PICK list, seen, said : list = sessions /\ seen = context /\ said = messages
    OBVIOUS
  <2>2. active' = active /\ Ask(list, seen, said)
    BY <1>3, <2>1 DEF SendAssistantMessage
  <2>3. active' \in Chats /\ active' \in Ids(list)
    BY <1>1, <1>3, <2>1, <2>2
  <2>4. QED
    BY <1>1, <2>1, <2>2, <2>3, AskKept
<1>4. CASE SendAssistantMessage /\ active = NoChat
  <2>1. PICK list : list = Started(NewChat, {})
    OBVIOUS
  <2>2. active' = NewChat /\ Ask(list, {}, <<>>)
    BY <1>4, <2>1 DEF SendAssistantMessage
  <2>3. ChatList(list) /\ NewChat \in Ids(list)
    BY <1>1, <2>1, StartedChats
  <2>4. QED
    BY <1>2, <2>2, <2>3, AskKept
<1>5. ASSUME NEW log \in Logs, BeginLogAnalysis(log) PROVE ChatsKept'
  <2>1. PICK list : list = Started(NewChat, {log})
    OBVIOUS
  <2>2. active' = NewChat /\ Ask(list, {log}, <<>>)
    BY <1>5, <2>1 DEF BeginLogAnalysis
  <2>3. ChatList(list) /\ NewChat \in Ids(list)
    BY <1>1, <2>1, StartedChats
  <2>4. QED
    BY <1>2, <2>2, <2>3, AskKept
<1>6. QED
  BY <1>3, <1>4, <1>5

\* A new chat keeps the others.
LEMMA ClearKept ==
  ASSUME ChatsKept, ClearAssistantContext
  PROVE  ChatsKept'
<1>1. /\ ChatList(sessions) /\ active \in Chats \cup {NoChat} /\ context \subseteq Logs
      /\ messages \in Seq(Message) /\ Len(messages) <= MaxMessages
  BY DEF ChatsKept
<1>2. /\ active' = NewChat /\ context' = {} /\ messages' = <<>>
      /\ sessions' = Started(NewChat, {}) /\ stored' = sessions'
  BY DEF ClearAssistantContext
<1>3. ChatList(sessions') /\ active' \in Ids(sessions') /\ active' \in Chats
  BY <1>1, <1>2, StartedChats, NewChatIsNew
<1>4. messages' \in Seq(Message) /\ Len(messages') <= MaxMessages /\ ToSet(messages') = {}
  BY <1>2, NothingSaid
<1>5. QuestionsSurviveReload'
  BY <1>3, <1>4 DEF QuestionsSurviveReload
<1>6. QED
  BY <1>2, <1>3, <1>4, <1>5 DEF ChatsKept

\* What is said, of whichever question, keeps the chats.
LEMMA SayKept ==
  ASSUME ChatsKept, NEW q \in Questions, NEW kind \in {"answer", "error", "empty"}, Say(kind, q)
  PROVE  ChatsKept'
<1> DEFINE m == [kind |-> kind, of |-> q]
<1>1. /\ ChatList(sessions) /\ stored = sessions
      /\ active \in Chats \cup {NoChat} /\ context \subseteq Logs
      /\ messages \in Seq(Message) /\ QuestionsSurviveReload
  BY DEF ChatsKept
<1>2. m \in Message /\ m.kind # "question"
  BY DEF Message
<1>3. messages' = Recent(Append(messages, m), MaxMessages) /\ active' = active /\ context' = context
  BY DEF Say
<1> HIDE DEF m
<1>4. /\ messages' \in Seq(Message) /\ Len(messages') <= MaxMessages
      /\ ToSet(messages') \subseteq ToSet(messages) \cup {m}
  BY <1>1, <1>2, <1>3, Spoken
<1>5. CASE q # current
  <2>1. sessions' = sessions /\ stored' = stored
    BY <1>5 DEF Say
  <2>2. QuestionsSurviveReload'
    BY <1>1, <1>2, <1>3, <1>4, <2>1 DEF QuestionsSurviveReload
  <2>3. QED
    BY <1>1, <1>3, <1>4, <2>1, <2>2 DEF ChatsKept
<1>6. CASE q = current
  <2>1. sessions' = Synced(sessions, active', context', messages') /\ stored' = sessions'
    BY <1>6 DEF Say, SyncActive
  <2>2. active' # NoChat => active' \in Ids(sessions)
    BY <1>1, <1>3 DEF QuestionsSurviveReload
  <2>3. QED
    BY <1>1, <1>3, <1>4, <2>1, <2>2, SyncedKept
<1>7. QED
  BY <1>5, <1>6

\* A reload shows what is stored.
LEMMA ReloadKept ==
  ASSUME ChatsKept, ReloadPage
  PROVE  ChatsKept'
<1>1. ChatList(sessions) /\ stored = sessions
  BY DEF ChatsKept
<1>2. sessions' = sessions /\ stored' = sessions
  BY <1>1 DEF ReloadPage
<1>3. CASE sessions = <<>>
  <2>1. active' = NoChat /\ context' = {} /\ messages' = <<>>
    BY <1>1, <1>3 DEF ReloadPage
  <2>2. QED
    BY <1>1, <1>2, <2>1, NothingSaid DEF ChatsKept, QuestionsSurviveReload
<1>4. CASE sessions # <<>>
  <2>1. PICK s : s = sessions[1]
    OBVIOUS
  <2>2. active' = s.id /\ context' = s.context /\ messages' = s.messages
    BY <1>1, <1>4, <2>1 DEF ReloadPage
  <2>3. s \in ToSet(sessions) /\ s \in Session /\ Len(s.messages) <= MaxMessages
    BY <1>1, <1>4, <2>1, FirstChat
  <2>4. ChatList(sessions') /\ s \in ToSet(sessions') /\ stored' = sessions'
    BY <1>1, <1>2, <2>3
  <2>5. QED
    BY <2>2, <2>3, <2>4, OpenedKept
<1>5. QED
  BY <1>3, <1>4

(***************************************************************************)
(* The requests.                                                           *)
(***************************************************************************)
\* After an abort no request is answered aloud.
LEMMA AbortedRuns ==
  ASSUME AsksKept
  PROVE  /\ Aborted \in [Questions -> {"none", "asked", "reading", "cut", "over"}]
         /\ \A q \in Questions : Aborted[q] \notin {"asked", "reading"}
<1>1. /\ runs \in [Questions -> {"none", "asked", "reading", "cut", "over"}]
      /\ \A q \in Questions : runs[q] \in {"asked", "reading"} => q = current
  BY DEF AsksKept
<1>2. ASSUME NEW q \in Questions
      PROVE  Aborted[q] \in {"none", "asked", "reading", "cut", "over"} \ {"asked", "reading"}
  <2>1. Aborted[q] = CASE q = current /\ runs[q] = "asked" -> "over"
                       [] q = current /\ runs[q] = "reading" -> "cut"
                       [] OTHER -> runs[q]
    BY DEF Aborted
  <2>2. CASE q = current /\ runs[q] = "asked"
    BY <2>1, <2>2
  <2>3. CASE q = current /\ runs[q] = "reading"
    BY <2>1, <2>3
  <2>4. CASE ~ (q = current /\ runs[q] = "asked") /\ ~ (q = current /\ runs[q] = "reading")
    <3>1. Aborted[q] = runs[q]
      BY <2>1, <2>4
    <3>2. runs[q] \notin {"asked", "reading"}
      BY <1>1, <2>4
    <3>3. QED
      BY <1>1, <3>1, <3>2
  <2>5. QED
    BY <2>2, <2>3, <2>4
<1>3. Aborted = [q \in Questions |-> Aborted[q]]
  BY DEF Aborted
<1>4. QED
  BY <1>2, <1>3

\* A question that is asked when nothing is waited for is waited for from then on.
LEMMA AskedAlone ==
  ASSUME NEW before \in [Questions -> {"none", "asked", "reading", "cut", "over"}],
         \A q \in Questions : before[q] \notin {"asked", "reading"},
         NEW q \in Questions, asked' = q, current' = q, busy' = TRUE,
         runs' = [before EXCEPT ![q] = "asked"]
  PROVE  AsksKept'
<1>1. /\ runs' \in [Questions -> {"none", "asked", "reading", "cut", "over"}]
      /\ runs'[q] = "asked" /\ \A p \in Questions : p # q => runs'[p] = before[p]
  OBVIOUS
<1>2. q \in 0..MaxQuestions /\ q # 0
  BY ChatBounds DEF Questions
<1>3. BusyIsWaiting'
  BY <1>1, <1>2 DEF BusyIsWaiting
<1>4. QED
  BY <1>1, <1>2, <1>3 DEF AsksKept

\* No step leaves two requests that could be answered aloud.
LEMMA AsksStep ==
  ASSUME AsksKept, [Next]_vars
  PROVE  AsksKept'
<1>1. /\ busy \in BOOLEAN /\ asked \in 0..MaxQuestions /\ current \in 0..MaxQuestions
      /\ runs \in [Questions -> {"none", "asked", "reading", "cut", "over"}]
      /\ busy <=> current # 0
      /\ busy => runs[current] \in {"asked", "reading"}
      /\ \A q \in Questions : runs[q] \in {"asked", "reading"} => q = current
      /\ 0 \notin Questions /\ 0 \in 0..MaxQuestions
  BY ChatBounds DEF AsksKept, BusyIsWaiting, Questions
<1>2. CASE UNCHANGED runVars
  BY <1>2 DEF runVars, AsksKept, BusyIsWaiting
<1>3. CASE SendAssistantMessage
  <2>1. ~busy /\ runs' = [runs EXCEPT ![asked + 1] = "asked"]
    BY <1>3 DEF SendAssistantMessage
  <2>2. asked + 1 \in Questions /\ asked' = asked + 1 /\ current' = asked + 1 /\ busy' = TRUE
    BY <1>3 DEF SendAssistantMessage, Ask
  <2>3. \A q \in Questions : runs[q] \notin {"asked", "reading"}
    BY <1>1, <2>1
  <2>4. QED
    BY <1>1, <2>1, <2>2, <2>3, AskedAlone
<1>4. ASSUME NEW log \in Logs, BeginLogAnalysis(log) PROVE AsksKept'
  <2>1. asked + 1 \in Questions /\ asked' = asked + 1 /\ current' = asked + 1 /\ busy' = TRUE
    BY <1>4 DEF BeginLogAnalysis, Ask
  <2>2. runs' = [Aborted EXCEPT ![asked + 1] = "asked"]
    BY <1>4 DEF BeginLogAnalysis
  <2>3. QED
    BY <2>1, <2>2, AbortedRuns, AskedAlone
<1>5. CASE ClearAssistantContext
  <2>1. runs' = Aborted /\ current' = 0 /\ busy' = FALSE /\ asked' = asked
    BY <1>5 DEF ClearAssistantContext
  <2>2. BusyIsWaiting'
    BY <2>1 DEF BusyIsWaiting
  <2>3. QED
    BY <1>1, <2>1, <2>2, AbortedRuns DEF AsksKept
<1>6. ASSUME NEW q \in Questions, AnswerHead(q) PROVE AsksKept'
  <2>1. /\ runs[q] = "asked" /\ runs' = [runs EXCEPT ![q] = "reading"]
        /\ busy' = busy /\ asked' = asked /\ current' = current
    BY <1>6 DEF AnswerHead
  <2>2. /\ runs'[q] = "reading" /\ q = current
        /\ \A p \in Questions : p # q => runs'[p] = runs[p]
        /\ runs' \in [Questions -> {"none", "asked", "reading", "cut", "over"}]
    BY <1>1, <2>1
  <2>3. BusyIsWaiting'
    BY <1>1, <2>1, <2>2 DEF BusyIsWaiting
  <2>4. QED
    BY <1>1, <2>1, <2>2, <2>3 DEF AsksKept
<1>7. ASSUME NEW q \in Questions, NEW kind, Say(kind, q) PROVE AsksKept'
  <2>1. /\ runs' = [runs EXCEPT ![q] = "over"] /\ asked' = asked
        /\ q # current => busy' = busy /\ current' = current
        /\ q = current => busy' = FALSE /\ current' = 0
    BY <1>7 DEF Say
  <2>2. /\ runs' \in [Questions -> {"none", "asked", "reading", "cut", "over"}]
        /\ runs'[q] = "over" /\ \A p \in Questions : p # q => runs'[p] = runs[p]
    BY <1>1, <2>1
  <2>3. CASE q # current
    <3>1. busy => current \in Questions
      BY <1>1 DEF Questions
    <3>2. BusyIsWaiting'
      BY <1>1, <2>1, <2>2, <2>3, <3>1 DEF BusyIsWaiting
    <3>3. QED
      BY <1>1, <2>1, <2>2, <2>3, <3>2 DEF AsksKept
  <2>4. CASE q = current
    <3>1. BusyIsWaiting'
      BY <2>1, <2>4 DEF BusyIsWaiting
    <3>2. QED
      BY <1>1, <2>1, <2>2, <2>4, <3>1 DEF AsksKept
  <2>5. QED
    BY <2>3, <2>4
<1>8. CASE ReloadPage
  <2>1. /\ busy' = FALSE /\ current' = 0 /\ asked' = asked
        /\ runs' = [q \in Questions |-> IF runs[q] = "none" THEN "none" ELSE "over"]
    BY <1>8 DEF ReloadPage
  <2>2. /\ runs' \in [Questions -> {"none", "asked", "reading", "cut", "over"}]
        /\ \A q \in Questions : runs'[q] \notin {"asked", "reading"}
    BY <2>1
  <2>3. BusyIsWaiting'
    BY <2>1 DEF BusyIsWaiting
  <2>4. QED
    BY <1>1, <2>1, <2>2, <2>3 DEF AsksKept
<1>9. ASSUME NEW q \in Questions, AnswerBody(q) \/ AnswerCut(q) \/ FailQuestion(q) PROVE AsksKept'
  <2>1. Say("answer", q) \/ Say("empty", q) \/ Say("error", q)
    BY <1>9 DEF AnswerBody, AnswerCut, FailQuestion
  <2>2. QED
    BY <1>7, <2>1
<1>10. CASE UNCHANGED vars
  BY <1>2, <1>10 DEF vars
<1>11. CASE \/ \E log \in Logs : AddContext(log) \/ RemoveContext(log)
            \/ \E id \in Chats : SelectSession(id) \/ DeleteSession(id)
            \/ \E r \in Readings : AddAttachments(r)
            \/ \E r \in Readings, size \in Sizes, n \in 1..MaxAttachments :
                 ReadAttachments(r, [i \in 1..n |-> size])
            \/ \E i \in 1..MaxAttachments : RemoveAttachment(i)
  <2>1. UNCHANGED runVars
    BY <1>11, Zenon DEF AddContext, RemoveContext, SelectSession, DeleteSession, AddAttachments,
      ReadAttachments, RemoveAttachment
  <2>2. QED
    BY <1>2, <2>1
<1>12. QED
  BY <1>3, <1>4, <1>5, <1>6, <1>8, <1>9, <1>10, <1>11, Zenon DEF Next

(***************************************************************************)
(* The files.                                                              *)
(***************************************************************************)
\* Nothing given, nothing being read.
LEMMA NoFiles == <<>> \in Seq(Sizes) /\ Len(<<>>) <= MaxAttachments
<1>1. <<>> \in Seq(Sizes) /\ Len(<<>>) = 0
  OBVIOUS
<1>2. QED
  BY <1>1, ChatBounds

\* No step takes more files than a question may have.
LEMMA FilesStep ==
  ASSUME FilesKept, [Next]_vars
  PROVE  FilesKept'
<1>1. /\ attachments \in Seq(Sizes) /\ Len(attachments) <= MaxAttachments
      /\ readings \in [Readings -> Seq(Sizes)]
  BY DEF FilesKept
<1>2. CASE attachments' \in {attachments, <<>>} /\ readings' = readings
  BY <1>1, <1>2, NoFiles DEF FilesKept
<1>3. ASSUME NEW r \in Readings, AddAttachments(r) PROVE FilesKept'
  <2>1. /\ attachments' = Foremost(attachments \o readings[r], MaxAttachments)
        /\ readings' = [readings EXCEPT ![r] = <<>>]
    BY <1>3 DEF AddAttachments, NoReading
  <2>2. readings[r] \in Seq(Sizes)
    BY <1>1
  <2>3. attachments \o readings[r] \in Seq(Sizes)
    BY <1>1, <2>2, ConcatProperties
  <2>4. attachments' \in Seq(Sizes) /\ Len(attachments') <= MaxAttachments
    BY <2>1, <2>3, ChatBounds, ForemostElements
  <2>5. readings' \in [Readings -> Seq(Sizes)]
    BY <1>1, <2>1, NoFiles
  <2>6. QED
    BY <2>4, <2>5 DEF FilesKept
<1>4. ASSUME NEW r \in Readings, NEW size \in Sizes, NEW n \in 1..MaxAttachments,
             ReadAttachments(r, [i \in 1..n |-> size])
      PROVE  FilesKept'
  <2>1. n \in Nat
    BY ChatBounds
  <2>2. [i \in 1..n |-> size] \in Seq(Sizes)
    BY <2>1
  <2>3. attachments' = attachments /\ readings' = [readings EXCEPT ![r] = [i \in 1..n |-> size]]
    BY <1>4 DEF ReadAttachments
  <2>4. readings' \in [Readings -> Seq(Sizes)]
    BY <1>1, <2>2, <2>3
  <2>5. QED
    BY <1>1, <2>3, <2>4 DEF FilesKept
<1>5. ASSUME NEW i \in 1..MaxAttachments, RemoveAttachment(i) PROVE FilesKept'
  <2>1. i \in DOMAIN attachments /\ attachments' = RemoveAt(attachments, i) /\ readings' = readings
    BY <1>5 DEF RemoveAttachment
  <2>2. attachments' \in Seq(Sizes) /\ Len(attachments') = Len(attachments) - 1
    BY <1>1, <2>1, RemovedElement
  <2>3. Len(attachments) \in Nat
    BY <1>1
  <2>4. Len(attachments') <= MaxAttachments
    BY <1>1, <2>2, <2>3, ChatBounds
  <2>5. QED
    BY <1>1, <2>1, <2>2, <2>4 DEF FilesKept
<1>6. CASE ReloadPage
  <2>1. attachments' = <<>> /\ readings' = [r \in Readings |-> <<>>]
    BY <1>6 DEF ReloadPage, NoReading
  <2>2. readings' \in [Readings -> Seq(Sizes)]
    BY <2>1, NoFiles
  <2>3. QED
    BY <2>1, <2>2, NoFiles DEF FilesKept
<1>7. ASSUME NEW log \in Logs, AddContext(log) \/ RemoveContext(log) \/ BeginLogAnalysis(log)
      PROVE  FilesKept'
  BY <1>2, <1>7 DEF AddContext, RemoveContext, BeginLogAnalysis, Ask, fileVars
<1>8. ASSUME NEW id \in Chats, SelectSession(id) \/ DeleteSession(id) PROVE FilesKept'
  BY <1>2, <1>8 DEF SelectSession, DeleteSession
<1>9. CASE SendAssistantMessage \/ ClearAssistantContext
  BY <1>2, <1>9 DEF SendAssistantMessage, ClearAssistantContext, Ask
<1>10. ASSUME NEW q \in Questions, AnswerHead(q) \/ AnswerBody(q) \/ AnswerCut(q) \/ FailQuestion(q)
       PROVE  FilesKept'
  BY <1>2, <1>10 DEF AnswerHead, AnswerBody, AnswerCut, FailQuestion, Say, fileVars
<1>11. CASE UNCHANGED vars
  BY <1>2, <1>11 DEF vars, fileVars
<1>12. QED
  BY <1>3, <1>4, <1>5, <1>6, <1>7, <1>8, <1>9, <1>10, <1>11, Zenon DEF Next

(***************************************************************************)
(* All of it.                                                              *)
(***************************************************************************)
\* Every step keeps the chats.
LEMMA ChatsStep ==
  ASSUME ChatsKept, asked \in 0..MaxQuestions, [Next]_vars
  PROVE  ChatsKept'
<1>1. CASE UNCHANGED chatVars
  BY <1>1 DEF chatVars, ChatsKept, QuestionsSurviveReload
<1>2. ASSUME NEW q \in Questions, AnswerHead(q) \/ AnswerBody(q) \/ AnswerCut(q) \/ FailQuestion(q)
      PROVE  ChatsKept'
  <2>1. AnswerHead(q) => UNCHANGED chatVars
    BY DEF AnswerHead
  <2>2. ~ AnswerHead(q) => Say("answer", q) \/ Say("empty", q) \/ Say("error", q)
    BY <1>2 DEF AnswerBody, AnswerCut, FailQuestion
  <2>3. QED
    BY <1>1, <2>1, <2>2, SayKept
<1>3. CASE \/ \E r \in Readings : AddAttachments(r)
           \/ \E r \in Readings, size \in Sizes, n \in 1..MaxAttachments :
                ReadAttachments(r, [i \in 1..n |-> size])
           \/ \E i \in 1..MaxAttachments : RemoveAttachment(i)
  <2>1. UNCHANGED chatVars
    BY <1>3, Zenon DEF AddAttachments, ReadAttachments, RemoveAttachment
  <2>2. QED
    BY <1>1, <2>1
<1>4. CASE UNCHANGED vars
  BY <1>1, <1>4 DEF vars
<1>5. ASSUME NEW log \in Logs, AddContext(log) \/ RemoveContext(log) \/ BeginLogAnalysis(log)
      PROVE  ChatsKept'
  BY <1>5, ContextKept, QuestionKept
<1>6. ASSUME NEW id \in Chats, SelectSession(id) \/ DeleteSession(id) PROVE ChatsKept'
  BY <1>6, OpenKept
<1>7. CASE SendAssistantMessage \/ ClearAssistantContext \/ ReloadPage
  BY <1>7, QuestionKept, ClearKept, ReloadKept
<1>8. QED
  BY <1>2, <1>3, <1>4, <1>5, <1>6, <1>7, Zenon DEF Next

\* The page starts without chats, questions and files.
LEMMA ChatInit == Init => ChatKept
<1> SUFFICES ASSUME Init PROVE ChatKept
  OBVIOUS
<1>1. /\ sessions = <<>> /\ active = NoChat /\ context = {} /\ messages = <<>> /\ stored = <<>>
      /\ attachments = <<>> /\ readings = [r \in Readings |-> <<>>]
      /\ busy = FALSE /\ asked = 0 /\ current = 0 /\ runs = [q \in Questions |-> "none"]
  BY DEF Init, NoReading
<1>2. ChatList(<<>>)
  <2>1. <<>> \in Seq(Session) /\ Len(<<>>) = 0 /\ DOMAIN <<>> = {}
    OBVIOUS
  <2>2. QED
    BY <2>1, ChatBounds DEF ChatList, ChatsOf, DistinctIds
<1>3. ChatsKept
  BY <1>1, <1>2, NothingSaid DEF ChatsKept, QuestionsSurviveReload
<1>4. AsksKept
  <2>1. BusyIsWaiting
    BY <1>1 DEF BusyIsWaiting
  <2>2. 0 \in 0..MaxQuestions
    BY ChatBounds
  <2>3. \A q \in Questions : runs[q] = "none"
    BY <1>1
  <2>4. runs \in [Questions -> {"none", "asked", "reading", "cut", "over"}]
    BY <1>1
  <2>5. QED
    BY <1>1, <2>1, <2>2, <2>3, <2>4 DEF AsksKept
<1>5. FilesKept
  BY <1>1, NoFiles DEF FilesKept
<1>6. QED
  BY <1>3, <1>4, <1>5 DEF ChatKept

\* The three parts are kept together.
LEMMA ChatStep == ChatKept /\ [Next]_vars => ChatKept'
<1> SUFFICES ASSUME ChatKept, [Next]_vars PROVE ChatKept'
  OBVIOUS
<1>1. ChatsKept /\ AsksKept /\ FilesKept /\ asked \in 0..MaxQuestions
  BY DEF ChatKept, AsksKept
<1>2. QED
  BY <1>1, ChatsStep, AsksStep, FilesStep DEF ChatKept

\* An answer or a failure that no chat has kept is of the question waited for.
Silent == \A m \in ToSet(messages') \ (ToSet(messages) \cup Kept(sessions)) :
            m.kind \in {"answer", "error"} => m.of = current

\* The messages of a chat of the list are kept.
LEMMA KeptMessages ==
  ASSUME NEW list, NEW s \in ToSet(list)
  PROVE  ToSet(s.messages) \subseteq Kept(list)
  BY DEF Kept

\* Only the question that is waited for answers or fails aloud.
LEMMA SilentStep == ChatKept /\ [Next]_vars => Silent
<1> SUFFICES ASSUME ChatKept, [Next]_vars PROVE Silent
  OBVIOUS
<1>1. /\ ChatList(sessions) /\ stored = sessions /\ messages \in Seq(Message)
      /\ \A q \in Questions : runs[q] \in {"asked", "reading"} => q = current
  BY DEF ChatKept, ChatsKept, AsksKept
<1>2. CASE ToSet(messages') \subseteq ToSet(messages) \cup Kept(sessions)
  BY <1>2 DEF Silent
<1>3. CASE messages' \in {messages, <<>>}
  <2>1. ToSet(messages') \subseteq ToSet(messages)
    BY <1>3, NothingSaid
  <2>2. QED
    BY <1>2, <2>1
<1>4. ASSUME NEW list, NEW seen, NEW said \in Seq(Message), ToSet(said) \subseteq ToSet(messages),
             Ask(list, seen, said)
      PROVE  Silent
  <2>1. PICK m : m = [kind |-> "question", of |-> asked + 1]
    OBVIOUS
  <2>2. m \in Message /\ m.kind = "question" /\ messages' = Recent(Append(said, m), MaxMessages)
    BY <1>4, <2>1 DEF Ask, Message
  <2>3. ToSet(messages') \subseteq ToSet(said) \cup {m}
    BY <2>2, Spoken
  <2>4. QED
    BY <1>4, <2>2, <2>3 DEF Silent
<1>5. CASE SendAssistantMessage \/ \E log \in Logs : BeginLogAnalysis(log)
  <2>1. PICK one, two : one = Started(NewChat, {}) /\ two = sessions
    OBVIOUS
  <2>2. CASE SendAssistantMessage
    <3>1. Ask(sessions, context, messages) \/ Ask(Started(NewChat, {}), {}, <<>>)
      BY <2>2 DEF SendAssistantMessage
    <3>2. PICK seen, said : seen = context /\ said = messages
      OBVIOUS
    <3>3. Ask(two, seen, said) \/ Ask(one, {}, <<>>)
      BY <2>1, <3>1, <3>2
    <3>4. QED
      BY <1>1, <1>4, <3>2, <3>3, NothingSaid
  <2>3. ASSUME NEW log \in Logs, BeginLogAnalysis(log) PROVE Silent
    <3>1. PICK list : list = Started(NewChat, {log})
      OBVIOUS
    <3>2. Ask(list, {log}, <<>>)
      BY <2>3, <3>1 DEF BeginLogAnalysis
    <3>3. QED
      BY <1>4, <3>2, NothingSaid
  <2>4. QED
    BY <1>5, <2>2, <2>3
<1>6. ASSUME NEW id \in Chats, SelectSession(id) PROVE Silent
  <2>1. id \in Ids(sessions) /\ messages' = SessionOf(sessions, id).messages
    BY <1>6 DEF SelectSession
  <2>2. SessionOf(sessions, id) \in ToSet(sessions)
    BY <1>1, <2>1, SessionFound
  <2>3. ToSet(messages') \subseteq Kept(sessions)
    BY <2>1, <2>2, KeptMessages
  <2>4. QED
    BY <1>2, <2>3
<1>7. ASSUME NEW id \in Chats, DeleteSession(id) PROVE Silent
  <2>1. PICK rest : rest = Others(sessions, id)
    OBVIOUS
  <2>2. ChatList(rest) /\ ToSet(rest) \subseteq ToSet(sessions)
    BY <1>1, <2>1, OtherChats
  <2>3. messages' \in {messages, <<>>} \/ (rest # <<>> /\ messages' = rest[1].messages)
    BY <1>7, <2>1 DEF DeleteSession
  <2>4. CASE rest # <<>> /\ messages' = rest[1].messages
    <3>1. rest[1] \in ToSet(sessions)
      BY <2>2, <2>4, FirstChat
    <3>2. QED
      BY <1>2, <2>4, <3>1, KeptMessages
  <2>5. QED
    BY <1>3, <2>3, <2>4
<1>8. CASE ReloadPage
  <2>1. CASE stored = <<>>
    BY <1>3, <1>8, <2>1 DEF ReloadPage
  <2>2. CASE stored # <<>>
    <3>1. messages' = sessions[1].messages /\ sessions[1] \in ToSet(sessions)
      BY <1>1, <1>8, <2>2, FirstChat DEF ReloadPage
    <3>2. QED
      BY <1>2, <3>1, KeptMessages
  <2>3. QED
    BY <2>1, <2>2
<1>9. ASSUME NEW q \in Questions, NEW kind \in {"answer", "error", "empty"}, Say(kind, q),
             kind # "empty" => q = current
      PROVE  Silent
  <2>1. PICK m : m = [kind |-> kind, of |-> q]
    OBVIOUS
  <2>2. m \in Message /\ m.kind = kind /\ m.of = q
    BY <2>1 DEF Message
  <2>3. messages' = Recent(Append(messages, m), MaxMessages)
    BY <1>9, <2>1 DEF Say
  <2>4. ToSet(messages') \subseteq ToSet(messages) \cup {m}
    BY <1>1, <2>2, <2>3, Spoken
  <2>5. QED
    BY <1>9, <2>2, <2>4 DEF Silent
<1>10. ASSUME NEW q \in Questions, AnswerHead(q) \/ AnswerBody(q) \/ AnswerCut(q) \/ FailQuestion(q)
       PROVE  Silent
  <2>1. AnswerHead(q) => messages' = messages
    BY DEF AnswerHead, chatVars
  <2>2. AnswerBody(q) => Say("answer", q) /\ q = current
    BY <1>1 DEF AnswerBody
  <2>3. FailQuestion(q) => Say("error", q) /\ q = current
    BY DEF FailQuestion
  <2>4. AnswerCut(q) => Say("empty", q)
    BY DEF AnswerCut
  <2>5. QED
    BY <1>3, <1>9, <1>10, <2>1, <2>2, <2>3, <2>4
<1>11. ASSUME NEW log \in Logs, AddContext(log) \/ RemoveContext(log) PROVE Silent
  <2>1. messages' \in {messages, <<>>}
    BY <1>11 DEF AddContext, RemoveContext
  <2>2. QED
    BY <1>3, <2>1
<1>12. CASE \/ \E r \in Readings : AddAttachments(r)
            \/ \E r \in Readings, size \in Sizes, n \in 1..MaxAttachments :
                 ReadAttachments(r, [i \in 1..n |-> size])
            \/ \E i \in 1..MaxAttachments : RemoveAttachment(i)
            \/ UNCHANGED vars
  <2>1. UNCHANGED chatVars
    BY <1>12, Zenon DEF AddAttachments, ReadAttachments, RemoveAttachment, vars
  <2>2. QED
    BY <1>3, <2>1 DEF chatVars
<1>13. CASE ClearAssistantContext
  BY <1>3, <1>13 DEF ClearAssistantContext
<1>14. QED
  BY <1>5, <1>6, <1>7, <1>8, <1>10, <1>11, <1>12, <1>13, Zenon DEF Next

-----------------------------------------------------------------------------
\* The steps of the page are those of the chats, or leave them alone.
LEMMA PageChats == [PageNext]_<<vars, providerVars>> => [Next]_vars
  BY DEF PageNext

\* The list of chats is sound and stored as it is, the chat that is shown is of the
\* list with all its questions, and at most one request can still be answered aloud:
\* the one the page waits for (syncActiveAssistantSession, askAssistant).
THEOREM ChatKeptAlways == PageSpec => []ChatKept
<1>1. PageInit => ChatKept
  BY ChatInit DEF PageInit
<1>2. ChatKept /\ [PageNext]_<<vars, providerVars>> => ChatKept'
  BY ChatStep, PageChats
<1>3. QED BY <1>1, <1>2, PTL DEF PageSpec

\* The page is busy exactly while the request of the question it waits for is on its
\* way, and the lists of the assistant keep their limits (askAssistant).
THEOREM WaitAlwaysSound == PageSpec => []WaitIsSound
<1>1. ChatKept => WaitIsSound
  <2> SUFFICES ASSUME ChatKept PROVE WaitIsSound
    OBVIOUS
  <2>1. ChatsKept /\ AsksKept /\ FilesKept
    BY DEF ChatKept
  <2>2. IsInjective(sessions)
    <3>1. DistinctIds(sessions)
      BY <2>1 DEF ChatsKept, ChatList, ChatsOf
    <3>2. QED
      BY <3>1 DEF DistinctIds, IsInjective
  <2>3. TypeOK
    BY <2>1, <2>2 DEF TypeOK, ChatsKept, ChatList, ChatsOf, AsksKept, FilesKept
  <2>4. QED
    BY <2>1, <2>3 DEF WaitIsSound, AsksKept
<1>2. QED BY <1>1, ChatKeptAlways, PTL

\* A reload of the page brings back every question of the chat that is shown
\* (syncActiveAssistantSession, startAssistantSession).
THEOREM QuestionsAlwaysSurviveReload == PageSpec => []QuestionsSurviveReload
<1>1. ChatKept => QuestionsSurviveReload
  BY DEF ChatKept, ChatsKept
<1>2. QED BY <1>1, ChatKeptAlways, PTL

\* A question that was given up does not speak in the chat that followed: the abort
\* leaves no request that could (beginLogAnalysis, clearAssistantContext).
THEOREM GivenUpAlwaysSilent == PageSpec => GivenUpIsSilent
<1>1. ChatKept /\ [PageNext]_<<vars, providerVars>> =>
        [\A m \in ToSet(messages') \ (ToSet(messages) \cup Kept(sessions)) :
           m.kind \in {"answer", "error"} => m.of = current]_vars
  BY SilentStep, PageChats DEF Silent
<1>2. QED BY <1>1, ChatKeptAlways, PTL DEF PageSpec, GivenUpIsSilent

-----------------------------------------------------------------------------
(***************************************************************************)
(* The providers.                                                          *)
(***************************************************************************)
\* While the user has not acted before the page knew its mode, whatever may hold a
\* provider of the file belongs to a page that knows it may: a page that reads or
\* writes the file is in file mode, and no other shows, edits or stores one.
Separated ==
  /\ mode \in {"", backend} /\ backend \in {"file", "browser"}
  /\ reading.stage # "none" => mode = "file"
  /\ guessed \in BOOLEAN
  /\ ~guessed =>
       /\ ~uploaded
       /\ writes # {} => mode = "file"
       /\ DOMAIN browserStore.profiles \intersect FileIds = {}
       /\ mode # "file" => /\ DOMAIN profiles \intersect FileIds = {}
                           /\ settings \notin FileIds

\* What the page makes, and the empty choice, are not the file's.
LEMMA IdsDiffer == BrowserIds \intersect FileIds = {} /\ NoProvider \notin FileIds
  BY DEF BrowserIds, FileIds, NoProvider

\* A list with a provider has it and the others.
LEMMA WithDomain ==
  ASSUME NEW all, NEW p, NEW models
  PROVE  DOMAIN With(all, p, models) = DOMAIN all \cup {p}
  BY DEF With

\* A list without a provider has the others.
LEMMA WithoutDomain ==
  ASSUME NEW all, NEW p
  PROVE  DOMAIN Without(all, p) = DOMAIN all \ {p}
  BY DEF Without

\* The list of a page that has read nothing yet.
LEMMA EmptyDomain == DOMAIN Empty = {}
  BY DEF Empty

\* The page's own list, once persisted, keeps the stores apart if it is apart.
LEMMA Persisting ==
  ASSUME Separated, PersistAIProfiles, mode' = mode, UNCHANGED <<serviceVars, uploaded>>,
         ~guessed' => /\ writes' # {} => mode = "file"
                      /\ mode = "browser" => /\ DOMAIN profiles' \intersect FileIds = {}
                                             /\ settings' \notin FileIds
  PROVE  Separated'
<1>1. guessed' = (guessed \/ mode = "")
  BY DEF PersistAIProfiles
<1>2. ASSUME ~guessed' PROVE mode \in {"file", "browser"} /\ ~guessed
  BY <1>1, <1>2 DEF Separated
<1>3. ASSUME ~guessed' PROVE DOMAIN browserStore'.profiles \intersect FileIds = {}
  <2>1. CASE mode = "file"
    BY <1>2, <1>3, <2>1 DEF PersistAIProfiles, Separated
  <2>2. CASE mode = "browser"
    <3>1. browserStore'.profiles = profiles'
      BY <2>2 DEF PersistAIProfiles
    <3>2. QED BY <1>3, <2>2, <3>1
  <2>3. QED BY <1>2, <1>3, <2>1, <2>2
<1>4. guessed' \in BOOLEAN
  BY <1>1 DEF Separated
<1>5. ASSUME ~guessed' PROVE ~uploaded'
  BY <1>2, <1>5 DEF Separated
<1>6. UNCHANGED <<backend, reading>>
  BY DEF serviceVars
<1>7. ASSUME ~guessed', mode' # "file"
      PROVE  DOMAIN profiles' \intersect FileIds = {} /\ settings' \notin FileIds
  BY <1>2, <1>7
<1>8. QED
  BY <1>2, <1>3, <1>4, <1>5, <1>6, <1>7 DEF Separated

\* A page that has just been opened has nothing to mix up.
LEMMA SeparatedInit == ProvidersInit => Separated
<1> SUFFICES ASSUME ProvidersInit PROVE Separated
  OBVIOUS
<1>1. DOMAIN profiles = {} /\ DOMAIN browserStore.profiles = {}
  <2>1. profiles = Empty /\ browserStore.profiles = Empty
    BY DEF ProvidersInit
  <2>2. QED BY <2>1, EmptyDomain
<1>2. mode = "" /\ backend \in {"file", "browser"} /\ reading.stage = "none"
  BY DEF ProvidersInit, NoReadingYet
<1>3. guessed = FALSE /\ uploaded = FALSE /\ writes = {} /\ settings = NoProvider
  BY DEF ProvidersInit
<1>4. QED BY <1>1, <1>2, <1>3, IdsDiffer DEF Separated

\* The file's list and its answers come to a page that is in file mode.
LEMMA ModeStep ==
  ASSUME Separated,
         \/ ApplyStorageMode \/ LoadConfigInfo
         \/ ServeProfiles \/ LoadAIProfilesFromFile \/ LoadFromFileFails
  PROVE  Separated'
<1>1. CASE ApplyStorageMode
  <2>1. mode = "" /\ mode' = backend /\ backend' = backend /\ mode' \in {"file", "browser"}
    BY <1>1 DEF ApplyStorageMode, Separated
  <2>2. UNCHANGED <<settings, browserStore, guessed, writes, uploaded>>
    BY <1>1 DEF ApplyStorageMode, storeVars
  <2>3. reading'.stage # "none" => mode' = "file"
    BY <1>1, <2>1 DEF ApplyStorageMode, Separated
  <2>4. mode' # "file" => profiles' = browserStore.profiles
    BY <1>1 DEF ApplyStorageMode, LoadAIProfiles
  <2>5. QED BY <2>1, <2>2, <2>3, <2>4 DEF Separated
<1>2. CASE LoadConfigInfo
  BY <1>2 DEF LoadConfigInfo, Separated, pageProviderVars, storeVars, serviceVars
<1>3. CASE ServeProfiles
  BY <1>3 DEF ServeProfiles, Separated, pageProviderVars, storeVars
<1>4. CASE LoadAIProfilesFromFile
  <2>1. mode = "file" /\ mode' = mode /\ reading'.stage = "none"
    BY <1>4 DEF LoadAIProfilesFromFile, NoReadingYet, Separated
  <2>2. UNCHANGED <<backend, browserStore, guessed, writes, uploaded>>
    BY <1>4 DEF LoadAIProfilesFromFile, storeVars
  <2>3. QED BY <2>1, <2>2 DEF Separated
<1>5. CASE LoadFromFileFails
  BY <1>5 DEF LoadFromFileFails, NoReadingYet, Separated, pageProviderVars, storeVars
<1>6. QED BY <1>1, <1>2, <1>3, <1>4, <1>5

\* What the user chooses and edits in the page.
LEMMA FormStep ==
  ASSUME Separated,
         \/ \E p \in DOMAIN profiles \cup {NoProvider} : SelectAISettingsProvider(p)
         \/ \E p \in DOMAIN profiles : \E m \in profiles[p] : SelectAIModel(p, m)
         \/ SelectAIModel(NoProvider, NoModel)
         \/ \E m \in Models : AddAIModel(m) \/ DeleteAIModel(m)
  PROVE  Separated'
<1>1. ASSUME NEW p \in DOMAIN profiles \cup {NoProvider}, SelectAISettingsProvider(p)
      PROVE  Separated'
  BY <1>1, IdsDiffer DEF SelectAISettingsProvider, Separated, storeVars, serviceVars
<1>2. ASSUME NEW p, NEW m, SelectAIModel(p, m) PROVE Separated'
  <2>1. PersistAIProfiles /\ UNCHANGED <<mode, profiles, settings, writes, serviceVars, uploaded>>
    BY <1>2 DEF SelectAIModel
  <2>2. guessed' = (guessed \/ mode = "")
    BY <2>1 DEF PersistAIProfiles
  <2>3. QED BY <2>1, <2>2, Persisting DEF Separated
<1>3. ASSUME NEW m \in Models, AddAIModel(m) \/ DeleteAIModel(m) PROVE Separated'
  <2>1. PersistAIProfiles /\ UNCHANGED <<mode, settings, writes, serviceVars, uploaded>>
    BY <1>3 DEF AddAIModel, DeleteAIModel
  <2>2. DOMAIN profiles' = DOMAIN profiles
    <3>1. settings \in DOMAIN profiles
      BY <1>3 DEF AddAIModel, DeleteAIModel
    <3>2. \/ profiles' = With(profiles, settings, profiles[settings] \cup {m})
          \/ profiles' = With(profiles, settings, profiles[settings] \ {m})
      BY <1>3, Zenon DEF AddAIModel, DeleteAIModel
    <3>3. DOMAIN profiles' = DOMAIN profiles \cup {settings}
      BY <3>2, WithDomain, ZenonT(60)
    <3>4. QED BY <3>1, <3>3
  <2>3. guessed' = (guessed \/ mode = "")
    BY <2>1 DEF PersistAIProfiles
  <2>4. QED BY <2>1, <2>2, <2>3, Persisting DEF Separated
<1>4. QED BY <1>1, <1>2, <1>3

\* A save or a delete: the page keeps what it made, or asks the service.
LEMMA SendStep ==
  ASSUME Separated, mode # "browser", NEW w, Send(w),
         UNCHANGED <<pageProviderVars, browserStore, serviceVars, uploaded>>
  PROVE  Separated'
<1>1. guessed' = (guessed \/ mode = "")
  BY DEF Send
<1>2. ~guessed' => ~guessed /\ mode = "file"
  BY <1>1 DEF Separated
<1>3. QED BY <1>1, <1>2 DEF Separated, pageProviderVars, serviceVars

\* Saving the form.
LEMMA SaveStep ==
  ASSUME Separated, NEW added, SaveAIProfile(added) PROVE Separated'
<1> DEFINE known == IF settings \in DOMAIN profiles THEN profiles[settings] ELSE {}
           models == known \cup added
<1>1. UNCHANGED <<serviceVars, uploaded>>
  BY DEF SaveAIProfile
<1>2. CASE mode = "browser"
  <2>1. PICK p \in (IF settings = NoProvider THEN BrowserIds \ own ELSE {settings}) :
          ShowSaved(p, models) /\ UNCHANGED <<mode, writes>>
    BY <1>2 DEF SaveAIProfile
  <2>2. /\ DOMAIN profiles' = DOMAIN profiles \cup {p} /\ settings' = p
        /\ PersistAIProfiles /\ UNCHANGED <<mode, writes>>
    BY <2>1, WithDomain DEF ShowSaved
  <2>3. guessed' = (guessed \/ mode = "")
    BY <2>2 DEF PersistAIProfiles
  <2>4. ~guessed => p \notin FileIds
    BY <1>2, <2>1, IdsDiffer DEF Separated
  <2>5. ~guessed' => /\ writes' # {} => mode = "file"
                     /\ DOMAIN profiles' \intersect FileIds = {} /\ settings' \notin FileIds
    BY <1>2, <2>2, <2>3, <2>4 DEF Separated
  <2>6. QED BY <1>1, <2>2, <2>5, Persisting
<1>3. CASE mode # "browser"
  <2>1. /\ Send([kind |-> "save", id |-> settings, models |-> models, stage |-> ""])
        /\ UNCHANGED <<pageProviderVars, browserStore>>
    BY <1>3 DEF SaveAIProfile
  <2>2. QED BY <1>1, <1>3, <2>1, SendStep
<1>4. QED BY <1>2, <1>3

\* The form goes from a provider that is deleted to one that is left, or to none.
LEMMA DeleteShown ==
  ASSUME Separated, NEW p, ShowDeleted(p), mode' = mode, UNCHANGED <<serviceVars, uploaded>>,
         writes' \subseteq writes
  PROVE  Separated'
<1>1. DOMAIN profiles' \subseteq DOMAIN profiles
  BY WithoutDomain DEF ShowDeleted
<1>2. settings' \in DOMAIN profiles \cup {NoProvider} /\ PersistAIProfiles
  BY <1>1 DEF ShowDeleted
<1>3. guessed' = (guessed \/ mode = "")
  BY <1>2 DEF PersistAIProfiles
<1>4. QED BY <1>1, <1>2, <1>3, IdsDiffer, Persisting DEF Separated

\* Deleting the provider in the form.
LEMMA DeleteStep == Separated /\ DeleteAIProfile => Separated'
<1> SUFFICES ASSUME Separated, DeleteAIProfile PROVE Separated'
  OBVIOUS
<1>1. UNCHANGED <<serviceVars, uploaded>>
  BY DEF DeleteAIProfile
<1>2. CASE mode # "browser" /\ settings \in FileIds
  <2>1. /\ Send([kind |-> "delete", id |-> settings, models |-> {}, stage |-> ""])
        /\ UNCHANGED <<pageProviderVars, browserStore>>
    BY <1>2 DEF DeleteAIProfile
  <2>2. QED BY <1>1, <1>2, <2>1, SendStep
<1>3. CASE ~(mode # "browser" /\ settings \in FileIds)
  <2>1. ShowDeleted(settings) /\ UNCHANGED <<mode, writes>>
    BY <1>3 DEF DeleteAIProfile
  <2>2. QED BY <1>1, <2>1, DeleteShown
<1>4. QED BY <1>2, <1>3

\* A write is of a page in file mode, so its service has a file.
LEMMA WriteStep ==
  ASSUME Separated, NEW w,
         \/ \E value : CloseAIAdminTokenPrompt(w, value)
         \/ HandleAIProfiles(w)
         \/ WriteAnswered(w)
  PROVE  Separated'
<1>1. w \in writes
  BY DEF CloseAIAdminTokenPrompt, HandleAIProfiles, WriteAnswered
<1>2. ASSUME NEW value, CloseAIAdminTokenPrompt(w, value) PROVE Separated'
  BY <1>1, <1>2 DEF CloseAIAdminTokenPrompt, Separated, pageProviderVars, storeVars, serviceVars
<1>3. CASE HandleAIProfiles(w)
  <2>1. uploaded' = (uploaded \/ (w.kind = "save" /\ backend = "browser"))
    BY <1>3 DEF HandleAIProfiles
  <2>2. ~guessed => ~uploaded' /\ mode = "file"
    BY <1>1, <2>1 DEF Separated
  <2>3. UNCHANGED <<mode, profiles, settings, browserStore, guessed, backend, reading>>
    BY <1>3 DEF HandleAIProfiles, pageProviderVars, storeVars
  <2>4. QED BY <2>2, <2>3 DEF Separated
<1>4. CASE WriteAnswered(w)
  <2>1. mode' = mode /\ writes' \subseteq writes /\ UNCHANGED <<serviceVars, uploaded>>
    BY <1>4 DEF WriteAnswered
  <2>2. CASE w.kind = "delete"
    BY <1>4, <2>1, <2>2, DeleteShown DEF WriteAnswered
  <2>3. CASE w.kind # "delete"
    <3>1. PersistAIProfiles
      BY <1>4, <2>3 DEF WriteAnswered, ShowSaved
    <3>2. guessed' = (guessed \/ mode = "")
      BY <3>1 DEF PersistAIProfiles
    <3>3. ~guessed' => mode = "file"
      BY <1>1, <3>2 DEF Separated
    <3>4. QED BY <2>1, <3>1, <3>3, Persisting
  <2>4. QED BY <2>2, <2>3
<1>5. QED BY <1>2, <1>3, <1>4

\* Every step keeps the stores apart; a step of the chats touches neither.
LEMMA SeparatedStep == Separated /\ [PageNext]_<<vars, providerVars>> => Separated'
<1> SUFFICES ASSUME Separated, [PageNext]_<<vars, providerVars>> PROVE Separated'
  OBVIOUS
<1>1. CASE UNCHANGED providerVars
  BY <1>1 DEF providerVars, pageProviderVars, storeVars, serviceVars, Separated
<1>2. CASE ProvidersNext
  <2>1. ASSUME NEW added, SaveAIProfile(added) PROVE Separated'
    BY <2>1, SaveStep
  <2>2. CASE DeleteAIProfile
    BY <2>2, DeleteStep
  <2>3. ASSUME NEW p, OtherPage(p) PROVE Separated'
    BY <2>3 DEF OtherPage, Separated, pageProviderVars, storeVars
  <2>4. CASE ReloadProviders
    BY <2>4, IdsDiffer, EmptyDomain DEF ReloadProviders, Separated, NoReadingYet, storeVars
  <2>5. QED BY <1>2, <2>1, <2>2, <2>3, <2>4, ModeStep, FormStep, WriteStep DEF ProvidersNext
<1>3. QED BY <1>1, <1>2 DEF PageNext

\* The inductive invariant holds throughout (the storage mode the service decides,
\* applyStorageMode, and every handler that writes providers).
THEOREM SeparatedAlways == PageSpec => []Separated
<1>1. PageInit => Separated
  BY SeparatedInit DEF PageInit
<1>2. QED BY <1>1, SeparatedStep, PTL DEF PageSpec

\* Unless the user acted before the page knew its mode, a visitor's providers are
\* not uploaded and the file's leave no copy in localStorage (persistAIProfiles,
\* saveAIProfile, deleteAIProfile, handleAIProfiles), however many there are.
THEOREM ProvidersStayHomeAlways == PageSpec => []ProvidersStayHome
<1>1. Separated => ProvidersStayHome
  BY DEF Separated, ProvidersStayHome
<1>2. QED BY <1>1, SeparatedAlways, PTL
-----------------------------------------------------------------------------
(***************************************************************************)
(* ProvidersAreKept.                                                       *)
(***************************************************************************)
ProviderIds == FileIds \cup BrowserIds

\* The chosen provider is one of a list, with a model or the service's own.
ChosenOf(c, list) == c = None \/ \E p \in list : \E m : c = [provider |-> p, model |-> m]

IsWrite(w) == w = [kind |-> w.kind, id |-> w.id, models |-> w.models, stage |-> w.stage]

\* Identifiers say where a provider is: whatever comes from the service's file, in its
\* list, in an answer or in a write that was carried out, has an identifier of the file.
Named ==
  /\ DOMAIN profiles \subseteq ProviderIds /\ DOMAIN browserStore.profiles \subseteq ProviderIds
  /\ settings \in ProviderIds \cup {NoProvider}
  /\ mode = "file" => DOMAIN profiles \subseteq FileIds
  /\ DOMAIN fileStore \subseteq FileIds
  /\ reading.stage = "answered" => DOMAIN reading.answer \subseteq FileIds
  /\ \A w \in writes : IsWrite(w) /\ (w.stage = "done" => w.id \in FileIds)

\* A choice is one of the list it was made from, in the page and in localStorage.
Chosen ==
  /\ ChosenOf(chosen, DOMAIN profiles)
  /\ ChosenOf(browserStore.chosen, DOMAIN browserStore.profiles)
  /\ browserStore = [profiles |-> browserStore.profiles, chosen |-> browserStore.chosen]

\* What localStorage has: the list shown, and the providers this browser made.
Mirrored ==
  /\ mode = "browser" => browserStore = [profiles |-> profiles, chosen |-> chosen]
  /\ ~guessed => own = DOMAIN browserStore.profiles


Stored == Named /\ Chosen /\ Mirrored

\* A choice has a provider of the list it is from, or none.
LEMMA ChosenIsListed ==
  ASSUME NEW c, NEW list, ChosenOf(c, list)
  PROVE  c.provider \in list \cup {NoProvider}
  BY DEF ChosenOf, None

\* What persistAIProfiles leaves is right if what the page shows is.
LEMMA PersistingStored ==
  ASSUME Separated, Stored, PersistAIProfiles, mode' = mode, UNCHANGED <<fileStore, reading>>,
         ChosenOf(chosen', DOMAIN profiles'),
         DOMAIN profiles' \subseteq ProviderIds, settings' \in ProviderIds \cup {NoProvider},
         mode = "file" => DOMAIN profiles' \subseteq FileIds,
         \A w \in writes' : IsWrite(w) /\ (w.stage = "done" => w.id \in FileIds),
         ~guessed' /\ mode = "browser" => own' = DOMAIN profiles',
         mode = "file" => own' = own
  PROVE  Stored'
<1>1. guessed' = (guessed \/ mode = "")
  BY DEF PersistAIProfiles
<1>2. mode \in {"", "file", "browser"}
  BY DEF Separated
<1>3. CASE mode = "file"
  <2>1. browserStore' = browserStore
    BY <1>3 DEF PersistAIProfiles
  <2>2. Named'
    BY <2>1 DEF Stored, Named
  <2>3. Chosen'
    BY <2>1 DEF Stored, Chosen
  <2>4. Mirrored'
    <3>1. own' = own
      BY <1>3
    <3>2. QED BY <1>1, <1>3, <2>1, <3>1 DEF Stored, Mirrored
  <2>5. QED BY <2>2, <2>3, <2>4 DEF Stored
<1>4. CASE mode # "file"
  <2>1. browserStore' = [profiles |-> profiles', chosen |-> chosen']
    BY <1>4 DEF PersistAIProfiles
  <2>2. browserStore'.profiles = profiles' /\ browserStore'.chosen = chosen'
    BY <2>1
  <2>3. Named'
    BY <2>2 DEF Stored, Named
  <2>4. Chosen'
    BY <2>1, <2>2 DEF Chosen
  <2>5. Mirrored'
    <3>1. ~guessed' => mode = "browser"
      BY <1>1, <1>2, <1>4
    <3>2. ~guessed' => own' = DOMAIN browserStore'.profiles
      BY <2>2, <3>1
    <3>3. QED BY <2>1, <3>2 DEF Mirrored
  <2>6. QED BY <2>3, <2>4, <2>5 DEF Stored
<1>5. QED BY <1>3, <1>4

\* A page that has just been opened shows nothing, and nothing is stored.
LEMMA StoredInit == ProvidersInit => Stored
<1> SUFFICES ASSUME ProvidersInit PROVE Stored
  OBVIOUS
<1>1. /\ mode = "" /\ profiles = Empty /\ chosen = None /\ settings = NoProvider
      /\ fileStore = Empty /\ reading = NoReadingYet /\ writes = {} /\ own = {}
  BY DEF ProvidersInit
<1>2. browserStore = [profiles |-> Empty, chosen |-> None]
  BY DEF ProvidersInit
<1>3. browserStore.profiles = Empty /\ browserStore.chosen = None
  BY <1>2
<1>4. Named
  BY <1>1, <1>3, EmptyDomain DEF Named, NoReadingYet
<1>5. Chosen
  BY <1>1, <1>2, <1>3 DEF Chosen, ChosenOf
<1>6. Mirrored
  BY <1>1, <1>3, EmptyDomain DEF Mirrored
<1>7. QED BY <1>4, <1>5, <1>6 DEF Stored

\* The list comes from localStorage with its choice, or from the file.
LEMMA ModeStored ==
  ASSUME Separated, Stored,
         \/ ApplyStorageMode \/ LoadConfigInfo
         \/ ServeProfiles \/ LoadAIProfilesFromFile \/ LoadFromFileFails
  PROVE  Stored'
<1>1. CASE ApplyStorageMode
  <2>0. /\ mode' \in {"file", "browser"} /\ LoadAIProfiles(mode')
        /\ UNCHANGED <<settings, browserStore, guessed, own, fileStore, writes>>
    BY <1>1 DEF ApplyStorageMode, storeVars, Separated
  <2>r. reading'.stage = "answered" => reading' = reading
    <3>1. reading' = reading \/ reading' = [reading EXCEPT !.stage = "asked"]
      BY <1>1 DEF ApplyStorageMode
    <3>2. CASE reading' = [reading EXCEPT !.stage = "asked"]
      <4>1. PICK p : p = [reading EXCEPT !.stage = "asked"]
        OBVIOUS
      <4>2. CASE "stage" \in DOMAIN reading
        <5>1. reading'.stage = "asked"
          BY <3>2, <4>2
        <5>2. QED BY <5>1
      <4>3. CASE "stage" \notin DOMAIN reading
        BY <3>2, <4>3
      <4>4. QED BY <4>2, <4>3
    <3>3. QED BY <3>1, <3>2
  <2>1. /\ mode' \in {"file", "browser"} /\ LoadAIProfiles(mode')
        /\ reading'.stage = "answered" => reading' = reading
        /\ UNCHANGED <<settings, browserStore, guessed, own, fileStore, writes>>
    BY <2>0, <2>r
  <2>2. CASE mode' = "file"
    <3>1. profiles' = Empty /\ chosen' = None
      BY <2>1, <2>2 DEF LoadAIProfiles
    <3>2. DOMAIN profiles' = {}
      BY <3>1, EmptyDomain
    <3>3. Named'
      BY <2>1, <3>2 DEF Stored, Named
    <3>4. Chosen'
      BY <2>1, <3>1 DEF Stored, Chosen, ChosenOf
    <3>5. Mirrored'
      BY <2>1, <2>2 DEF Stored, Mirrored
    <3>6. QED BY <3>3, <3>4, <3>5 DEF Stored
  <2>3. CASE mode' = "browser"
    <3>1. /\ profiles' = browserStore.profiles
          /\ chosen' = IF browserStore.chosen.provider \in DOMAIN profiles' THEN browserStore.chosen ELSE None
      BY <2>1, <2>3 DEF LoadAIProfiles
    <3>2. chosen' = browserStore.chosen
      <4>1. CASE browserStore.chosen = None
        BY <3>1, <4>1
      <4>2. CASE browserStore.chosen # None
        <5>1. browserStore.chosen.provider \in DOMAIN browserStore.profiles
          BY <4>2 DEF Stored, Chosen, ChosenOf
        <5>2. QED BY <3>1, <5>1
      <4>3. QED BY <4>1, <4>2
    <3>3. Named'
      BY <2>1, <2>3, <3>1 DEF Stored, Named
    <3>4. Chosen'
      BY <2>1, <3>1, <3>2 DEF Stored, Chosen
    <3>5. Mirrored'
      BY <2>1, <3>1, <3>2 DEF Stored, Mirrored, Chosen
    <3>6. QED BY <3>3, <3>4, <3>5 DEF Stored
  <2>4. QED BY <2>1, <2>2, <2>3
<1>2. CASE LoadConfigInfo
  BY <1>2 DEF LoadConfigInfo, Stored, Named, Chosen, Mirrored, pageProviderVars, storeVars, serviceVars
<1>3. CASE ServeProfiles
  <2>1. reading'.stage = "answered" /\ reading'.answer = fileStore
    BY <1>3 DEF ServeProfiles
  <2>2. UNCHANGED <<mode, profiles, chosen, settings, browserStore, guessed, own, fileStore, writes>>
    BY <1>3 DEF ServeProfiles, pageProviderVars, storeVars
  <2>3. Named'
    BY <2>1, <2>2 DEF Stored, Named
  <2>4. QED BY <2>2, <2>3 DEF Stored, Chosen, Mirrored
<1>4. CASE LoadAIProfilesFromFile
  <2>1. mode = "file" /\ mode' = mode /\ reading.stage = "answered" /\ reading'.stage = "none"
    BY <1>4 DEF LoadAIProfilesFromFile, NoReadingYet, Separated
  <2>2. UNCHANGED <<settings, browserStore, guessed, own, fileStore, writes>>
    BY <1>4 DEF LoadAIProfilesFromFile, storeVars
  <2>3. profiles' = reading.answer
    BY <1>4 DEF LoadAIProfilesFromFile
  <2>4. DOMAIN profiles' \subseteq FileIds
    BY <2>1, <2>3 DEF Stored, Named
  <2>5. Named'
    BY <2>1, <2>2, <2>4 DEF Stored, Named, ProviderIds
  <2>6. ChosenOf(chosen', DOMAIN profiles')
    <3>1. CASE chosen.provider \in DOMAIN profiles'
      <4>1. chosen' = IF profiles'[chosen.provider] = {} THEN [chosen EXCEPT !.model = NoModel] ELSE chosen
        BY <1>4, <3>1 DEF LoadAIProfilesFromFile
      <4>2. PICK p, m : chosen = [provider |-> p, model |-> m]
        BY DEF Stored, Chosen, ChosenOf, None
      <4>3. p \in DOMAIN profiles'
        BY <3>1, <4>2
      <4>4. chosen' = [provider |-> p, model |-> NoModel] \/ chosen' = [provider |-> p, model |-> m]
        BY <4>1, <4>2
      <4>5. QED BY <4>3, <4>4, Zenon DEF ChosenOf
    <3>2. CASE chosen.provider \notin DOMAIN profiles'
      <4>1. \/ chosen' = None
            \/ \E p \in DOMAIN profiles' : chosen' = [provider |-> p, model |-> FirstModel(profiles'[p])]
        BY <1>4, <3>2, Zenon DEF LoadAIProfilesFromFile
      <4>2. QED BY <4>1, Zenon DEF ChosenOf
    <3>3. QED BY <3>1, <3>2
  <2>7. Chosen'
    BY <2>2, <2>6 DEF Stored, Chosen
  <2>8. Mirrored'
    BY <2>1, <2>2 DEF Stored, Mirrored
  <2>9. QED BY <2>5, <2>7, <2>8 DEF Stored
<1>5. CASE LoadFromFileFails
  <2>1. reading'.stage = "none"
    BY <1>5 DEF LoadFromFileFails, NoReadingYet
  <2>2. UNCHANGED <<mode, profiles, chosen, settings, browserStore, guessed, own, fileStore, writes>>
    BY <1>5 DEF LoadFromFileFails, pageProviderVars, storeVars
  <2>3. QED BY <2>1, <2>2 DEF Stored, Named, Chosen, Mirrored
<1>6. QED BY <1>1, <1>2, <1>3, <1>4, <1>5

\* What the user chooses in the lists, and the models in the form.
LEMMA FormStored ==
  ASSUME Separated, Stored,
         \/ \E p \in DOMAIN profiles \cup {NoProvider} : SelectAISettingsProvider(p)
         \/ \E p \in DOMAIN profiles : \E m \in profiles[p] : SelectAIModel(p, m)
         \/ SelectAIModel(NoProvider, NoModel)
         \/ \E m \in Models : AddAIModel(m) \/ DeleteAIModel(m)
  PROVE  Stored'
<1>1. ASSUME NEW p \in DOMAIN profiles \cup {NoProvider}, SelectAISettingsProvider(p)
      PROVE  Stored'
  <2>1. settings' \in ProviderIds \cup {NoProvider}
    BY <1>1 DEF SelectAISettingsProvider, Stored, Named
  <2>2. UNCHANGED <<mode, profiles, chosen, browserStore, guessed, own, fileStore, reading, writes>>
    BY <1>1 DEF SelectAISettingsProvider, storeVars, serviceVars
  <2>3. Named'
    BY <2>1, <2>2 DEF Stored, Named
  <2>4. QED BY <2>2, <2>3 DEF Stored, Chosen, Mirrored
<1>2. ASSUME NEW p, NEW m, SelectAIModel(p, m),
             p \in DOMAIN profiles \/ (p = NoProvider /\ m = NoModel)
      PROVE  Stored'
  <2>1. /\ PersistAIProfiles /\ UNCHANGED <<mode, profiles, settings, own, fileStore, reading, writes>>
        /\ chosen' = [provider |-> p, model |-> m]
    BY <1>2 DEF SelectAIModel, serviceVars
  <2>2. ChosenOf(chosen', DOMAIN profiles')
    <3>1. CASE p \in DOMAIN profiles
      BY <2>1, <3>1 DEF ChosenOf
    <3>2. CASE p = NoProvider /\ m = NoModel
      BY <2>1, <3>2 DEF ChosenOf, None
    <3>3. QED BY <1>2, <3>1, <3>2
  <2>3. ~guessed' /\ mode = "browser" => own' = DOMAIN profiles'
    <3>1. ~guessed' => ~guessed
      BY <2>1 DEF PersistAIProfiles
    <3>2. mode = "browser" => browserStore.profiles = profiles
      BY DEF Stored, Mirrored
    <3>3. ~guessed /\ mode = "browser" => own = DOMAIN profiles
      BY <3>2 DEF Stored, Mirrored
    <3>4. QED BY <2>1, <3>1, <3>3
  <2>4. /\ DOMAIN profiles' \subseteq ProviderIds /\ settings' \in ProviderIds \cup {NoProvider}
        /\ mode = "file" => DOMAIN profiles' \subseteq FileIds
        /\ \A w \in writes' : IsWrite(w) /\ (w.stage = "done" => w.id \in FileIds)
    BY <2>1 DEF Stored, Named
  <2>5. QED BY <2>1, <2>2, <2>3, <2>4, PersistingStored
<1>3. ASSUME NEW m \in Models, AddAIModel(m) \/ DeleteAIModel(m) PROVE Stored'
  <2>1. /\ PersistAIProfiles /\ UNCHANGED <<mode, settings, own, fileStore, reading, writes>>
        /\ settings \in DOMAIN profiles
    BY <1>3 DEF AddAIModel, DeleteAIModel, serviceVars
  <2>2. DOMAIN profiles' = DOMAIN profiles
    <3>1. \/ profiles' = With(profiles, settings, profiles[settings] \cup {m})
          \/ profiles' = With(profiles, settings, profiles[settings] \ {m})
      BY <1>3, Zenon DEF AddAIModel, DeleteAIModel
    <3>2. DOMAIN profiles' = DOMAIN profiles \cup {settings}
      BY <3>1, WithDomain, ZenonT(60)
    <3>3. QED BY <2>1, <3>2
  <2>3. ChosenOf(chosen', DOMAIN profiles')
    <3>1. CASE chosen' = chosen
      BY <2>2, <3>1 DEF Stored, Chosen
    <3>2. CASE chosen' # chosen
      <4>1. PICK first : chosen' = [chosen EXCEPT !.model = first] /\ chosen = [provider |-> settings, model |-> m]
        BY <1>3, <3>2, Zenon DEF AddAIModel, DeleteAIModel
      <4>2. chosen' = [provider |-> settings, model |-> first]
        BY <4>1
      <4>3. QED BY <2>1, <2>2, <4>2, Zenon DEF ChosenOf
    <3>3. QED BY <3>1, <3>2
  <2>4. ~guessed' /\ mode = "browser" => own' = DOMAIN profiles'
    <3>1. ~guessed' => ~guessed
      BY <2>1 DEF PersistAIProfiles
    <3>2. mode = "browser" => browserStore.profiles = profiles
      BY DEF Stored, Mirrored
    <3>3. ~guessed /\ mode = "browser" => own = DOMAIN profiles
      BY <3>2 DEF Stored, Mirrored
    <3>4. QED BY <2>1, <2>2, <3>1, <3>3
  <2>5. /\ DOMAIN profiles' \subseteq ProviderIds /\ settings' \in ProviderIds \cup {NoProvider}
        /\ mode = "file" => DOMAIN profiles' \subseteq FileIds
        /\ \A w \in writes' : IsWrite(w) /\ (w.stage = "done" => w.id \in FileIds)
    BY <2>1, <2>2 DEF Stored, Named
  <2>6. QED BY <2>1, <2>3, <2>4, <2>5, PersistingStored
<1>4. QED BY <1>1, <1>2, <1>3

\* A write that is sent, or waits for its token, has not been carried out.
LEMMA SendStored ==
  ASSUME Separated, Stored, mode # "browser",
         NEW kind, NEW id, NEW models, Send([kind |-> kind, id |-> id, models |-> models, stage |-> ""]),
         UNCHANGED <<pageProviderVars, browserStore, own, fileStore, reading>>
  PROVE  Stored'
<1> DEFINE w == [kind |-> kind, id |-> id, models |-> models, stage |-> ""]
<1>1. guessed' = (guessed \/ mode = "") /\ writes' = writes \cup {Sent(w)}
  BY DEF Send
<1>2. \/ Sent(w) = [kind |-> kind, id |-> id, models |-> models, stage |-> "prompt"]
      \/ Sent(w) = [kind |-> kind, id |-> id, models |-> models, stage |-> "sent"]
  <2>1. \/ Sent(w) = [w EXCEPT !.stage = "prompt"]
        \/ Sent(w) = [w EXCEPT !.stage = "sent"]
    <3> HIDE DEF w
    <3>1. QED BY DEF Sent
  <2>2. QED BY <2>1
<1>3. IsWrite(Sent(w)) /\ Sent(w).stage # "done"
  <2>1. ASSUME NEW s, s # "done", NEW v, v = [kind |-> kind, id |-> id, models |-> models, stage |-> s]
        PROVE  IsWrite(v) /\ v.stage # "done"
    BY <2>1 DEF IsWrite
  <2>2. PICK v : v = Sent(w)
    OBVIOUS
  <2>3. CASE v = [kind |-> kind, id |-> id, models |-> models, stage |-> "prompt"]
    <3>1. IsWrite(v) /\ v.stage # "done"
      BY <2>1, <2>3
    <3>2. QED BY <2>2, <3>1
  <2>4. CASE v = [kind |-> kind, id |-> id, models |-> models, stage |-> "sent"]
    <3>1. IsWrite(v) /\ v.stage # "done"
      BY <2>1, <2>4
    <3>2. QED BY <2>2, <3>1
  <2>5. QED BY <1>2, <2>2, <2>3, <2>4
<1>4. UNCHANGED <<mode, profiles, chosen, settings>>
  BY DEF pageProviderVars
<1>5. Named'
  BY <1>1, <1>3, <1>4 DEF Stored, Named
<1>6. Chosen' /\ Mirrored'
  BY <1>1, <1>4 DEF Stored, Chosen, Mirrored
<1>7. QED BY <1>5, <1>6 DEF Stored

\* What a save leaves in the page, of a provider with an identifier of its place.
LEMMA SaveShownStored ==
  ASSUME Separated, Stored, NEW p \in ProviderIds, NEW models, ShowSaved(p, models),
         mode' = mode, UNCHANGED <<fileStore, reading>>, writes' \subseteq writes,
         mode = "file" => p \in FileIds /\ own' = own,
         ~guessed' /\ mode = "browser" => own' = DOMAIN profiles \cup {p}
  PROVE  Stored'
<1>1. DOMAIN profiles' = DOMAIN profiles \cup {p} /\ settings' = p /\ PersistAIProfiles
  BY WithDomain DEF ShowSaved
<1>2. ChosenOf(chosen', DOMAIN profiles')
  <2>1. \E m : chosen' = [provider |-> p, model |-> m]
    BY Zenon DEF ShowSaved
  <2>2. QED BY <1>1, <2>1 DEF ChosenOf
<1>3. /\ DOMAIN profiles' \subseteq ProviderIds /\ settings' \in ProviderIds \cup {NoProvider}
      /\ mode = "file" => DOMAIN profiles' \subseteq FileIds
      /\ \A w \in writes' : IsWrite(w) /\ (w.stage = "done" => w.id \in FileIds)
  BY <1>1 DEF Stored, Named
<1>4. ~guessed' /\ mode = "browser" => own' = DOMAIN profiles'
  BY <1>1
<1>5. QED BY <1>1, <1>2, <1>3, <1>4, PersistingStored

\* What a deletion leaves in the page: the choice goes with its provider.
LEMMA DeleteShownStored ==
  ASSUME Separated, Stored, NEW p, ShowDeleted(p),
         mode' = mode, UNCHANGED <<fileStore, reading>>, writes' \subseteq writes,
         mode = "file" => own' = own,
         ~guessed' /\ mode = "browser" => own' = DOMAIN profiles \ {p}
  PROVE  Stored'
<1>1. DOMAIN profiles' = DOMAIN profiles \ {p} /\ PersistAIProfiles
  BY WithoutDomain DEF ShowDeleted
<1>2. settings' \in DOMAIN profiles' \cup {NoProvider}
  BY DEF ShowDeleted
<1>3. ChosenOf(chosen', DOMAIN profiles')
  <2>1. chosen' = IF chosen.provider = p THEN None ELSE chosen
    BY DEF ShowDeleted
  <2>2. CASE chosen = None
    BY <2>1, <2>2 DEF ChosenOf
  <2>3. CASE chosen # None
    <3>1. PICK q \in DOMAIN profiles : \E m : chosen = [provider |-> q, model |-> m]
      BY <2>3 DEF Stored, Chosen, ChosenOf
    <3>2. PICK m : chosen = [provider |-> q, model |-> m]
      BY <3>1
    <3>3. chosen' = None \/ (q # p /\ chosen' = [provider |-> q, model |-> m])
      BY <2>1, <3>2
    <3>4. QED BY <1>1, <3>3 DEF ChosenOf
  <2>4. QED BY <2>2, <2>3
<1>4. /\ DOMAIN profiles' \subseteq ProviderIds /\ settings' \in ProviderIds \cup {NoProvider}
      /\ mode = "file" => DOMAIN profiles' \subseteq FileIds
      /\ \A w \in writes' : IsWrite(w) /\ (w.stage = "done" => w.id \in FileIds)
  BY <1>1, <1>2 DEF Stored, Named
<1>5. ~guessed' /\ mode = "browser" => own' = DOMAIN profiles'
  BY <1>1
<1>6. QED BY <1>1, <1>3, <1>4, <1>5, PersistingStored

\* The buttons of the form: a save or a delete stays in the page or is sent.
LEMMA ButtonStored ==
  ASSUME Separated, Stored, DeleteAIProfile \/ \E added : SaveAIProfile(added)
  PROVE  Stored'
<1>1. ASSUME NEW added, SaveAIProfile(added) PROVE Stored'
  <2> DEFINE known == IF settings \in DOMAIN profiles THEN profiles[settings] ELSE {}
             models == known \cup added
  <2>1. UNCHANGED <<fileStore, reading>>
    BY <1>1 DEF SaveAIProfile, serviceVars
  <2>2. CASE mode = "browser"
    <3>1. PICK p \in (IF settings = NoProvider THEN BrowserIds \ own ELSE {settings}) :
            ShowSaved(p, models) /\ own' = own \cup {p} /\ UNCHANGED <<mode, writes>>
      BY <1>1, <2>2 DEF SaveAIProfile
    <3>2. p \in ProviderIds
      BY <3>1 DEF Stored, Named, ProviderIds
    <3>3. own = DOMAIN profiles \/ guessed
      BY <2>2 DEF Stored, Mirrored
    <3>4. ~guessed' => ~guessed
      BY <2>2, <3>1 DEF ShowSaved, PersistAIProfiles
    <3>5. QED BY <2>1, <2>2, <3>1, <3>2, <3>3, <3>4, SaveShownStored
  <2>3. CASE mode # "browser"
    <3>1. /\ Send([kind |-> "save", id |-> settings, models |-> models, stage |-> ""])
          /\ UNCHANGED <<pageProviderVars, browserStore, own>>
      BY <1>1, <2>3 DEF SaveAIProfile
    <3>2. QED BY <2>1, <2>3, <3>1, SendStored
  <2>4. QED BY <2>2, <2>3
<1>2. CASE DeleteAIProfile
  <2>1. UNCHANGED <<fileStore, reading>> /\ settings \in DOMAIN profiles
    BY <1>2 DEF DeleteAIProfile, serviceVars
  <2>2. CASE mode # "browser" /\ settings \in FileIds
    <3>1. /\ Send([kind |-> "delete", id |-> settings, models |-> {}, stage |-> ""])
          /\ UNCHANGED <<pageProviderVars, browserStore, own>>
      BY <1>2, <2>2 DEF DeleteAIProfile
    <3>2. QED BY <2>1, <2>2, <3>1, SendStored
  <2>3. CASE ~(mode # "browser" /\ settings \in FileIds)
    <3>1. ShowDeleted(settings) /\ own' = own \ {settings} /\ UNCHANGED <<mode, writes>>
      BY <1>2, <2>3 DEF DeleteAIProfile
    <3>2. mode # "file"
      BY <2>1, <2>3 DEF Stored, Named
    <3>3. mode = "browser" => own = DOMAIN profiles \/ guessed
      BY DEF Stored, Mirrored
    <3>4. ~guessed' => ~guessed
      BY <3>1 DEF ShowDeleted, PersistAIProfiles
    <3>5. QED BY <2>1, <3>1, <3>2, <3>3, <3>4, DeleteShownStored
  <2>4. QED BY <2>2, <2>3
<1>3. QED BY <1>1, <1>2

\* A write on its way: what the service carries out has an identifier of the file.
LEMMA WriteStored ==
  ASSUME Separated, Stored, NEW w,
         \/ \E value : CloseAIAdminTokenPrompt(w, value)
         \/ HandleAIProfiles(w)
         \/ WriteAnswered(w)
  PROVE  Stored'
<1>1. w \in writes /\ IsWrite(w)
  BY DEF CloseAIAdminTokenPrompt, HandleAIProfiles, WriteAnswered, Stored, Named
<1>2. PICK kind, id, models, stage : w = [kind |-> kind, id |-> id, models |-> models, stage |-> stage]
  BY <1>1 DEF IsWrite
<1>3. ASSUME NEW value, CloseAIAdminTokenPrompt(w, value) PROVE Stored'
  <2>1. [w EXCEPT !.stage = "sent"] = [kind |-> kind, id |-> id, models |-> models, stage |-> "sent"]
    BY <1>2
  <2>2. PICK v : v = [kind |-> kind, id |-> id, models |-> models, stage |-> "sent"]
    OBVIOUS
  <2>3. writes' \subseteq writes \cup {v}
    BY <1>3, <2>1, <2>2 DEF CloseAIAdminTokenPrompt
  <2>4. IsWrite(v) /\ v.stage # "done"
    BY <2>2 DEF IsWrite
  <2>5. UNCHANGED <<mode, profiles, chosen, settings, browserStore, guessed, own, fileStore, reading>>
    BY <1>3 DEF CloseAIAdminTokenPrompt, pageProviderVars, storeVars, serviceVars
  <2>6. Named'
    BY <2>3, <2>4, <2>5 DEF Stored, Named
  <2>7. QED BY <2>5, <2>6 DEF Stored, Chosen, Mirrored
<1>4. CASE HandleAIProfiles(w)
  <2>1. UNCHANGED <<mode, profiles, chosen, settings, browserStore, guessed, own, reading>>
    BY <1>4 DEF HandleAIProfiles, pageProviderVars, storeVars
  <2>2. CASE writes' = writes \ {w} /\ UNCHANGED fileStore
    <3>1. Named'
      BY <2>1, <2>2 DEF Stored, Named
    <3>2. QED BY <2>1, <3>1 DEF Stored, Chosen, Mirrored
  <2>3. CASE ~(writes' = writes \ {w} /\ UNCHANGED fileStore)
    <3>1. PICK file \in FileIds :
            /\ fileStore' = IF w.kind = "delete" THEN Without(fileStore, file) ELSE With(fileStore, file, w.models)
            /\ writes' = {[w EXCEPT !.stage = "done", !.id = file]} \cup (writes \ {w})
      BY <1>4, <2>3 DEF HandleAIProfiles
    <3>2. [w EXCEPT !.stage = "done", !.id = file] = [kind |-> kind, id |-> file, models |-> models, stage |-> "done"]
      <4>1. PICK u : u = [kind |-> kind, id |-> id, models |-> models, stage |-> stage]
        OBVIOUS
      <4>2. PICK d : d = [kind |-> kind, id |-> id, models |-> models, stage |-> "done"]
        OBVIOUS
      <4>3. [u EXCEPT !.stage = "done"] = d
        BY <4>1, <4>2
      <4>4. [d EXCEPT !.id = file] = [kind |-> kind, id |-> file, models |-> models, stage |-> "done"]
        BY <4>2
      <4>5. [u EXCEPT !.stage = "done", !.id = file] = [[u EXCEPT !.stage = "done"] EXCEPT !.id = file]
        OBVIOUS
      <4>6. QED BY <1>2, <4>1, <4>3, <4>4, <4>5
    <3>3. PICK v : v = [kind |-> kind, id |-> file, models |-> models, stage |-> "done"]
      OBVIOUS
    <3>4. writes' \subseteq writes \cup {v} /\ IsWrite(v) /\ v.id \in FileIds
      BY <3>1, <3>2, <3>3 DEF IsWrite
    <3>5. DOMAIN fileStore' \subseteq DOMAIN fileStore \cup {file}
      <4>1. \/ fileStore' = Without(fileStore, file)
            \/ fileStore' = With(fileStore, file, w.models)
        BY <3>1, Zenon
      <4>2. /\ DOMAIN Without(fileStore, file) = DOMAIN fileStore \ {file}
            /\ DOMAIN With(fileStore, file, w.models) = DOMAIN fileStore \cup {file}
        BY WithDomain, WithoutDomain
      <4>3. \/ DOMAIN fileStore' = DOMAIN fileStore \ {file}
            \/ DOMAIN fileStore' = DOMAIN fileStore \cup {file}
        BY <4>1, <4>2
      <4>4. QED BY <4>3
    <3>6. Named'
      BY <2>1, <3>4, <3>5 DEF Stored, Named
    <3>7. QED BY <2>1, <3>6 DEF Stored, Chosen, Mirrored
  <2>4. QED BY <2>2, <2>3
<1>5. CASE WriteAnswered(w)
  <2>1. /\ writes' \subseteq writes /\ w.id \in FileIds
        /\ UNCHANGED <<mode, own, fileStore, reading>>
    BY <1>5 DEF WriteAnswered, serviceVars, Stored, Named
  <2>2. ~guessed' => mode = "file"
    <3>1. PersistAIProfiles
      BY <1>5 DEF WriteAnswered, ShowDeleted, ShowSaved
    <3>2. QED BY <1>1, <3>1 DEF PersistAIProfiles, Separated
  <2>3. w.id \in ProviderIds
    BY <2>1 DEF ProviderIds
  <2>4. CASE w.kind = "delete"
    <3>1. ShowDeleted(w.id)
      BY <1>5, <2>4 DEF WriteAnswered
    <3>2. QED BY <2>1, <2>2, <3>1, DeleteShownStored
  <2>5. CASE w.kind # "delete"
    <3>1. ShowSaved(w.id, w.models)
      BY <1>5, <2>5 DEF WriteAnswered
    <3>2. QED BY <2>1, <2>2, <2>3, <3>1, SaveShownStored
  <2>6. QED BY <2>4, <2>5
<1>6. QED BY <1>3, <1>4, <1>5

\* Every step keeps lists, choices and localStorage together.
LEMMA StoredStep == Separated /\ Stored /\ [PageNext]_<<vars, providerVars>> => Stored'
<1> SUFFICES ASSUME Separated, Stored, [PageNext]_<<vars, providerVars>> PROVE Stored'
  OBVIOUS
<1>1. CASE UNCHANGED providerVars
  BY <1>1 DEF providerVars, pageProviderVars, storeVars, serviceVars, Stored, Named, Chosen, Mirrored
<1>2. CASE ProvidersNext
  <2>1. ASSUME NEW p, OtherPage(p) PROVE Stored'
    <3>1. DOMAIN fileStore' \subseteq DOMAIN fileStore
      BY <2>1, WithoutDomain DEF OtherPage
    <3>2. UNCHANGED <<mode, profiles, chosen, settings, browserStore, guessed, own, reading, writes>>
      BY <2>1 DEF OtherPage, pageProviderVars, storeVars
    <3>3. Named'
      BY <3>1, <3>2 DEF Stored, Named
    <3>4. QED BY <3>2, <3>3 DEF Stored, Chosen, Mirrored
  <2>2. CASE ReloadProviders
    <3>1. /\ mode' = "" /\ profiles' = Empty /\ chosen' = None /\ settings' = NoProvider
          /\ reading' = NoReadingYet /\ writes' = {}
          /\ UNCHANGED <<browserStore, guessed, own, fileStore>>
      BY <2>2 DEF ReloadProviders, storeVars
    <3>2. Named'
      BY <3>1, EmptyDomain DEF Stored, Named, NoReadingYet
    <3>3. Chosen' /\ Mirrored'
      BY <3>1 DEF Stored, Chosen, ChosenOf, Mirrored
    <3>4. QED BY <3>2, <3>3 DEF Stored
  <2>3. QED BY <1>2, <2>1, <2>2, ModeStored, FormStored, ButtonStored, WriteStored DEF ProvidersNext
<1>3. QED BY <1>1, <1>2 DEF PageNext

\* The inductive invariant holds throughout (every handler that ends in
\* persistAIProfiles, applyStorageMode and the answers of /api/ai/profiles).
THEOREM StoredAlways == PageSpec => [](Separated /\ Stored)
<1>1. PageInit => Separated /\ Stored
  BY SeparatedInit, StoredInit DEF PageInit
<1>2. QED BY <1>1, SeparatedStep, StoredStep, PTL DEF PageSpec

\* The chosen provider is one of the list, a browser's page shows what the next one
\* will, and no provider this browser made is lost unless the user deletes it
\* (persistAIProfiles, loadAIProfiles, saveAIProfile, deleteAIProfile).
THEOREM ProvidersAreKeptAlways == PageSpec => []ProvidersAreKept
<1>1. Separated /\ Stored => ProvidersAreKept
  BY ChosenIsListed DEF Stored, Chosen, Mirrored, ProvidersAreKept
<1>2. QED BY <1>1, StoredAlways, PTL

(***************************************************************************)
(* The scope of the page (LogScope): for every set of nodes, containers,    *)
(* ranges and texts, every list the service may come to have and every      *)
(* bound.                                                                   *)
(***************************************************************************)
\* A scope that the page may have.
Scope(nodes, containers, multi, hidden) ==
  /\ nodes \in Seq(Nodes) /\ IsInjective(nodes)
  /\ containers \in Seq(Containers) /\ IsInjective(containers)
  /\ multi \in BOOLEAN /\ hidden \subseteq Containers
  /\ \A c \in ToSet(containers) : NodeOf[c] \in ToSet(nodes) /\ c \notin hidden
  /\ multi \/ Len(nodes) <= 1

NothingStored == [nodes |-> <<>>, containers |-> <<>>, multi |-> FALSE, hidden |-> {}]

ScopeKept ==
  /\ Scope(selectedNodes, selectedContainers, multiSelect, hiddenContainers)
  /\ storageWorks \in BOOLEAN
  /\ storedScope = IF storageWorks THEN [nodes |-> selectedNodes, containers |-> selectedContainers,
                                    multi |-> multiSelect, hidden |-> hiddenContainers]
              ELSE NothingStored

\* What the service may answer.
Answer(a) ==
  /\ a.list.nodes \subseteq Nodes /\ a.list.containers \subseteq Of(a.list.nodes)
  /\ a.range \in HistoryRanges

ListKept ==
  /\ Answer(server) /\ \A a \in underway : Answer(a)
  /\ shown \subseteq Nodes /\ discovered \subseteq Of(shown) /\ keptContainers \subseteq Containers

FeedKept ==
  /\ {paused, connected} \subseteq BOOLEAN
  /\ range \in HistoryRanges /\ rangePosts \subseteq RangePost

LoadsKept == fetched \subseteq cache /\ cache \subseteq Containers /\ loads \in [Slots -> Slot]

\* A search is of containers that were selected when the text was typed, of the text
\* as long as nothing else has been typed, and of the range unless a poll moved it.
OfItsQuery(s, text) ==
  /\ s.asked[2] \subseteq ToSet(s.key[2]) /\ text \in {s.asked[3], NoText}
  /\ s.moved \/ s.asked[1] = s.key[1]
TimerKept ==
  searchTimer.key # <<>> => /\ ToSet(selectedContainers) \subseteq ToSet(searchTimer.key[2])
                            /\ searchTimer.moved \/ searchTimer.key[1] = range
SearchKept ==
  /\ TimerKept
  /\ \A s \in searches : s.current => OfItsQuery(s, query)
  /\ found.key # <<>> => OfItsQuery(found, query)

TextKept == query \in Texts \cup {NoText} /\ globalQuery \in BOOLEAN
ClicksKept == clicks \in 0..MaxClicks /\ mishaps \in 0..MaxMishaps

\* What every handler keeps of the page.
PageKept == ScopeKept /\ ListKept /\ FeedKept /\ LoadsKept /\ SearchKept /\ TextKept /\ ClicksKept

(***************************************************************************)
(* Lists without repetition.                                               *)
(***************************************************************************)
\* A list in which nothing comes twice.
Plain(S, q) == q \in Seq(S) /\ IsInjective(q)

\* Of a plain list a filter leaves a plain list of what passes; it leaves a list that
\* passes whole as it is.
LEMMA WithinPlain ==
  ASSUME NEW S, NEW q, Plain(S, q), NEW T
  PROVE  /\ Plain(S, Within(q, T)) /\ ToSet(Within(q, T)) = ToSet(q) \cap T
         /\ Len(Within(q, T)) <= Len(q)
         /\ ToSet(q) \subseteq T => Within(q, T) = q
<1> DEFINE kept == {i \in DOMAIN q : q[i] \in T}
           n == Len(q)
           w == Picked(q, kept)
<1>1. q \in Seq(S) /\ n \in Nat /\ DOMAIN q = 1..n /\ kept \in SUBSET (1..n)
      /\ \A i, j \in 1..n : q[i] = q[j] => i = j
  BY DEF Plain, IsInjective
<1>2. /\ w \in Seq(S)
      /\ \E m \in 0..n : \E nth \in [1..m -> kept] : PickedAt(q, kept, nth, m)
  BY <1>1, PickedElements
<1>20. PICK m \in 0..n : \E nth \in [1..m -> kept] : PickedAt(q, kept, nth, m)
  BY <1>2
<1>3. PICK nth \in [1..m -> kept] : PickedAt(q, kept, nth, m)
  BY <1>20
<1>4. Within(q, T) = w
  BY DEF Within
<1>5. \A i \in 1..n : i \in kept <=> q[i] \in T
  BY <1>1
<1> HIDE DEF kept, w
<1>6. /\ Len(w) = m /\ m \in Nat /\ m <= n /\ DOMAIN w = 1..m
      /\ \A j \in 1..m : w[j] = q[nth[j]] /\ nth[j] \in kept /\ nth[j] \in 1..n
  <2>1. Len(w) = m /\ \A j \in 1..m : w[j] = q[nth[j]]
    BY <1>3 DEF PickedAt, w
  <2>2. \A j \in 1..m : nth[j] \in kept /\ nth[j] \in 1..n
    BY <1>1
  <2>3. DOMAIN w = 1..m /\ m \in Nat /\ m <= n
    BY <1>1, <1>2, <2>1
  <2>4. QED
    BY <2>1, <2>2, <2>3
<1>7. \A i, j \in 1..m : nth[i] = nth[j] => i = j
  <2>1. \A i, j \in 1..m : i < j => nth[i] < nth[j]
    BY <1>3 DEF PickedAt
  <2>2. QED
    BY <1>6, <2>1
<1>8. IsInjective(w)
  <2>1. \A i, j \in 1..m : w[i] = w[j] => nth[i] = nth[j]
    BY <1>1, <1>6
  <2>2. QED
    BY <1>6, <1>7, <2>1 DEF IsInjective
<1>9. ToSet(w) = ToSet(q) \cap T
  <2>1. ASSUME NEW x \in ToSet(w) PROVE x \in ToSet(q) \cap T
    <3>1. PICK j \in 1..m : x = w[j]
      BY <1>6 DEF ToSet
    <3>2. QED
      BY <1>1, <1>5, <1>6, <3>1 DEF ToSet
  <2>2. ASSUME NEW x \in ToSet(q) \cap T PROVE x \in ToSet(w)
    <3>1. PICK i \in 1..n : x = q[i]
      BY <1>1 DEF ToSet
    <3>2. PICK j \in 1..m : nth[j] = i
      BY <1>3, <1>5, <3>1 DEF PickedAt
    <3>3. QED
      BY <1>6, <3>1, <3>2 DEF ToSet
  <2>3. QED
    BY <2>1, <2>2
<1>10. ASSUME ToSet(q) \subseteq T PROVE w = q
  <2>1. kept = 1..n
    BY <1>1, <1>5, <1>10 DEF ToSet
  <2>2. \A i \in 1..n : Rank(1..n, i) = i - 1
    <3> TAKE i \in 1..n
    <3>1. {h \in 1..n : h < i} = 1..(i - 1)
      BY <1>1
    <3>2. Cardinality(1..(i - 1)) = i - 1
      BY <1>1, FS_Interval
    <3>3. QED
      BY <3>1, <3>2 DEF Rank
  <2>3. Cardinality(1..n) = n
    <3>1. n \in Int /\ 1 \in Int
      BY <1>1
    <3>2. Cardinality(1..n) = IF 1 > n THEN 0 ELSE n - 1 + 1
      BY <3>1, FS_Interval
    <3>3. QED
      BY <1>1, <3>2
  <2>4. w = [j \in 1..n |-> q[CHOOSE i \in 1..n : Rank(1..n, i) = j - 1]]
    BY <2>1, <2>3 DEF w, Picked
  <2>5. ASSUME NEW j \in 1..n PROVE (CHOOSE i \in 1..n : Rank(1..n, i) = j - 1) = j
    <3>1. \A i \in 1..n : Rank(1..n, i) = j - 1 => i = j
      BY <1>1, <2>2
    <3>2. QED
      BY <2>2, <3>1
  <2>6. w = [j \in 1..n |-> q[j]]
    <3> DEFINE at(j) == CHOOSE i \in 1..n : Rank(1..n, i) = j - 1
    <3>1. w = [j \in 1..n |-> q[at(j)]]
      BY <2>4
    <3>2. \A j \in 1..n : at(j) = j
      BY <2>5
    <3> HIDE DEF at
    <3>3. QED
      BY <3>1, <3>2
  <2>7. QED
    BY <1>1, <2>6
<1>11. QED
  BY <1>1, <1>2, <1>4, <1>6, <1>8, <1>9, <1>10 DEF Plain

\* A new element at the end, and the first element alone.
LEMMA AppendPlain ==
  ASSUME NEW S, NEW q, Plain(S, q), NEW e \in S, ~Contains(q, e)
  PROVE  Plain(S, Append(q, e)) /\ ToSet(Append(q, e)) = ToSet(q) \cup {e}
<1>1. /\ q \in Seq(S) /\ Len(q) \in Nat /\ DOMAIN q = 1..Len(q)
      /\ \A i, j \in 1..Len(q) : q[i] = q[j] => i = j
      /\ \A i \in 1..Len(q) : q[i] # e
  BY DEF Plain, IsInjective, Contains
<1> DEFINE a == Append(q, e)
<1>2. /\ a \in Seq(S) /\ DOMAIN a = 1..(Len(q) + 1) /\ a[Len(q) + 1] = e
      /\ \A i \in 1..Len(q) : a[i] = q[i]
  BY <1>1
<1> HIDE DEF a
<1>3. IsInjective(a)
  BY <1>1, <1>2 DEF IsInjective
<1>4. ToSet(a) = ToSet(q) \cup {e}
  BY <1>1, <1>2 DEF ToSet
<1>5. QED
  BY <1>2, <1>3, <1>4 DEF a, Plain

\* A list of one element.
LEMMA SinglePlain ==
  ASSUME NEW S, NEW e \in S
  PROVE  Plain(S, <<e>>) /\ ToSet(<<e>>) = {e} /\ Len(<<e>>) = 1
  BY DEF Plain, IsInjective, ToSet

\* The empty list.
LEMMA EmptyPlain ==
  ASSUME NEW S
  PROVE  Plain(S, <<>>) /\ ToSet(<<>>) = {} /\ Len(<<>>) = 0
  BY DEF Plain, IsInjective, ToSet

\* The list that the switch leaves of several nodes: the first one.
LEMMA FirstPlain ==
  ASSUME NEW S, NEW q, Plain(S, q), Len(q) > 1
  PROVE  /\ Plain(S, SubSeq(q, 1, 1)) /\ ToSet(SubSeq(q, 1, 1)) \subseteq ToSet(q)
         /\ Len(SubSeq(q, 1, 1)) = 1
<1>1. q \in Seq(S) /\ Len(q) \in Nat /\ 1 \in 0..Len(q) /\ DOMAIN q = 1..Len(q)
  BY DEF Plain
<1> DEFINE f == SubSeq(q, 1, 1)
<1>2. f \in Seq(S) /\ Len(f) = 1 /\ \A i \in 1..1 : f[i] = q[i]
  BY <1>1, FirstElements
<1> HIDE DEF f
<1>3. DOMAIN f = {1} /\ f[1] = q[1]
  BY <1>2
<1>4. IsInjective(f) /\ ToSet(f) \subseteq ToSet(q)
  BY <1>1, <1>3 DEF IsInjective, ToSet
<1>5. QED
  BY <1>2, <1>4 DEF f, Plain

(***************************************************************************)
(* What the handlers share.                                                *)
(***************************************************************************)
SameScope == UNCHANGED <<scopeVars, hiddenContainers, storedScope, storageWorks>>

\* A part of the invariant holds on as long as nothing it is about changes; the
\* bounds allow for what a handler counts.
LEMMA FrameKept ==
  ASSUME PageKept
  PROVE  /\ SameScope => ScopeKept'
         /\ UNCHANGED <<nodeVars, keptContainers>> => ListKept'
         /\ UNCHANGED feedVars => FeedKept'
         /\ UNCHANGED textVars => TextKept'
         /\ UNCHANGED boundVars => ClicksKept'
<1>1. ASSUME SameScope PROVE ScopeKept'
  BY <1>1 DEF PageKept, SameScope, scopeVars, ScopeKept, Scope
<1>2. ASSUME UNCHANGED <<nodeVars, keptContainers>> PROVE ListKept'
  BY <1>2 DEF PageKept, ListKept, Answer, nodeVars, answerVars, Of
<1>3. ASSUME UNCHANGED feedVars PROVE FeedKept'
  BY <1>3 DEF PageKept, FeedKept, feedVars
<1>4. ASSUME UNCHANGED textVars PROVE TextKept'
  BY <1>4 DEF PageKept, TextKept, textVars
<1>5. ASSUME UNCHANGED boundVars PROVE ClicksKept'
  BY <1>5 DEF PageKept, ClicksKept, boundVars
<1>6. QED
  BY <1>1, <1>2, <1>3, <1>4, <1>5

\* What a handler counts stays within the bounds.
LEMMA CountsKept ==
  ASSUME PageKept
  PROVE  (Click => ClicksKept') /\ (Mishap => ClicksKept')
  BY ScopeBoundsAssumption DEF PageKept, ClicksKept, Click, Mishap

\* Loads that nothing touches.
LEMMA LoadsFramed ==
  ASSUME PageKept, UNCHANGED loadVars
  PROVE  LoadsKept'
  BY DEF PageKept, LoadsKept, loadVars, cacheVars

\* A scope that only loses containers keeps its search, and its timer unless the range moves.
LEMMA SearchMoved ==
  ASSUME PageKept, searches' = searches, found' = found, query' \in {query, NoText},
         ToSet(selectedContainers') \subseteq ToSet(selectedContainers),
         searchTimer'.key = searchTimer.key,
         searchTimer.key # <<>> => \/ searchTimer'.moved
                                   \/ range' = range /\ (searchTimer.moved => searchTimer'.moved)
  PROVE  SearchKept'
<1>1. SearchKept
  BY DEF PageKept
<1>2. \A s : OfItsQuery(s, query) => OfItsQuery(s, query')
  BY DEF OfItsQuery
<1>3. ToSet(selectedContainers)' = ToSet(selectedContainers')
  BY DEF ToSet
<1>4. TimerKept'
  BY <1>1, <1>3 DEF SearchKept, TimerKept
<1>5. \A s \in searches' : s.current => OfItsQuery(s, query')
  BY <1>1, <1>2 DEF SearchKept
<1>6. found'.key # <<>> => OfItsQuery(found', query')
  BY <1>1, <1>2 DEF SearchKept
<1>7. QED
  BY <1>4, <1>5, <1>6 DEF SearchKept, OfItsQuery

\* A search that nothing touches is kept.
LEMMA SearchFramed ==
  ASSUME PageKept, UNCHANGED searchVars, UNCHANGED range, query' \in {query, NoText},
         ToSet(selectedContainers') \subseteq ToSet(selectedContainers)
  PROVE  SearchKept'
<1>1. searchTimer' = searchTimer /\ searches' = searches /\ found' = found
  BY DEF searchVars
<1>2. QED
  BY <1>1, SearchMoved

\* A search that is cleared is of nothing.
LEMMA SearchCleared ==
  ASSUME ClearFullRangeSearch
  PROVE  SearchKept'
<1>1. searchTimer'.key = <<>> /\ found'.key = <<>>
  BY DEF ClearFullRangeSearch, NoSearch, NoTimer
<1>2. \A s \in searches' : ~s.current
  <2> SUFFICES ASSUME NEW s \in searches' PROVE ~s.current
    OBVIOUS
  <2>1. PICK q \in searches : s = [q EXCEPT !.current = FALSE]
    BY DEF ClearFullRangeSearch
  <2>2. QED
    BY <2>1
<1>3. QED
  BY <1>1, <1>2 DEF SearchKept, TimerKept

\* A load that begins is of the scope as it is.
Begun(key, targets) == [NoLoad EXCEPT !.key = key, !.pending = targets]

\* What a load begins with has the type of a load.
LEMMA BegunType ==
  ASSUME NEW key \in Seq(Containers), NEW targets \in SUBSET Containers
  PROVE  Begun(key, targets) \in Slot
  BY DEF Begun, NoLoad, Slot

\* loadSelectedContainerLogs leaves the loads well typed, whichever way it goes.
LEMMA LoadsBegin ==
  ASSUME loads \in [Slots -> Slot], Plain(Containers, selectedContainers'), LoadSelectedContainerLogs
  PROVE  loads' \in [Slots -> Slot]
<1> DEFINE targets == Targets(selectedContainers', discovered')
<1>1. targets \subseteq Containers /\ selectedContainers' \in Seq(Containers)
  BY DEF Plain, Targets, ToSet
<1>2. Begun(selectedContainers', targets) \in Slot
  BY <1>1, BegunType
<1>3. \/ loads' = loads
      \/ \E s \in Free : loads' = [loads EXCEPT ![s] = Begun(selectedContainers', targets)]
  BY DEF LoadSelectedContainerLogs, Begun
<1>4. QED
  BY <1>2, <1>3 DEF Free

\* The scope as it is next, and what RefreshScope and Persist keep of it.
NextScope == Scope(selectedNodes', selectedContainers', multiSelect', hiddenContainers')

\* What Persist writes is what a reload will need.
LEMMA PersistKept ==
  ASSUME PageKept, NextScope, UNCHANGED storageWorks, Persist
  PROVE  ScopeKept'
<1>1. storageWorks \in BOOLEAN /\ (~storageWorks => storedScope = NothingStored)
  BY DEF PageKept, ScopeKept
<1>2. storedScope' = IF storageWorks' THEN [nodes |-> selectedNodes', containers |-> selectedContainers',
                                       multi |-> multiSelect', hidden |-> hiddenContainers']
                ELSE NothingStored
  BY <1>1 DEF Persist
<1>3. QED
  BY <1>1, <1>2 DEF ScopeKept, NextScope, Scope, NothingStored

\* A handler that ends in RefreshScope keeps what it does not set itself.
LEMMA RefreshKept ==
  ASSUME PageKept, NextScope, UNCHANGED storageWorks, RefreshScope
  PROVE  ScopeKept' /\ LoadsKept' /\ SearchKept'
<1>1. ScopeKept'
  BY PersistKept DEF RefreshScope
<1>2. SearchKept'
  BY SearchCleared DEF RefreshScope
<1>3. LoadsKept'
  <2>1. Plain(Containers, selectedContainers') /\ loads \in [Slots -> Slot]
    BY DEF PageKept, LoadsKept, NextScope, Scope, Plain
  <2>2. loads' \in [Slots -> Slot]
    BY <2>1, LoadsBegin DEF RefreshScope
  <2>3. QED
    BY <2>2 DEF LoadsKept, RefreshScope, DropCache
<1>4. QED
  BY <1>1, <1>2, <1>3

\* So does one that only persists, when it selects nothing new.
LEMMA StayKept ==
  ASSUME PageKept, NextScope, UNCHANGED <<storageWorks, query, range>>, Persist, KeepScope,
         ToSet(selectedContainers') \subseteq ToSet(selectedContainers)
  PROVE  ScopeKept' /\ LoadsKept' /\ SearchKept'
  BY PersistKept, LoadsFramed, SearchFramed DEF KeepScope

\* The scope that is there.
LEMMA TheScope ==
  ASSUME PageKept
  PROVE  /\ Plain(Nodes, selectedNodes) /\ Plain(Containers, selectedContainers)
         /\ multiSelect \in BOOLEAN /\ hiddenContainers \subseteq Containers
         /\ \A c \in ToSet(selectedContainers) : NodeOf[c] \in ToSet(selectedNodes) /\ c \notin hiddenContainers
         /\ multiSelect \/ Len(selectedNodes) <= 1
         /\ storageWorks \in BOOLEAN
  BY DEF PageKept, ScopeKept, Scope, Plain

\* A scope by its parts.
LEMMA IsScope ==
  ASSUME NEW nodes, NEW containers, NEW multi \in BOOLEAN, NEW hidden \in SUBSET Containers,
         Plain(Nodes, nodes), Plain(Containers, containers),
         \A c \in ToSet(containers) : NodeOf[c] \in ToSet(nodes) /\ c \notin hidden,
         multi \/ Len(nodes) <= 1
  PROVE  Scope(nodes, containers, multi, hidden)
  BY DEF Scope, Plain

\* A list contains what is in it.
LEMMA ContainsIsIn ==
  ASSUME NEW S, NEW q, Plain(S, q), NEW e
  PROVE  Contains(q, e) <=> e \in ToSet(q)
<1>1. q \in Seq(S) /\ DOMAIN q = 1..Len(q)
  BY DEF Plain
<1>2. QED
  BY <1>1 DEF Contains, ToSet

\* Every container is of a node.
LEMMA NodeOfType ==
  ASSUME PageKept, NEW c \in Containers
  PROVE  NodeOf[c] \in Nodes
  BY NodeOfAssumption

\* The containers of nodes.
LEMMA OfNodes ==
  ASSUME NEW c \in Containers, NEW nodes
  PROVE  c \in Of(nodes) <=> NodeOf[c] \in nodes
  BY DEF Of

(***************************************************************************)
(* The sidebar.                                                            *)
(***************************************************************************)
\* A click on a node.
LEMMA ClickNodeKept ==
  ASSUME PageKept, NEW n \in Nodes, ClickNode(n)
  PROVE  PageKept'
<1> DEFINE deselect == multiSelect /\ Contains(selectedNodes, n)
           left == Within(selectedNodes, Nodes \ {n})
<1>1. /\ Plain(Nodes, selectedNodes) /\ Plain(Containers, selectedContainers)
      /\ multiSelect \in BOOLEAN /\ hiddenContainers \subseteq Containers
      /\ \A c \in ToSet(selectedContainers) : NodeOf[c] \in ToSet(selectedNodes) /\ c \notin hiddenContainers
      /\ multiSelect \/ Len(selectedNodes) <= 1
  BY TheScope
<1>2. /\ multiSelect' = multiSelect /\ hiddenContainers' = hiddenContainers /\ storageWorks' = storageWorks
      /\ UNCHANGED nodeVars /\ UNCHANGED keptContainers /\ UNCHANGED feedVars /\ UNCHANGED textVars
      /\ RefreshScope /\ Click
  BY DEF ClickNode, SidebarFrame, listVars
<1>3. NextScope
  <2>1. CASE deselect
    <3>1. selectedNodes' = left
      BY <2>1 DEF ClickNode
    <3>2. selectedContainers' = Within(selectedContainers, Of(ToSet(left)))
      BY <2>1, <3>1 DEF ClickNode
    <3>3. Plain(Nodes, left)
      BY <1>1, WithinPlain
    <3>4. /\ Plain(Containers, selectedContainers')
          /\ ToSet(selectedContainers') = ToSet(selectedContainers) \cap Of(ToSet(left))
      BY <1>1, <3>2, WithinPlain
    <3>5. \A c \in ToSet(selectedContainers') : NodeOf[c] \in ToSet(left) /\ c \notin hiddenContainers
      BY <1>1, <3>4 DEF Of
    <3>6. Scope(left, selectedContainers', multiSelect, hiddenContainers)
      BY <1>1, <2>1, <3>3, <3>4, <3>5, IsScope
    <3>7. QED
      BY <1>2, <3>1, <3>6 DEF NextScope
  <2>2. CASE multiSelect /\ ~deselect
    <3>1. selectedNodes' = Append(selectedNodes, n) /\ selectedContainers' = selectedContainers
      BY <2>2 DEF ClickNode
    <3>2. Plain(Nodes, selectedNodes') /\ ToSet(selectedNodes') = ToSet(selectedNodes) \cup {n}
      BY <1>1, <2>2, <3>1, AppendPlain
    <3>3. Scope(selectedNodes', selectedContainers, multiSelect, hiddenContainers)
      BY <1>1, <2>2, <3>2, IsScope
    <3>4. QED
      BY <1>2, <3>1, <3>3 DEF NextScope
  <2>3. CASE ~multiSelect
    <3>1. selectedNodes' = <<n>> /\ selectedContainers' = <<>>
      BY <2>3 DEF ClickNode
    <3>2. /\ Plain(Nodes, selectedNodes') /\ Len(selectedNodes') <= 1
          /\ Plain(Containers, selectedContainers') /\ ToSet(selectedContainers') = {}
      BY <3>1, SinglePlain, EmptyPlain
    <3>3. Scope(selectedNodes', selectedContainers', multiSelect, hiddenContainers)
      BY <1>1, <3>2, IsScope
    <3>4. QED
      BY <1>2, <3>1, <3>3 DEF NextScope
  <2>4. QED
    BY <1>1, <2>1, <2>2, <2>3
<1>4. ScopeKept' /\ LoadsKept' /\ SearchKept'
  BY <1>2, <1>3, RefreshKept
<1>5. ListKept' /\ FeedKept' /\ TextKept' /\ ClicksKept'
  BY <1>2, FrameKept, CountsKept
<1>6. QED
  BY <1>4, <1>5 DEF PageKept

\* A click on a container.
LEMMA ClickContainerKept ==
  ASSUME PageKept, NEW c \in Containers, ClickContainer(c)
  PROVE  PageKept'
<1>1. /\ Plain(Nodes, selectedNodes) /\ Plain(Containers, selectedContainers)
      /\ multiSelect \in BOOLEAN /\ hiddenContainers \subseteq Containers
      /\ \A b \in ToSet(selectedContainers) : NodeOf[b] \in ToSet(selectedNodes) /\ b \notin hiddenContainers
      /\ multiSelect \/ Len(selectedNodes) <= 1
  BY TheScope
<1>2. /\ multiSelect' = multiSelect /\ hiddenContainers' = hiddenContainers /\ storageWorks' = storageWorks
      /\ UNCHANGED nodeVars /\ UNCHANGED keptContainers /\ UNCHANGED feedVars /\ UNCHANGED textVars
      /\ RefreshScope /\ Click
  BY DEF ClickContainer, SidebarFrame, listVars
<1>3. c \notin hiddenContainers /\ NodeOf[c] \in Nodes
  BY NodeOfType DEF ClickContainer, Sidebar
<1>4. Plain(Containers, Toggled(c)) /\ ToSet(Toggled(c)) \subseteq ToSet(selectedContainers) \cup {c}
  <2>1. CASE Contains(selectedContainers, c)
    BY <1>1, <2>1, WithinPlain DEF Toggled
  <2>2. CASE ~Contains(selectedContainers, c)
    BY <1>1, <2>2, AppendPlain DEF Toggled
  <2>3. QED
    BY <2>1, <2>2
<1>5. NextScope
  <2>1. CASE multiSelect
    <3>1. selectedContainers' = Toggled(c)
      BY <2>1 DEF ClickContainer
    <3>2. Plain(Nodes, selectedNodes') /\ ToSet(selectedNodes) \cup {NodeOf[c]} \subseteq ToSet(selectedNodes')
      <4>1. CASE Contains(selectedNodes, NodeOf[c])
        BY <1>1, <2>1, <4>1, ContainsIsIn DEF ClickContainer
      <4>2. CASE ~Contains(selectedNodes, NodeOf[c])
        BY <1>1, <1>3, <2>1, <4>2, AppendPlain DEF ClickContainer
      <4>3. QED
        BY <4>1, <4>2
    <3>3. \A b \in ToSet(Toggled(c)) : NodeOf[b] \in ToSet(selectedNodes') /\ b \notin hiddenContainers
      BY <1>1, <1>3, <1>4, <3>2
    <3>4. Scope(selectedNodes', Toggled(c), multiSelect, hiddenContainers)
      BY <1>1, <1>4, <2>1, <3>2, <3>3, IsScope
    <3>5. QED
      BY <1>2, <3>1, <3>4 DEF NextScope
  <2>2. CASE ~multiSelect
    <3>1. selectedContainers' = Within(Toggled(c), Of({NodeOf[c]})) /\ selectedNodes' = <<NodeOf[c]>>
      BY <2>2 DEF ClickContainer
    <3>2. /\ Plain(Containers, selectedContainers')
          /\ ToSet(selectedContainers') = ToSet(Toggled(c)) \cap Of({NodeOf[c]})
      BY <1>4, <3>1, WithinPlain
    <3>3. /\ Plain(Nodes, selectedNodes') /\ ToSet(selectedNodes') = {NodeOf[c]}
          /\ Len(selectedNodes') <= 1
      BY <1>3, <3>1, SinglePlain
    <3>4. \A b \in ToSet(selectedContainers') : NodeOf[b] \in ToSet(selectedNodes') /\ b \notin hiddenContainers
      BY <1>1, <1>3, <1>4, <3>2, <3>3 DEF Of
    <3>5. Scope(selectedNodes', selectedContainers', multiSelect, hiddenContainers)
      BY <1>1, <2>2, <3>2, <3>3, <3>4, IsScope
    <3>6. QED
      BY <1>2, <3>1, <3>5 DEF NextScope
  <2>3. QED
    BY <2>1, <2>2
<1>6. ScopeKept' /\ LoadsKept' /\ SearchKept'
  BY <1>2, <1>5, RefreshKept
<1>7. ListKept' /\ FeedKept' /\ TextKept' /\ ClicksKept'
  BY <1>2, FrameKept, CountsKept
<1>8. QED
  BY <1>6, <1>7 DEF PageKept

\* The switch of several nodes.
LEMMA SetMultiSelectKept ==
  ASSUME PageKept, NEW enabled \in BOOLEAN, SetMultiSelect(enabled)
  PROVE  PageKept'
<1>1. /\ Plain(Nodes, selectedNodes) /\ Plain(Containers, selectedContainers)
      /\ hiddenContainers \subseteq Containers
      /\ \A b \in ToSet(selectedContainers) : NodeOf[b] \in ToSet(selectedNodes) /\ b \notin hiddenContainers
  BY TheScope
<1>2. /\ multiSelect' = enabled /\ hiddenContainers' = hiddenContainers /\ storageWorks' = storageWorks
      /\ UNCHANGED nodeVars /\ UNCHANGED keptContainers /\ UNCHANGED feedVars /\ UNCHANGED textVars /\ Click
  BY DEF SetMultiSelect, SidebarFrame, listVars
<1>3. ScopeKept' /\ LoadsKept' /\ SearchKept'
  <2>1. CASE ~enabled /\ Len(selectedNodes) > 1
    <3> DEFINE first == SubSeq(selectedNodes, 1, 1)
    <3>1. /\ selectedNodes' = first /\ selectedContainers' = Within(selectedContainers, Of(ToSet(first)))
          /\ RefreshScope
      BY <2>1 DEF SetMultiSelect
    <3>2. Plain(Nodes, first) /\ Len(first) = 1
      BY <1>1, <2>1, FirstPlain
    <3>3. /\ Plain(Containers, selectedContainers')
          /\ ToSet(selectedContainers') = ToSet(selectedContainers) \cap Of(ToSet(first))
      BY <1>1, <3>1, WithinPlain
    <3>4. \A c \in ToSet(selectedContainers') : NodeOf[c] \in ToSet(first) /\ c \notin hiddenContainers
      BY <1>1, <3>3 DEF Of
    <3> HIDE DEF first
    <3>5. Scope(first, selectedContainers', enabled, hiddenContainers)
      <4>1. hiddenContainers \in SUBSET Containers /\ enabled \in BOOLEAN
        BY <1>1
      <4>2. Plain(Nodes, first) /\ Plain(Containers, selectedContainers') /\ Len(first) <= 1
        BY <3>2, <3>3
      <4>3. QED
        BY <3>4, <4>1, <4>2, IsScope
    <3>6. NextScope
      BY <1>2, <3>1, <3>5 DEF NextScope
    <3>7. QED
      BY <1>2, <3>1, <3>6, RefreshKept
  <2>2. CASE ~(~enabled /\ Len(selectedNodes) > 1)
    <3>1. selectedNodes' = selectedNodes /\ selectedContainers' = selectedContainers /\ Persist /\ KeepScope
      BY <2>2 DEF SetMultiSelect
    <3>2. enabled \/ Len(selectedNodes) <= 1
      <4>1. Len(selectedNodes) \in Nat
        BY <1>1 DEF Plain
      <4>2. QED
        BY <2>2, <4>1
    <3>3. Scope(selectedNodes, selectedContainers, enabled, hiddenContainers)
      BY <1>1, <3>2, IsScope
    <3>4. NextScope
      BY <1>2, <3>1, <3>3 DEF NextScope
    <3>5. query' = query /\ range' = range
      BY <1>2 DEF textVars, feedVars
    <3>6. QED
      BY <1>2, <3>1, <3>4, <3>5, StayKept
  <2>3. QED
    BY <2>1, <2>2
<1>4. ListKept' /\ FeedKept' /\ TextKept' /\ ClicksKept'
  BY <1>2, FrameKept, CountsKept
<1>5. QED
  BY <1>3, <1>4 DEF PageKept

(***************************************************************************)
(* The connection cards.                                                   *)
(***************************************************************************)
\* What a card does to the lists, besides the scope.
LEMMA CardKept ==
  ASSUME PageKept, CardFrame, Click, keptContainers' \subseteq Containers
  PROVE  /\ ListKept' /\ FeedKept' /\ TextKept' /\ ClicksKept'
         /\ selectedNodes' = selectedNodes /\ multiSelect' = multiSelect
         /\ storageWorks' = storageWorks /\ query' = query /\ range' = range
<1>1. /\ UNCHANGED nodeVars /\ UNCHANGED feedVars /\ UNCHANGED textVars
      /\ selectedNodes' = selectedNodes /\ multiSelect' = multiSelect
      /\ storageWorks' = storageWorks
  BY DEF CardFrame
<1>2. ListKept'
  BY <1>1 DEF PageKept, ListKept, Answer, nodeVars, answerVars, Of
<1>3. query' = query /\ range' = range
  BY <1>1 DEF textVars, feedVars
<1>4. QED
  BY <1>1, <1>2, <1>3, FrameKept, CountsKept

\* Dropped containers leave the scope too.
LEMMA DropKept ==
  ASSUME PageKept, NEW keys \in SUBSET Containers, DropContainersFromScope(keys),
         hiddenContainers' = hiddenContainers \cup keys,
         UNCHANGED <<selectedNodes, multiSelect, storageWorks, query, range>>
  PROVE  ScopeKept' /\ LoadsKept' /\ SearchKept'
<1>1. /\ Plain(Nodes, selectedNodes) /\ Plain(Containers, selectedContainers)
      /\ multiSelect \in BOOLEAN /\ hiddenContainers \subseteq Containers
      /\ \A b \in ToSet(selectedContainers) : NodeOf[b] \in ToSet(selectedNodes) /\ b \notin hiddenContainers
      /\ multiSelect \/ Len(selectedNodes) <= 1
  BY TheScope
<1>2. hiddenContainers' \in SUBSET Containers
  BY <1>1
<1>3. CASE ToSet(selectedContainers) \cap keys = {}
  <2>1. selectedContainers' = selectedContainers /\ Persist /\ KeepScope
    BY <1>3 DEF DropContainersFromScope
  <2>2. \A b \in ToSet(selectedContainers) : NodeOf[b] \in ToSet(selectedNodes) /\ b \notin hiddenContainers'
    BY <1>1, <1>3
  <2>3. Scope(selectedNodes, selectedContainers, multiSelect, hiddenContainers')
    BY <1>1, <1>2, <2>2, IsScope
  <2>4. NextScope
    BY <2>1, <2>3 DEF NextScope
  <2>5. QED
    BY <2>1, <2>4, StayKept
<1>4. CASE ToSet(selectedContainers) \cap keys # {}
  <2>1. selectedContainers' = Within(selectedContainers, Containers \ keys) /\ RefreshScope
    BY <1>4 DEF DropContainersFromScope
  <2>2. /\ Plain(Containers, selectedContainers')
        /\ ToSet(selectedContainers') = ToSet(selectedContainers) \cap (Containers \ keys)
    BY <1>1, <2>1, WithinPlain
  <2>3. \A b \in ToSet(selectedContainers') : NodeOf[b] \in ToSet(selectedNodes) /\ b \notin hiddenContainers'
    BY <1>1, <2>2
  <2>4. Scope(selectedNodes, selectedContainers', multiSelect, hiddenContainers')
    BY <1>1, <1>2, <2>2, <2>3, IsScope
  <2>5. NextScope
    BY <2>4 DEF NextScope
  <2>6. QED
    BY <2>1, <2>5, RefreshKept
<1>5. QED
  BY <1>3, <1>4

\* A container dropped from the lists is no longer selected.
LEMMA HideContainerKept ==
  ASSUME PageKept, NEW c \in Containers, HideContainer(c)
  PROVE  PageKept'
<1>1. keptContainers' \subseteq Containers
  BY DEF HideContainer, PageKept, ListKept
<1>2. /\ CardFrame /\ Click /\ hiddenContainers' = hiddenContainers \cup {c}
      /\ DropContainersFromScope({c})
  BY DEF HideContainer
<1>3. /\ ListKept' /\ FeedKept' /\ TextKept' /\ ClicksKept'
      /\ UNCHANGED <<selectedNodes, multiSelect, storageWorks, query, range>>
  BY <1>1, <1>2, CardKept
<1>4. ScopeKept' /\ LoadsKept' /\ SearchKept'
  BY <1>2, <1>3, DropKept
<1>5. QED
  BY <1>3, <1>4 DEF PageKept

\* So are the containers that the user has not ticked.
LEMMA RemoveOtherContainersKept ==
  ASSUME PageKept, NEW n \in Nodes, RemoveOtherContainers(n)
  PROVE  PageKept'
<1> DEFINE dropped == (discovered \cap Of({n})) \ (Card(n).kept \cup hiddenContainers)
<1>1. keptContainers' \subseteq Containers
  BY DEF RemoveOtherContainers, PageKept, ListKept
<1>2. /\ CardFrame /\ Click /\ hiddenContainers' = hiddenContainers \cup dropped
      /\ DropContainersFromScope(dropped)
  BY DEF RemoveOtherContainers
<1>3. dropped \in SUBSET Containers
  BY DEF Of
<1>4. /\ ListKept' /\ FeedKept' /\ TextKept' /\ ClicksKept'
      /\ UNCHANGED <<selectedNodes, multiSelect, storageWorks, query, range>>
  BY <1>1, <1>2, CardKept
<1> HIDE DEF dropped
<1>5. ScopeKept' /\ LoadsKept' /\ SearchKept'
  BY <1>2, <1>3, <1>4, DropKept
<1>6. QED
  BY <1>4, <1>5 DEF PageKept

\* Containers put back are not selected by it.
LEMMA RestoreContainersKept ==
  ASSUME PageKept, NEW n \in Nodes, RestoreContainers(n)
  PROVE  PageKept'
<1>1. /\ Plain(Nodes, selectedNodes) /\ Plain(Containers, selectedContainers)
      /\ multiSelect \in BOOLEAN /\ hiddenContainers \subseteq Containers
      /\ \A b \in ToSet(selectedContainers) : NodeOf[b] \in ToSet(selectedNodes) /\ b \notin hiddenContainers
      /\ multiSelect \/ Len(selectedNodes) <= 1
  BY TheScope
<1>2. /\ CardFrame /\ Click /\ hiddenContainers' = hiddenContainers \ Of({n})
      /\ selectedContainers' = selectedContainers /\ keptContainers' = keptContainers
      /\ Persist /\ KeepScope
  BY DEF RestoreContainers
<1>3. keptContainers' \subseteq Containers
  BY <1>2 DEF PageKept, ListKept
<1>4. /\ ListKept' /\ FeedKept' /\ TextKept' /\ ClicksKept'
      /\ UNCHANGED <<selectedNodes, multiSelect, storageWorks, query, range>>
  BY <1>2, <1>3, CardKept
<1>5. hiddenContainers' \in SUBSET Containers /\ hiddenContainers' \subseteq hiddenContainers
  BY <1>1, <1>2
<1>6. \A b \in ToSet(selectedContainers) : NodeOf[b] \in ToSet(selectedNodes) /\ b \notin hiddenContainers'
  BY <1>1, <1>5
<1>7. Scope(selectedNodes, selectedContainers, multiSelect, hiddenContainers')
  BY <1>1, <1>5, <1>6, IsScope
<1>8. NextScope
  BY <1>2, <1>4, <1>7 DEF NextScope
<1>9. ScopeKept' /\ LoadsKept' /\ SearchKept'
  BY <1>2, <1>4, <1>8, StayKept
<1>10. QED
  BY <1>4, <1>9 DEF PageKept

\* What is ticked on a card touches nothing else.
LEMMA TickKept ==
  ASSUME PageKept, CardFrame, Click, KeepScope, UNCHANGED <<selectedContainers, hiddenContainers, storedScope>>,
         keptContainers' \subseteq Containers
  PROVE  PageKept'
<1>1. /\ ListKept' /\ FeedKept' /\ TextKept' /\ ClicksKept'
      /\ UNCHANGED <<selectedNodes, multiSelect, storageWorks, query, range>>
  BY CardKept
<1>2. SameScope
  BY <1>1 DEF SameScope, scopeVars
<1>3. ScopeKept' /\ LoadsKept' /\ SearchKept'
  BY <1>1, <1>2, FrameKept, LoadsFramed, SearchFramed DEF KeepScope
<1>4. QED
  BY <1>1, <1>3 DEF PageKept

\* A tick is not part of the scope.
LEMMA ToggleKeepKept ==
  ASSUME PageKept, NEW c \in Containers, ToggleKeep(c)
  PROVE  PageKept'
<1>1. keptContainers' \subseteq Containers
  BY DEF ToggleKeep, PageKept, ListKept
<1>2. QED
  BY <1>1, TickKept DEF ToggleKeep

\* Nor are the ticks taken back.
LEMMA ClearKeepKept ==
  ASSUME PageKept, NEW n \in Nodes, ClearKeep(n)
  PROVE  PageKept'
<1>1. keptContainers' \subseteq Containers
  BY DEF ClearKeep, PageKept, ListKept
<1>2. QED
  BY <1>1, TickKept DEF ClearKeep

(***************************************************************************)
(* What the server answers.                                                *)
(***************************************************************************)
\* What it answers next, and what it answered before.
LEMMA ServiceKept ==
  ASSUME PageKept, NEW list, NEW r \in HistoryRanges, ServiceBecomes(list, r),
         list.nodes \subseteq Nodes, list.containers \subseteq Of(list.nodes)
  PROVE  Answer(server)' /\ \A a \in underway' : Answer(a)
<1>1. Answer(server) /\ \A a \in underway : Answer(a)
  BY DEF PageKept, ListKept
<1>2. server'.list = list /\ server'.range = r /\ underway' \in {underway, {server}}
  BY DEF ServiceBecomes
<1>3. Answer(server)'
  BY <1>2 DEF Answer, Of
<1>4. QED
  BY <1>1, <1>2, <1>3

\* Others change what the service answers.
LEMMA ServerChangesKept ==
  ASSUME PageKept, NEW l \in Lists, NEW r \in HistoryRanges, ServerChanges(l, r)
  PROVE  PageKept'
<1>1. /\ SameScope /\ UNCHANGED feedVars /\ UNCHANGED textVars /\ UNCHANGED loadVars /\ UNCHANGED searchVars
      /\ selectedContainers' = selectedContainers /\ query' = query /\ range' = range /\ Mishap
      /\ keptContainers' = keptContainers /\ shown' = shown /\ discovered' = discovered
      /\ ServiceBecomes(l, r)
  BY DEF ServerChanges, RestFrame, SameScope, scopeVars, listVars, textVars, feedVars
<1>2. l.nodes \subseteq Nodes /\ l.containers \subseteq Of(l.nodes)
  BY ListsAssumption DEF Of
<1>3. ListKept'
  <2>1. Answer(server)' /\ \A a \in underway' : Answer(a)
    BY <1>1, <1>2, ServiceKept
  <2>2. QED
    BY <1>1, <2>1 DEF PageKept, ListKept, Of, Answer
<1>4. ScopeKept' /\ FeedKept' /\ TextKept' /\ ClicksKept' /\ LoadsKept' /\ SearchKept'
  BY <1>1, FrameKept, CountsKept, LoadsFramed, SearchFramed
<1>5. QED
  BY <1>3, <1>4 DEF PageKept

\* What is left of the scope when nodes have gone.
LEMMA FewerNodes ==
  ASSUME PageKept, NEW nodes, selectedNodes' = Within(selectedNodes, nodes), multiSelect' = multiSelect,
         NEW containers, selectedContainers' = Within(selectedContainers, containers),
         hiddenContainers' = hiddenContainers,
         \A c \in Containers : NodeOf[c] \in ToSet(selectedNodes) /\ c \in containers => NodeOf[c] \in ToSet(selectedNodes')
  PROVE  NextScope /\ ToSet(selectedContainers') \subseteq ToSet(selectedContainers)
<1>1. /\ Plain(Nodes, selectedNodes) /\ Plain(Containers, selectedContainers)
      /\ multiSelect \in BOOLEAN /\ hiddenContainers \subseteq Containers
      /\ \A b \in ToSet(selectedContainers) : NodeOf[b] \in ToSet(selectedNodes) /\ b \notin hiddenContainers
      /\ multiSelect \/ Len(selectedNodes) <= 1
  BY TheScope
<1>2. Plain(Nodes, selectedNodes') /\ Len(selectedNodes') <= Len(selectedNodes)
  BY <1>1, WithinPlain
<1>3. /\ Plain(Containers, selectedContainers')
      /\ ToSet(selectedContainers') = ToSet(selectedContainers) \cap containers
  BY <1>1, WithinPlain
<1>4. ToSet(selectedContainers) \subseteq Containers
  BY <1>1 DEF Plain, ToSet
<1>5. \A b \in ToSet(selectedContainers') : NodeOf[b] \in ToSet(selectedNodes') /\ b \notin hiddenContainers
  BY <1>1, <1>3, <1>4
<1>6. Len(selectedNodes) \in Nat /\ Len(selectedNodes') \in Nat
  BY <1>1, <1>2 DEF Plain
<1>7. multiSelect \/ Len(selectedNodes') <= 1
  BY <1>1, <1>2, <1>6
<1>8. Scope(selectedNodes', selectedContainers', multiSelect, hiddenContainers)
  BY <1>1, <1>2, <1>3, <1>5, <1>7, IsScope
<1>9. QED
  BY <1>3, <1>8 DEF NextScope

\* What the service no longer has leaves the scope.
LEMMA SyncGoBackendKept ==
  ASSUME PageKept, NEW answer \in underway \cup {server}, SyncGoBackend(answer)
  PROVE  PageKept'
<1>1. /\ selectedNodes' = Within(selectedNodes, shown') /\ multiSelect' = multiSelect
      /\ selectedContainers' = Within(selectedContainers, Of(ToSet(selectedNodes')))
      /\ hiddenContainers' = hiddenContainers /\ keptContainers' = keptContainers
      /\ storageWorks' = storageWorks /\ Persist
      /\ searches' = searches /\ found' = found /\ UNCHANGED textVars /\ UNCHANGED boundVars /\ query' = query
  BY DEF SyncGoBackend, listVars, textVars
<1>2. \A c \in Containers : c \in Of(ToSet(selectedNodes')) => NodeOf[c] \in ToSet(selectedNodes')
  BY DEF Of
<1>3. NextScope /\ ToSet(selectedContainers') \subseteq ToSet(selectedContainers)
  BY <1>1, <1>2, FewerNodes
<1>4. ScopeKept' /\ TextKept' /\ ClicksKept'
  BY <1>1, <1>3, PersistKept, FrameKept
<1>40. SearchKept'
  <2>1. /\ searchTimer'.key = searchTimer.key
        /\ searchTimer'.moved = (searchTimer.moved \/ (searchTimer.key # <<>> /\ range' # range))
    BY DEF SyncGoBackend
  <2>2. QED
    BY <1>1, <1>3, <2>1, SearchMoved
<1>5. Answer(answer) /\ ListKept
  BY DEF PageKept, ListKept
<1>50. ListKept'
  <2>1. /\ shown' = answer.list.nodes /\ discovered' = answer.list.containers
        /\ server' = server /\ underway' \subseteq underway
    BY DEF SyncGoBackend
  <2>2. shown' \subseteq Nodes /\ discovered' \subseteq Of(shown')
    BY <1>5, <2>1 DEF Answer
  <2>3. QED
    BY <1>1, <1>5, <2>1, <2>2 DEF ListKept, Answer, Of
<1>6. FeedKept'
  BY <1>5 DEF SyncGoBackend, PageKept, FeedKept, Answer
<1>7. LoadsKept'
  <2>1. Plain(Containers, selectedContainers') /\ LoadsKept
    BY <1>3 DEF NextScope, Scope, Plain, PageKept
  <2>2. loads' = loads \/ LoadSelectedContainerLogs
    BY DEF SyncGoBackend
  <2>3. loads' \in [Slots -> Slot]
    BY <2>1, <2>2, LoadsBegin DEF LoadsKept
  <2>4. QED
    BY <2>1, <2>3 DEF SyncGoBackend, LoadsKept, cacheVars
<1>8. QED
  BY <1>4, <1>40, <1>50, <1>6, <1>7 DEF PageKept

\* A lost service leaves the scope as it is.
LEMMA LoseBackendKept ==
  ASSUME PageKept, LoseBackend
  PROVE  PageKept'
<1>1. /\ SameScope /\ UNCHANGED nodeVars /\ UNCHANGED keptContainers /\ UNCHANGED textVars
      /\ UNCHANGED loadVars /\ UNCHANGED searchVars
      /\ selectedContainers' = selectedContainers /\ query' = query /\ range' = range /\ Mishap
  BY DEF LoseBackend, SameScope, scopeVars, listVars, textVars
<1>2. FeedKept'
  BY DEF LoseBackend, PageKept, FeedKept
<1>3. QED
  BY <1>1, <1>2, FrameKept, CountsKept, LoadsFramed, SearchFramed DEF PageKept

\* An unbound node takes its containers with it.
LEMMA UnbindNodeKept ==
  ASSUME PageKept, NEW n \in Nodes, UnbindNode(n)
  PROVE  PageKept'
<1>1. /\ selectedNodes' = Within(selectedNodes, Nodes \ {n}) /\ multiSelect' = multiSelect
      /\ selectedContainers' = Within(selectedContainers, Containers \ Of({n}))
      /\ hiddenContainers' = hiddenContainers /\ keptContainers' = keptContainers
      /\ storageWorks' = storageWorks /\ Persist
      /\ UNCHANGED searchVars /\ UNCHANGED textVars /\ UNCHANGED feedVars /\ UNCHANGED loadVars
      /\ query' = query /\ range' = range /\ Click
  BY DEF UnbindNode, listVars, textVars, feedVars
<1>2. \A c \in Containers : NodeOf[c] \in ToSet(selectedNodes) /\ c \in Containers \ Of({n})
                              => NodeOf[c] \in ToSet(selectedNodes')
  <2>1. ToSet(selectedNodes') = ToSet(selectedNodes) \cap (Nodes \ {n})
    BY <1>1, TheScope, WithinPlain
  <2>2. QED
    BY <2>1, NodeOfAssumption DEF Of
<1>3. NextScope /\ ToSet(selectedContainers') \subseteq ToSet(selectedContainers)
  BY <1>1, <1>2, FewerNodes
<1>4. ScopeKept' /\ SearchKept' /\ TextKept' /\ ClicksKept' /\ FeedKept' /\ LoadsKept'
  BY <1>1, <1>3, PersistKept, SearchFramed, FrameKept, CountsKept, LoadsFramed
<1>5. ListKept'
  <2> DEFINE left == [nodes |-> server.list.nodes \ {n}, containers |-> server.list.containers \ Of({n})]
  <2>1. Answer(server) /\ shown \subseteq Nodes /\ discovered \subseteq Of(shown) /\ keptContainers \subseteq Containers
    BY DEF PageKept, ListKept
  <2>2. left.nodes \subseteq Nodes /\ left.containers \subseteq Of(left.nodes) /\ server.range \in HistoryRanges
    BY <2>1 DEF Answer, Of
  <2>3. ServiceBecomes(left, server.range) /\ shown' = shown \ {n} /\ discovered' = discovered \ Of({n})
    BY DEF UnbindNode
  <2> HIDE DEF left
  <2>4. Answer(server)' /\ \A a \in underway' : Answer(a)
    BY <2>2, <2>3, ServiceKept
  <2>5. shown' \subseteq Nodes /\ discovered' \subseteq Of(shown')
    BY <2>1, <2>3 DEF Of
  <2>6. QED
    BY <1>1, <2>1, <2>4, <2>5 DEF ListKept, Answer, Of
<1>6. QED
  BY <1>4, <1>5 DEF PageKept

(***************************************************************************)
(* The records of the scope.                                               *)
(***************************************************************************)
\* What leaves the scope, the lists and the texts alone.
LEMMA PageFrameKept ==
  ASSUME PageKept, PageFrame
  PROVE  /\ ScopeKept' /\ ListKept' /\ TextKept'
         /\ selectedContainers' = selectedContainers /\ query' = query
<1>1. /\ SameScope /\ UNCHANGED nodeVars /\ UNCHANGED keptContainers /\ UNCHANGED textVars
      /\ selectedContainers' = selectedContainers /\ query' = query
  BY DEF PageFrame, SameScope, scopeVars, listVars, textVars
<1>2. QED
  BY <1>1, FrameKept

\* An answer changes the load it belongs to and the cache, not the scope.
LEMMA AnswerLoadKept ==
  ASSUME PageKept, NEW s \in Slots, NEW c \in Containers, NEW ok \in BOOLEAN, NEW loading \in BOOLEAN,
         AnswerLoad(s, c, ok, loading)
  PROVE  PageKept'
<1> DEFINE load == loads[s]
           live == ~paused /\ load.key = selectedContainers
           rest == load.pending \ {c}
           failed == load.failed \/ ~ok
           more == load.loading \/ (ok /\ live /\ loading)
           left == [load EXCEPT !.pending = rest, !.loading = more, !.failed = failed]
<1>1. /\ PageFrame /\ UNCHANGED feedVars /\ UNCHANGED range /\ UNCHANGED searchVars /\ (UNCHANGED boundVars \/ Mishap)
  BY DEF AnswerLoad, feedVars
<1>2. fetched' \subseteq cache' /\ cache' \subseteq Containers
  BY DEF AnswerLoad, PageKept, LoadsKept
<1>3. loads' = [loads EXCEPT ![s] = IF rest = {} THEN NoLoad ELSE left]
  BY DEF AnswerLoad
<1>4. loads \in [Slots -> Slot] /\ load \in Slot
  BY DEF PageKept, LoadsKept
<1>5. failed \in BOOLEAN /\ more \in BOOLEAN /\ rest \in SUBSET Containers
  BY <1>4 DEF Slot
<1> HIDE DEF failed, more, rest, load
<1>6. left \in Slot
  BY <1>4, <1>5 DEF Slot
<1>7. NoLoad \in Slot
  BY DEF NoLoad, Slot
<1> HIDE DEF left
<1>8. LoadsKept'
  BY <1>2, <1>3, <1>4, <1>6, <1>7 DEF LoadsKept
<1>9. ScopeKept' /\ ListKept' /\ TextKept' /\ FeedKept' /\ ClicksKept' /\ SearchKept'
  BY <1>1, PageFrameKept, FrameKept, CountsKept, SearchFramed
<1>10. QED
  BY <1>8, <1>9 DEF PageKept

\* A retry begins at most one load, of the scope as it is.
LEMMA RetryLoadKept ==
  ASSUME PageKept, RetryLoad
  PROVE  PageKept'
<1> DEFINE targets == Targets(selectedContainers, discovered)
<1>1. /\ PageFrame /\ UNCHANGED feedVars /\ UNCHANGED range /\ UNCHANGED searchVars /\ UNCHANGED boundVars
      /\ cache' = cache /\ fetched' = fetched
  BY DEF RetryLoad, feedVars, cacheVars
<1>2. \/ loads' = loads
      \/ \E s \in Free : loads' = [loads EXCEPT ![s] = Begun(selectedContainers, targets)]
  BY DEF RetryLoad, Begun
<1>3. Begun(selectedContainers, targets) \in Slot
  <2>1. selectedContainers \in Seq(Containers) /\ targets \in SUBSET Containers
    BY TheScope DEF Plain, Targets, ToSet
  <2>2. QED
    BY <2>1, BegunType
<1>4. loads \in [Slots -> Slot] /\ fetched \subseteq cache /\ cache \subseteq Containers
  BY DEF PageKept, LoadsKept
<1> HIDE DEF targets
<1>5. loads' \in [Slots -> Slot]
  BY <1>2, <1>3, <1>4 DEF Free
<1>6. LoadsKept'
  BY <1>1, <1>4, <1>5 DEF LoadsKept
<1>7. ScopeKept' /\ ListKept' /\ TextKept' /\ FeedKept' /\ ClicksKept' /\ SearchKept'
  BY <1>1, PageFrameKept, FrameKept, SearchFramed
<1>8. QED
  BY <1>6, <1>7 DEF PageKept

\* A cache that is cleared is loaded anew.
LEMMA ClearLogCacheKept ==
  ASSUME PageKept, ClearLogCache
  PROVE  PageKept'
<1>1. /\ PageFrame /\ UNCHANGED feedVars /\ UNCHANGED range /\ UNCHANGED searchVars /\ Click /\ cache' = {} /\ fetched' = {}
      /\ LoadSelectedContainerLogs
  BY DEF ClearLogCache, feedVars, DropCache
<1>2. /\ ScopeKept' /\ ListKept' /\ TextKept' /\ FeedKept' /\ ClicksKept' /\ SearchKept'
      /\ selectedContainers' = selectedContainers
  BY <1>1, PageFrameKept, FrameKept, CountsKept, SearchFramed
<1>3. Plain(Containers, selectedContainers') /\ loads \in [Slots -> Slot]
  BY <1>2, TheScope DEF PageKept, LoadsKept
<1>4. LoadsKept'
  BY <1>1, <1>3, LoadsBegin DEF LoadsKept
<1>5. QED
  BY <1>2, <1>4 DEF PageKept

\* What the stream brings is of a container the page lists.
LEMMA FlushStreamKept ==
  ASSUME PageKept, NEW c \in Containers, FlushStream(c)
  PROVE  PageKept'
<1>1. /\ PageFrame /\ UNCHANGED feedVars /\ UNCHANGED range /\ UNCHANGED searchVars /\ UNCHANGED boundVars
      /\ cache' = cache \cup {c} /\ fetched' = fetched /\ loads' = loads
  BY DEF FlushStream, feedVars
<1>2. LoadsKept'
  BY <1>1 DEF PageKept, LoadsKept
<1>3. QED
  BY <1>1, <1>2, PageFrameKept, FrameKept, SearchFramed DEF PageKept

\* A range request that has been replaced is still one.
LEMMA ReplacedType ==
  ASSUME NEW p \in RangePost
  PROVE  [p EXCEPT !.current = FALSE] \in RangePost /\ [p EXCEPT !.served = TRUE] \in RangePost
  BY DEF RangePost

\* A new range takes the search with it.
LEMMA ChangeRangeKept ==
  ASSUME PageKept, NEW r \in HistoryRanges, ChangeRange(r)
  PROVE  PageKept'
<1>1. /\ PageFrame /\ UNCHANGED loadVars /\ Click /\ ClearFullRangeSearch
      /\ range' = r /\ UNCHANGED <<paused, connected>>
  BY DEF ChangeRange
<1>2. ClicksKept'
  BY <1>1, CountsKept
<1>3. clicks' \in 1..MaxClicks
  BY <1>1, <1>2 DEF ClicksKept, Click, PageKept
<1>4. FeedKept'
  <2> DEFINE new == [click |-> clicks', range |-> r, current |-> TRUE, served |-> FALSE]
  <2>1. new \in RangePost
    BY <1>3 DEF RangePost
  <2>2. FeedKept
    BY DEF PageKept
  <2>3. ASSUME NEW q \in rangePosts' PROVE q \in RangePost
    <3>1. q = new \/ \E p \in rangePosts : q = [p EXCEPT !.current = FALSE]
      BY DEF ChangeRange
    <3> HIDE DEF new
    <3>2. QED
      BY <2>1, <2>2, <3>1, ReplacedType DEF FeedKept
  <2>4. QED
    BY <1>1, <2>2, <2>3 DEF FeedKept
<1>5. QED
  BY <1>1, <1>2, <1>4, PageFrameKept, LoadsFramed, SearchCleared DEF PageKept

\* What the answer to a range request leaves alone.
LEMMA RangeFrameKept ==
  ASSUME PageKept, RangeFrame
  PROVE  /\ ScopeKept' /\ TextKept' /\ SearchKept'
         /\ UNCHANGED <<shown, discovered, range, paused, connected, keptContainers>>
<1>1. /\ SameScope /\ UNCHANGED textVars /\ UNCHANGED searchVars
      /\ UNCHANGED <<shown, discovered, range, paused, connected, keptContainers>>
      /\ selectedContainers' = selectedContainers /\ query' = query
  BY DEF RangeFrame, SameScope, scopeVars, listVars, textVars
<1>2. QED
  BY <1>1, FrameKept, SearchFramed

\* The service takes over a range that the page has asked for.
LEMMA ServeRangePostKept ==
  ASSUME PageKept, NEW p \in rangePosts, ServeRangePost(p)
  PROVE  PageKept'
<1>1. RangeFrame /\ UNCHANGED loadVars /\ UNCHANGED boundVars /\ ServiceBecomes(server.list, p.range)
  BY DEF ServeRangePost
<1>2. p \in RangePost /\ FeedKept /\ ListKept
  BY DEF PageKept, FeedKept
<1>10. rangePosts' \subseteq rangePosts \cup {[p EXCEPT !.served = TRUE]}
  BY <1>2 DEF ServeRangePost, RangePost
<1>3. [p EXCEPT !.served = TRUE] \in RangePost
  BY <1>2, ReplacedType
<1>4. /\ ScopeKept' /\ TextKept' /\ SearchKept' /\ LoadsKept' /\ ClicksKept'
      /\ UNCHANGED <<shown, discovered, range, paused, connected, keptContainers>>
  BY <1>1, RangeFrameKept, LoadsFramed, FrameKept
<1>5. FeedKept'
  BY <1>10, <1>2, <1>3, <1>4 DEF FeedKept
<1>6. ListKept'
  <2>1. p.range \in HistoryRanges
    BY <1>2 DEF RangePost
  <2>2. server.list.nodes \subseteq Nodes /\ server.list.containers \subseteq Of(server.list.nodes)
    BY <1>2 DEF ListKept, Answer
  <2>3. Answer(server)' /\ \A a \in underway' : Answer(a)
    BY <1>1, <2>1, <2>2, ServiceKept
  <2>4. QED
    BY <1>2, <1>4, <2>3 DEF ListKept, Answer, Of
<1>7. QED
  BY <1>4, <1>5, <1>6 DEF PageKept

\* Its answer drops the cache at most.
LEMMA AnswerRangeKept ==
  ASSUME PageKept, NEW p \in rangePosts, NEW strictReload \in BOOLEAN, AnswerRange(p, strictReload)
  PROVE  PageKept'
<1>1. /\ RangeFrame /\ UNCHANGED boundVars /\ UNCHANGED answerVars
      /\ rangePosts' \subseteq rangePosts /\ loads' = loads
      /\ (cache' = cache /\ fetched' = fetched) \/ (cache' = {} /\ fetched' = {})
  BY DEF AnswerRange, DropCache, cacheVars
<1>2. /\ ScopeKept' /\ TextKept' /\ SearchKept' /\ ClicksKept'
      /\ UNCHANGED <<shown, discovered, range, paused, connected, keptContainers>>
  BY <1>1, RangeFrameKept, FrameKept
<1>3. FeedKept' /\ LoadsKept'
  BY <1>1, <1>2 DEF PageKept, FeedKept, LoadsKept
<1>4. ListKept'
  BY <1>1, <1>2, FrameKept DEF nodeVars, answerVars
<1>5. QED
  BY <1>2, <1>3, <1>4 DEF PageKept

\* One that fails leaves the service as it is.
LEMMA FailRangeKept ==
  ASSUME PageKept, NEW p \in rangePosts, FailRange(p)
  PROVE  PageKept'
<1>1. /\ RangeFrame /\ Mishap /\ UNCHANGED answerVars /\ UNCHANGED loadVars
      /\ rangePosts' \subseteq rangePosts
  BY DEF FailRange
<1>2. /\ ScopeKept' /\ TextKept' /\ SearchKept' /\ ClicksKept' /\ LoadsKept'
      /\ UNCHANGED <<shown, discovered, range, paused, connected, keptContainers>>
  BY <1>1, RangeFrameKept, CountsKept, LoadsFramed
<1>3. FeedKept'
  BY <1>1, <1>2 DEF PageKept, FeedKept
<1>4. ListKept'
  BY <1>1, <1>2, FrameKept DEF nodeVars, answerVars
<1>5. QED
  BY <1>2, <1>3, <1>4 DEF PageKept

\* A pause gives up the retry.
LEMMA TogglePauseKept ==
  ASSUME PageKept, TogglePause
  PROVE  PageKept'
<1>1. PageFrame /\ UNCHANGED searchVars /\ UNCHANGED range /\ Click
  BY DEF TogglePause
<1>2. FeedKept' /\ LoadsKept'
  BY DEF TogglePause, PageKept, FeedKept, LoadsKept, cacheVars
<1>3. QED
  BY <1>1, <1>2, PageFrameKept, CountsKept, SearchFramed DEF PageKept

(***************************************************************************)
(* The search.                                                             *)
(***************************************************************************)
\* What leaves the scope, the lists and the records alone.
LEMMA SearchFrameKept ==
  ASSUME PageKept, SearchFrame
  PROVE  /\ ScopeKept' /\ ListKept' /\ FeedKept' /\ LoadsKept'
         /\ selectedContainers' = selectedContainers /\ range' = range
<1>1. /\ SameScope /\ UNCHANGED nodeVars /\ UNCHANGED keptContainers /\ UNCHANGED feedVars
      /\ UNCHANGED loadVars /\ selectedContainers' = selectedContainers /\ range' = range
  BY DEF SearchFrame, SameScope, scopeVars, listVars, feedVars
<1>2. QED
  BY <1>1, FrameKept, LoadsFramed

\* What is typed makes the searches on their way out of date.
LEMMA TypeQueryKept ==
  ASSUME PageKept, NEW text \in Texts \cup {NoText}, TypeQuery(text)
  PROVE  PageKept'
<1> DEFINE key == SearchKey(selectedContainers, text, globalQuery, range)
<1>1. SearchFrame /\ Click /\ query' = text /\ globalQuery' = globalQuery
  BY DEF TypeQuery
<1>2. ScopeKept' /\ ListKept' /\ FeedKept' /\ LoadsKept' /\ ClicksKept'
      /\ selectedContainers' = selectedContainers /\ range' = range
  BY <1>1, SearchFrameKept, CountsKept
<1>3. TextKept'
  BY <1>1 DEF PageKept, TextKept
<1>4. /\ searchTimer'.key \in {key, <<>>} /\ found'.key = <<>>
  BY DEF TypeQuery, NoSearch, NoTimer
<1>5. key # <<>> => key = <<range, selectedContainers, text>>
  BY DEF SearchKey
<1>6. TimerKept'
  <2> SUFFICES ASSUME searchTimer'.key # <<>>
               PROVE  searchTimer'.key[2] = selectedContainers /\ searchTimer'.key[1] = range
    BY <1>2 DEF TimerKept, ToSet
  <2> HIDE DEF key
  <2>1. searchTimer'.key = <<range, selectedContainers, text>>
    BY <1>4, <1>5
  <2>2. QED
    BY <2>1
<1>7. \A s \in searches' : ~s.current
  <2> SUFFICES ASSUME NEW s \in searches' PROVE ~s.current
    OBVIOUS
  <2>1. PICK q \in searches : s = [q EXCEPT !.current = FALSE]
    BY DEF TypeQuery
  <2>2. QED
    BY <2>1
<1>8. SearchKept'
  BY <1>4, <1>6, <1>7 DEF SearchKept
<1>9. QED
  BY <1>2, <1>3, <1>8 DEF PageKept

\* The clear button leaves the search, which is then of no text.
LEMMA ClearFiltersKept ==
  ASSUME PageKept, ClearFilters
  PROVE  PageKept'
<1>1. SearchFrame /\ UNCHANGED searchVars /\ UNCHANGED boundVars /\ query' = NoText /\ globalQuery' = globalQuery
  BY DEF ClearFilters
<1>2. TextKept'
  BY <1>1 DEF PageKept, TextKept
<1>3. QED
  BY <1>1, <1>2, SearchFrameKept, FrameKept, SearchFramed DEF PageKept

\* The other box is not part of what a search is kept for.
LEMMA TypeGlobalQueryKept ==
  ASSUME PageKept, TypeGlobalQuery
  PROVE  PageKept'
<1>1. SearchFrame /\ UNCHANGED searchVars /\ Click /\ query' = query /\ globalQuery' = ~globalQuery
  BY DEF TypeGlobalQuery
<1>2. TextKept'
  BY <1>1 DEF PageKept, TextKept
<1>3. QED
  BY <1>1, <1>2, SearchFrameKept, CountsKept, SearchFramed DEF PageKept

\* The callback of the timer asks for what the page shows, which by now is no more
\* than was selected when the timer was set.
LEMMA FireSearchKept ==
  ASSUME PageKept, FireSearch
  PROVE  PageKept'
<1> DEFINE targets == Targets(selectedContainers, discovered)
           new == [key |-> searchTimer.key, moved |-> searchTimer.moved, current |-> TRUE,
                   asked |-> <<range, targets, query>>]
<1>1. /\ SearchFrame /\ UNCHANGED textVars /\ UNCHANGED boundVars /\ query' = query
      /\ searchTimer.key # <<>> /\ searchTimer'.key = <<>> /\ found' = found
      /\ searches' = searches \cup {new}
  BY DEF FireSearch, textVars, NoTimer
<1>2. SearchKept
  BY DEF PageKept
<1>3. OfItsQuery(new, query)
  <2>1. targets \subseteq ToSet(searchTimer.key[2]) /\ (searchTimer.moved \/ range = searchTimer.key[1])
    BY <1>1, <1>2 DEF SearchKept, TimerKept, Targets
  <2>2. QED
    BY <2>1 DEF OfItsQuery
<1> HIDE DEF new
<1>4. \A s \in searches' : s.current => OfItsQuery(s, query')
  BY <1>1, <1>2, <1>3 DEF SearchKept
<1>5. found'.key # <<>> => OfItsQuery(found', query')
  BY <1>1, <1>2 DEF SearchKept
<1>6. SearchKept'
  BY <1>1, <1>4, <1>5 DEF SearchKept, TimerKept, OfItsQuery
<1>7. QED
  BY <1>1, <1>6, SearchFrameKept, FrameKept DEF PageKept

\* The answer that is shown is the one of a search that is not out of date.
LEMMA AnswerSearchKept ==
  ASSUME PageKept, NEW s \in searches, AnswerSearch(s)
  PROVE  PageKept'
<1>1. /\ SearchFrame /\ UNCHANGED textVars /\ UNCHANGED boundVars /\ query' = query
      /\ searchTimer' = searchTimer /\ searches' = searches \ {s}
      /\ found' = IF s.current /\ s.key = CurrentSearchKey THEN Result(s) ELSE found
  BY DEF AnswerSearch, textVars
<1>2. SearchKept
  BY DEF PageKept
<1>3. /\ ScopeKept' /\ ListKept' /\ FeedKept' /\ LoadsKept' /\ TextKept' /\ ClicksKept'
      /\ selectedContainers' = selectedContainers /\ range' = range
  BY <1>1, SearchFrameKept, FrameKept
<1>4. TimerKept'
  BY <1>1, <1>2, <1>3 DEF SearchKept, TimerKept, ToSet
<1>5. \A q \in searches' : q.current => OfItsQuery(q, query')
  BY <1>1, <1>2 DEF SearchKept
<1>6. found'.key # <<>> => OfItsQuery(found', query')
  <2>1. CASE s.current /\ s.key = CurrentSearchKey
    <3>1. OfItsQuery(s, query)
      BY <1>2, <2>1 DEF SearchKept
    <3>2. /\ found'.key = s.key /\ found'.asked = s.asked /\ found'.moved = s.moved
      BY <1>1, <2>1 DEF Result
    <3>3. QED
      BY <1>1, <3>1, <3>2 DEF OfItsQuery
  <2>2. CASE ~(s.current /\ s.key = CurrentSearchKey)
    BY <1>1, <1>2, <2>2 DEF SearchKept
  <2>3. QED
    BY <2>1, <2>2
<1>7. SearchKept'
  BY <1>4, <1>5, <1>6 DEF SearchKept, OfItsQuery
<1>8. QED
  BY <1>3, <1>7 DEF PageKept

(***************************************************************************)
(* A reload, the first page, and the theorem.                              *)
(***************************************************************************)
\* What the page restores is the scope it had, or nothing.
LEMMA RestoredScope ==
  ASSUME PageKept, ReloadLogPage
  PROVE  ScopeKept'
<1>1. /\ multiSelect' = storedScope.multi /\ hiddenContainers' = storedScope.hidden
      /\ selectedNodes' = IF storedScope.multi \/ Len(storedScope.nodes) <= 1
                          THEN storedScope.nodes ELSE SubSeq(storedScope.nodes, 1, 1)
      /\ selectedContainers' = Within(storedScope.containers, Of(ToSet(selectedNodes')) \ storedScope.hidden)
      /\ storedScope' = storedScope /\ storageWorks' = storageWorks
  BY DEF ReloadLogPage
<1>2. CASE storageWorks
  <2>1. /\ storedScope.multi = multiSelect /\ storedScope.nodes = selectedNodes
        /\ storedScope.containers = selectedContainers /\ storedScope.hidden = hiddenContainers
    BY <1>2 DEF PageKept, ScopeKept
  <2>2. multiSelect' = multiSelect /\ hiddenContainers' = hiddenContainers /\ selectedNodes' = selectedNodes
    BY <1>1, <2>1, TheScope
  <2>3. ToSet(selectedContainers) \subseteq Of(ToSet(selectedNodes)) \ hiddenContainers
    BY TheScope DEF Of, Plain, ToSet
  <2>4. Within(selectedContainers, Of(ToSet(selectedNodes)) \ hiddenContainers) = selectedContainers
    BY <2>3, TheScope, WithinPlain
  <2>5. selectedContainers' = selectedContainers
    BY <1>1, <2>1, <2>2, <2>4
  <2>6. SameScope
    BY <1>1, <2>2, <2>5 DEF SameScope, scopeVars
  <2>7. QED
    BY <2>6, FrameKept
<1>3. CASE ~storageWorks
  <2>1. storedScope = NothingStored
    BY <1>3 DEF PageKept, ScopeKept
  <2>2. /\ storedScope.multi = FALSE /\ storedScope.nodes = <<>> /\ storedScope.containers = <<>> /\ storedScope.hidden = {}
    BY <2>1 DEF NothingStored
  <2>3. selectedNodes' = <<>> /\ multiSelect' = FALSE /\ hiddenContainers' = {}
    BY <1>1, <2>2
  <2>4. Within(<<>>, Of(ToSet(selectedNodes')) \ storedScope.hidden) = <<>>
    BY EmptyPlain, WithinPlain
  <2>5. selectedContainers' = <<>>
    BY <1>1, <2>2, <2>4
  <2>6. NextScope
    <3>1. Scope(<<>>, <<>>, FALSE, {})
      <4>1. Plain(Nodes, <<>>) /\ Plain(Containers, <<>>) /\ Len(<<>>) <= 1
            /\ \A c \in ToSet(<<>>) : NodeOf[c] \in ToSet(<<>>) /\ c \notin {}
        BY EmptyPlain
      <4>2. QED
        BY <4>1 DEF Scope, Plain
    <3>2. QED
      BY <2>3, <2>5, <3>1 DEF NextScope
  <2>7. QED
    <3>1. storageWorks' = FALSE /\ storedScope' = NothingStored
      BY <1>1, <1>3, <2>1 DEF PageKept, ScopeKept
    <3>2. QED
      BY <2>6, <3>1 DEF ScopeKept, NextScope, Scope, NothingStored
<1>4. QED
  BY <1>2, <1>3

\* The rest of the page is that of a fresh one.
LEMMA ReloadPageKept ==
  ASSUME PageKept, ReloadLogPage
  PROVE  PageKept'
<1>1. Click /\ server' = server /\ underway' = {} /\ shown' = {} /\ discovered' = {} /\ keptContainers' = {}
  BY DEF ReloadLogPage
<1>2. ListKept'
  BY <1>1 DEF PageKept, ListKept, Answer, Of
<1>3. FeedKept'
  <2>1. FeedKept
    BY DEF PageKept
  <2>2. ASSUME NEW q \in rangePosts' PROVE q \in RangePost
    <3>1. \E p \in rangePosts : q = [p EXCEPT !.current = FALSE]
      BY DEF ReloadLogPage
    <3>2. QED
      BY <2>1, <3>1, ReplacedType DEF FeedKept
  <2>3. paused' = FALSE /\ connected' = FALSE /\ range' = DefaultRange
    BY DEF ReloadLogPage
  <2>4. QED
    BY <2>2, <2>3, RangesAssumption DEF FeedKept
<1>4. LoadsKept'
  <2>1. NoLoad \in Slot
    BY DEF NoLoad, Slot
  <2>2. cache' = {} /\ fetched' = {} /\ loads' = [s \in Slots |-> NoLoad]
    BY DEF ReloadLogPage, DropCache
  <2>3. QED
    BY <2>1, <2>2 DEF LoadsKept
<1>5. SearchKept'
  BY DEF ReloadLogPage, SearchKept, TimerKept, NoTimer, NoSearch
<1>6. TextKept'
  BY DEF ReloadLogPage, TextKept
<1>7. QED
  BY <1>1, <1>2, <1>3, <1>4, <1>5, <1>6, RestoredScope, CountsKept DEF PageKept

\* A fresh page: nothing is selected, asked for or counted.
LEMMA InitKept == ScopeInit => PageKept
<1> SUFFICES ASSUME ScopeInit PROVE PageKept
  OBVIOUS
<1>1. Scope(<<>>, <<>>, storedScope.multi, {}) /\ storedScope.multi \in BOOLEAN
  <2>1. PICK multi \in {storageWorks, FALSE} :
          storedScope = [nodes |-> <<>>, containers |-> <<>>, multi |-> multi, hidden |-> {}]
    BY DEF ScopeInit
  <2>2. storageWorks \in BOOLEAN
    BY DEF ScopeInit
  <2>3. storedScope.multi \in BOOLEAN
    BY <2>1, <2>2
  <2>4. QED
    BY <2>3, EmptyPlain, IsScope
<1>2. ScopeKept
  <2>1. selectedNodes = <<>> /\ selectedContainers = <<>> /\ multiSelect = storedScope.multi /\ hiddenContainers = {}
    BY DEF ScopeInit
  <2>2. storageWorks \in BOOLEAN
        /\ storedScope = [nodes |-> <<>>, containers |-> <<>>, multi |-> storedScope.multi, hidden |-> {}]
        /\ (~storageWorks => storedScope.multi = FALSE)
    <3>1. PICK multi \in {storageWorks, FALSE} :
            storedScope = [nodes |-> <<>>, containers |-> <<>>, multi |-> multi, hidden |-> {}]
      BY DEF ScopeInit
    <3>2. storageWorks \in BOOLEAN
      BY DEF ScopeInit
    <3>3. QED
      BY <3>1, <3>2
  <2>3. QED
    BY <1>1, <2>1, <2>2 DEF ScopeKept, NothingStored
<1>3. ListKept
  BY NodeOfAssumption, RangesAssumption DEF ScopeInit, ListKept, Answer, Of
<1>4. FeedKept
  BY RangesAssumption DEF ScopeInit, FeedKept
<1>5. LoadsKept
  <2>1. NoLoad \in Slot
    BY DEF NoLoad, Slot
  <2>2. QED
    BY <2>1 DEF ScopeInit, LoadsKept
<1>6. SearchKept
  BY DEF ScopeInit, SearchKept, TimerKept, NoTimer, NoSearch
<1>7. TextKept /\ ClicksKept
  <2>1. query = NoText /\ globalQuery = FALSE /\ clicks = 0 /\ mishaps = 0
    BY DEF ScopeInit
  <2>2. QED
    <3>1. TextKept
      BY <2>1 DEF TextKept
    <3>2. ClicksKept
      BY <2>1, ScopeBoundsAssumption DEF ClicksKept
    <3>3. QED
      BY <3>1, <3>2
<1>8. QED
  BY <1>2, <1>3, <1>4, <1>5, <1>6, <1>7 DEF PageKept

\* A step that changes nothing.
LEMMA StutterKept ==
  ASSUME PageKept, UNCHANGED logPageVars
  PROVE  PageKept'
<1>1. /\ SameScope /\ UNCHANGED nodeVars /\ UNCHANGED keptContainers /\ UNCHANGED feedVars
      /\ UNCHANGED loadVars /\ UNCHANGED searchVars /\ UNCHANGED textVars /\ UNCHANGED boundVars
      /\ selectedContainers' = selectedContainers /\ query' = query /\ range' = range
  BY DEF logPageVars, SameScope, scopeVars, listVars, textVars, feedVars
<1>2. QED
  BY <1>1, FrameKept, LoadsFramed, SearchFramed DEF PageKept

\* Every handler keeps the invariant.
LEMMA NextKept == PageKept /\ [ScopeNext]_logPageVars => PageKept'
<1> SUFFICES ASSUME PageKept, [ScopeNext]_logPageVars PROVE PageKept'
  OBVIOUS
<1>1. ASSUME NEW n \in Nodes, ClickNode(n) \/ RestoreContainers(n) \/ ClearKeep(n)
                              \/ RemoveOtherContainers(n) \/ UnbindNode(n)
      PROVE  PageKept'
  BY <1>1, ClickNodeKept, RestoreContainersKept, ClearKeepKept, RemoveOtherContainersKept, UnbindNodeKept
<1>2. ASSUME NEW c \in Containers, ClickContainer(c) \/ HideContainer(c) \/ ToggleKeep(c)
                                   \/ FlushStream(c)
      PROVE  PageKept'
  BY <1>2, ClickContainerKept, HideContainerKept, ToggleKeepKept, FlushStreamKept
<1>3. ASSUME NEW b \in BOOLEAN, SetMultiSelect(b) \/ \E p \in rangePosts : AnswerRange(p, b)
      PROVE  PageKept'
  BY <1>3, SetMultiSelectKept, AnswerRangeKept
<1>14. ASSUME NEW p \in rangePosts, ServeRangePost(p) \/ FailRange(p)
       PROVE  PageKept'
  BY <1>14, ServeRangePostKept, FailRangeKept
<1>4. ASSUME NEW r \in HistoryRanges, ChangeRange(r)
      PROVE  PageKept'
  BY <1>4, ChangeRangeKept
<1>5. ASSUME NEW l \in Lists, NEW r \in HistoryRanges, ServerChanges(l, r)
      PROVE  PageKept'
  BY <1>5, ServerChangesKept
<1>6. ASSUME SyncWhenever \/ LoseBackend \/ ClearLogCache \/ TogglePause \/ ReloadLogPage
      PROVE  PageKept'
  BY <1>6, SyncGoBackendKept, LoseBackendKept, ClearLogCacheKept, TogglePauseKept, ReloadPageKept DEF SyncWhenever
<1>7. ASSUME NEW s \in Slots, NEW c \in Containers, NEW ok \in BOOLEAN, NEW loading \in BOOLEAN,
             AnswerLoad(s, c, ok, loading)
      PROVE  PageKept'
  BY <1>7, AnswerLoadKept
<1>8. ASSUME RetryLoad PROVE PageKept'
  BY <1>8, RetryLoadKept
<1>9. ASSUME NEW text \in Texts \cup {NoText}, TypeQuery(text)
      PROVE  PageKept'
  BY <1>9, TypeQueryKept
<1>10. ASSUME ClearFilters \/ TypeGlobalQuery \/ FireSearch
       PROVE  PageKept'
  BY <1>10, ClearFiltersKept, TypeGlobalQueryKept, FireSearchKept
<1>11. ASSUME NEW s \in searches, AnswerSearch(s)
       PROVE  PageKept'
  BY <1>11, AnswerSearchKept
<1>12. CASE UNCHANGED logPageVars
  BY <1>12, StutterKept
<1>13. QED
  BY <1>1, <1>2, <1>3, <1>4, <1>5, <1>6, <1>7, <1>8, <1>9, <1>10, <1>11, <1>12, <1>14
     DEF ScopeNext, LoadAnswers, SearchAnswers

\* The invariant holds at every moment.
THEOREM AlwaysKept == ScopeSpec => []PageKept
<1>1. ScopeInit => PageKept
  BY InitKept
<1>2. QED
  BY <1>1, NextKept, PTL DEF ScopeSpec

\* At every moment the selected containers belong to selected nodes and are not
\* dropped from the lists, one node at most is selected while the switch is off, and
\* a reload restores just that where the browser stores it (handleNodeClick,
\* handleContainerClick, dropContainersFromScope, persistSelection).
THEOREM ScopeIsAlwaysKept == ScopeSpec => []ScopeIsKept
<1>1. PageKept => ScopeIsKept
  <2> SUFFICES ASSUME PageKept PROVE ScopeIsKept
    OBVIOUS
  <2>1. ScopeTypeOK
    BY TheScope DEF PageKept, ListKept, FeedKept, LoadsKept, TextKept, ClicksKept, Plain, ScopeTypeOK
  <2>2. ScopeIsSound
    <3>1. \A e : Contains(selectedNodes, e) <=> e \in ToSet(selectedNodes)
      BY TheScope, ContainsIsIn
    <3>2. QED
      BY <3>1, TheScope DEF ScopeIsSound
  <2>3. ScopeSurvivesReload
    BY DEF PageKept, ScopeKept, ScopeSurvivesReload
  <2>4. QED
    BY <2>1, <2>2, <2>3 DEF ScopeIsKept
<1>2. QED
  BY <1>1, AlwaysKept, PTL

\* The records shown as the result of a full-range search were asked for with the
\* text and within the containers they are shown for, and with the range unless a poll
\* moved it between the typing and the question, whatever was typed, clicked or answered
\* since (scheduleFullRangeSearch, its request counter and its key).
THEOREM SearchShownIsAlwaysOfItsQuery == ScopeSpec => []SearchShownIsOfItsQuery
<1>1. PageKept => SearchShownIsOfItsQuery
  <2> SUFFICES ASSUME PageKept, found.key # <<>>, found.key = CurrentSearchKey
               PROVE  /\ found.asked[3] = query /\ found.asked[2] \subseteq ToSet(selectedContainers)
                      /\ found.moved \/ found.asked[1] = range
    BY DEF SearchShownIsOfItsQuery
  <2>1. query # NoText /\ found.key = <<range, selectedContainers, query>>
    BY DEF CurrentSearchKey, SearchKey
  <2>2. found.key[1] = range /\ found.key[2] = selectedContainers
    BY <2>1
  <2>3. OfItsQuery(found, query)
    BY DEF PageKept, SearchKept
  <2>4. QED
    BY <2>1, <2>2, <2>3 DEF OfItsQuery
<1>2. QED
  BY <1>1, AlwaysKept, PTL

(***************************************************************************)
(* The record feed of the page (LogFeed): for every number of requests on  *)
(* their way, every capacity, slack and batch, and every bound.            *)
(***************************************************************************)
(***************************************************************************)
(* The order of the records.                                               *)
(***************************************************************************)
\* What the bounds are.
LEMMA FeedBounds ==
  /\ Capacity \in Nat \ {0} /\ Slack \in Nat \ {0} /\ MaxPending \in Nat \ {0}
  /\ MaxRecords \in Nat \ {0} /\ MaxRestarts \in Nat /\ MaxEvents \in Nat
  BY FeedBoundsAssumption

\* Ages are whole numbers, and those of two records differ: a service numbers its
\* records within a span of its own, and an id is one of a history load or of none.
LEMMA AgesDiffer ==
  ASSUME NEW q \in Record, NEW r \in Record
  PROVE  Age(q) \in Int /\ (Age(q) = Age(r) => q = r)
<1> DEFINE M == MaxRecords
           side(x) == IF x \in HistoryIds THEN -x ELSE x
<1>1. M \in Nat /\ M >= 1
  BY FeedBounds
<1>2. PICK a, x : a = q.epoch /\ x = q.id
  OBVIOUS
<1>3. PICK b, y : b = r.epoch /\ y = r.id
  OBVIOUS
<1>4. a \in Nat /\ b \in Nat /\ x \in 1..M /\ y \in 1..M
  BY <1>2, <1>3, FeedBounds DEF Record
<1>5. Age(q) = a * 2 * M + side(x) /\ Age(r) = b * 2 * M + side(y)
  BY <1>2, <1>3 DEF Age
<1>6. /\ side(x) \in Int /\ side(y) \in Int
      /\ (side(x) = x /\ x \notin HistoryIds) \/ (side(x) = -x /\ x \in HistoryIds)
      /\ (side(y) = y /\ y \notin HistoryIds) \/ (side(y) = -y /\ y \in HistoryIds)
  BY <1>1, <1>4
<1> HIDE DEF M, side
<1>7. \A c, d \in Nat : c < d => c * 2 * M + 2 * M <= d * 2 * M
  <2> SUFFICES ASSUME NEW c \in Nat, NEW d \in Nat, c < d PROVE c * 2 * M + 2 * M <= d * 2 * M
    OBVIOUS
  <2>1. PICK e \in Nat : d = c + 1 + e
    <3>1. d - c - 1 \in Nat /\ d = c + 1 + (d - c - 1)
      OBVIOUS
    <3>2. QED
      BY <3>1
  <2>2. d * 2 * M = c * 2 * M + 2 * M + e * 2 * M
    BY <1>1, <2>1
  <2>3. e * 2 * M \in Nat /\ c * 2 * M \in Nat
    BY <1>1
  <2>4. QED
    BY <1>1, <2>2, <2>3
<1>8. a * 2 * M \in Nat /\ b * 2 * M \in Nat
  BY <1>1, <1>4
<1>9. ASSUME Age(q) = Age(r) PROVE q = r
  <2>1. a * 2 * M + side(x) = b * 2 * M + side(y)
    BY <1>5, <1>9
  <2>2. ~ (a < b)
    <3> SUFFICES ASSUME a < b PROVE FALSE
      OBVIOUS
    <3>1. a * 2 * M + 2 * M <= b * 2 * M
      BY <1>4, <1>7
    <3>2. side(x) - side(y) >= 2 * M
      BY <1>1, <1>6, <1>8, <2>1, <3>1
    <3>3. side(x) = M /\ side(y) = -M
      BY <1>1, <1>4, <1>6, <3>2
    <3>4. x = M /\ y = M
      BY <1>1, <1>4, <1>6, <3>3
    <3>5. QED
      BY <1>1, <1>6, <3>3, <3>4
  <2>3. ~ (b < a)
    <3> SUFFICES ASSUME b < a PROVE FALSE
      OBVIOUS
    <3>1. b * 2 * M + 2 * M <= a * 2 * M
      BY <1>4, <1>7
    <3>2. side(y) - side(x) >= 2 * M
      BY <1>1, <1>6, <1>8, <2>1, <3>1
    <3>3. side(y) = M /\ side(x) = -M
      BY <1>1, <1>4, <1>6, <3>2
    <3>4. x = M /\ y = M
      BY <1>1, <1>4, <1>6, <3>3
    <3>5. QED
      BY <1>1, <1>6, <3>3, <3>4
  <2>4. a = b
    BY <1>4, <2>2, <2>3
  <2>5. side(x) = side(y)
    BY <1>6, <1>8, <2>1, <2>4
  <2>6. x = y
    BY <1>4, <1>6, <2>5
  <2>7. q = [epoch |-> a, id |-> x] /\ r = [epoch |-> b, id |-> y]
    BY <1>2, <1>3 DEF Record
  <2>8. QED
    BY <2>4, <2>6, <2>7
<1>10. Age(q) \in Int
  BY <1>5, <1>6, <1>8
<1>11. QED
  BY <1>9, <1>10

\* The order is a strict and total one.
LEMMA NewerOrders ==
  /\ \A r \in Record : ~Newer(r, r)
  /\ \A q, r \in Record : q # r => Newer(q, r) \/ Newer(r, q)
  /\ \A q, r \in Record : Newer(q, r) => ~Newer(r, q)
  /\ \A p, q, r \in Record : Newer(p, q) /\ Newer(q, r) => Newer(p, r)
<1>1. \A r \in Record : Age(r) \in Int
  BY AgesDiffer
<1>2. \A q, r \in Record : Age(q) = Age(r) => q = r
  BY AgesDiffer
<1>3. QED
  BY <1>1, <1>2 DEF Newer

\* How many of a set of records are newer than one.
Ahead(S, r) == Cardinality({q \in S : Newer(q, r)})

\* The records of a finite set have the places from 0 on, one each and in order.
LEMMA PlacesAreDense ==
  ASSUME NEW S, S \subseteq Record, IsFiniteSet(S)
  PROVE  /\ Cardinality(S) \in Nat
         /\ \A q, r \in S : Newer(q, r) => Ahead(S, q) < Ahead(S, r)
         /\ \A r \in S : Ahead(S, r) \in 0..(Cardinality(S) - 1)
         /\ \A q, r \in S : Ahead(S, q) = Ahead(S, r) => q = r
         /\ \A k \in 0..(Cardinality(S) - 1) : \E r \in S : Ahead(S, r) = k
<1> DEFINE Above(r) == {q \in S : Newer(q, r)}
<1>1. /\ \A r \in S : ~Newer(r, r)
      /\ \A q, r \in S : q # r => Newer(q, r) \/ Newer(r, q)
      /\ \A p, q, r \in S : Newer(p, q) /\ Newer(q, r) => Newer(p, r)
  BY NewerOrders
<1>2. \A r \in S : Above(r) \in SUBSET (S \ {r})
  BY <1>1
<1>3. \A q, r \in S : Newer(q, r) => Above(q) \in SUBSET Above(r) /\ q \in Above(r) /\ q \notin Above(q)
  BY <1>1
<1>4. \A r : Ahead(S, r) = Cardinality(Above(r))
  BY DEF Ahead
<1>5. Cardinality(S) \in Nat
  BY FS_CardinalityType
<1>6. \A r : Above(r) \in SUBSET S
  OBVIOUS
<1> HIDE DEF Above
<1>7. \A r : IsFiniteSet(Above(r)) /\ Cardinality(Above(r)) \in Nat
  BY <1>6, FS_Subset, FS_CardinalityType
<1>8. \A q, r \in S : Newer(q, r) => Ahead(S, q) < Ahead(S, r)
  <2> SUFFICES ASSUME NEW q \in S, NEW r \in S, Newer(q, r)
               PROVE  Cardinality(Above(q)) < Cardinality(Above(r))
    BY <1>4
  <2>1. Cardinality(Above(q)) <= Cardinality(Above(r)) /\ Cardinality(Above(q)) # Cardinality(Above(r))
    BY <1>3, <1>7, FS_Subset
  <2>2. QED
    BY <1>7, <2>1
<1>9. \A r \in S : Ahead(S, r) \in 0..(Cardinality(S) - 1)
  <2> SUFFICES ASSUME NEW r \in S PROVE Cardinality(Above(r)) \in 0..(Cardinality(S) - 1)
    BY <1>4
  <2>1. IsFiniteSet(S \ {r}) /\ Cardinality(S \ {r}) = Cardinality(S) - 1
    BY FS_RemoveElement
  <2>2. Cardinality(Above(r)) <= Cardinality(S \ {r})
    BY <1>2, <2>1, FS_Subset
  <2>3. QED
    BY <1>5, <1>7, <2>1, <2>2
<1>10. \A q, r \in S : Ahead(S, q) = Ahead(S, r) => q = r
  <2> SUFFICES ASSUME NEW q \in S, NEW r \in S, Ahead(S, q) = Ahead(S, r), q # r PROVE FALSE
    OBVIOUS
  <2>1. Ahead(S, q) < Ahead(S, r) \/ Ahead(S, r) < Ahead(S, q)
    BY <1>1, <1>8
  <2>2. Ahead(S, q) \in Nat /\ Ahead(S, r) \in Nat
    BY <1>9
  <2>3. QED
    BY <2>1, <2>2
<1>11. \A k \in 0..(Cardinality(S) - 1) : \E r \in S : Ahead(S, r) = k
  <2> DEFINE place == [r \in S |-> Ahead(S, r)]
  <2>1. place \in [S -> 0..(Cardinality(S) - 1)]
    BY <1>9
  <2>2. \A q, r \in S : place[q] = place[r] => q = r
    BY <1>10
  <2>3. IsFiniteSet(0..(Cardinality(S) - 1)) /\ Cardinality(0..(Cardinality(S) - 1)) = Cardinality(S)
    <3>1. Cardinality(S) - 1 \in Int /\ 0 \in Int
      BY <1>5
    <3>2. /\ IsFiniteSet(0..(Cardinality(S) - 1))
          /\ Cardinality(0..(Cardinality(S) - 1))
               = IF 0 > Cardinality(S) - 1 THEN 0 ELSE Cardinality(S) - 1 - 0 + 1
      BY <3>1, FS_Interval
    <3>3. QED
      BY <1>5, <3>2
  <2> HIDE DEF place
  <2>4. place \in Injection(S, 0..(Cardinality(S) - 1))
    BY <2>1, <2>2 DEF Injection, IsInjective
  <2>5. place \in Surjection(S, 0..(Cardinality(S) - 1))
    BY <2>3, <2>4, FS_Injection
  <2>6. QED
    BY <2>5 DEF Surjection, place
<1>12. QED
  BY <1>5, <1>8, <1>9, <1>10, <1>11

\* A list that is newest first.
Descending(q) == \A i, j \in DOMAIN q : i < j => Newer(q[i], q[j])

\* sortLogsNewest gives the records of the set, newest first.
LEMMA SortedNewest ==
  ASSUME NEW S, S \subseteq Record, IsFiniteSet(S)
  PROVE  /\ NewestFirst(S) \in Seq(Record) /\ Len(NewestFirst(S)) = Cardinality(S)
         /\ ToSet(NewestFirst(S)) = S /\ Descending(NewestFirst(S))
         /\ \A k \in 1..Cardinality(S) : NewestFirst(S)[k] \in S /\ Ahead(S, NewestFirst(S)[k]) = k - 1
<1> DEFINE n == Cardinality(S)
           at(k) == CHOOSE r \in S : Ahead(S, r) = k - 1
           q == NewestFirst(S)
<1>1. /\ n \in Nat
      /\ \A x, y \in S : Newer(x, y) => Ahead(S, x) < Ahead(S, y)
      /\ \A r \in S : Ahead(S, r) \in 0..(n - 1)
      /\ \A x, y \in S : Ahead(S, x) = Ahead(S, y) => x = y
      /\ \A k \in 0..(n - 1) : \E r \in S : Ahead(S, r) = k
  BY PlacesAreDense
<1>2. q = [k \in 1..n |-> at(k)]
  <2> DEFINE of(k) == CHOOSE r \in S : Cardinality({p \in S : Newer(p, r)}) = k - 1
  <2>1. \A r : Cardinality({p \in S : Newer(p, r)}) = Ahead(S, r)
    BY DEF Ahead
  <2>2. \A k : of(k) = at(k)
    BY <2>1
  <2>3. NewestFirst(S) = [k \in 1..Cardinality(S) |-> of(k)]
    BY DEF NewestFirst
  <2> HIDE DEF of, at
  <2>4. QED
    BY <2>2, <2>3
<1> HIDE DEF n, q
<1>3. \A k \in 1..n : at(k) \in S /\ Ahead(S, at(k)) = k - 1
  <2> TAKE k \in 1..n
  <2>1. k - 1 \in 0..(n - 1)
    BY <1>1
  <2>2. \E r \in S : Ahead(S, r) = k - 1
    BY <1>1, <2>1
  <2>3. QED
    BY <2>2
<1> HIDE DEF at
<1>4. /\ \A k \in 1..n : q[k] \in S /\ Ahead(S, q[k]) = k - 1
      /\ DOMAIN q = 1..n
  BY <1>2, <1>3
<1>5. q \in Seq(Record) /\ Len(q) = n
  <2>1. \A k \in 1..n : at(k) \in Record
    BY <1>3
  <2>2. QED
    BY <1>1, <1>2, <2>1
<1>6. ToSet(q) = S
  <2>1. ASSUME NEW r \in S PROVE r \in ToSet(q)
    <3>1. PICK p : p = Ahead(S, r)
      OBVIOUS
    <3>2. PICK k : k = p + 1
      OBVIOUS
    <3>3. p \in 0..(n - 1)
      BY <1>1, <3>1
    <3>4. k \in 1..n /\ k - 1 = p
      BY <1>1, <3>2, <3>3
    <3>5. q[k] \in S /\ Ahead(S, q[k]) = Ahead(S, r)
      BY <1>4, <3>1, <3>4
    <3>6. q[k] = r
      BY <1>1, <3>5
    <3>7. QED
      BY <1>4, <3>4, <3>6 DEF ToSet
  <2>2. ASSUME NEW r \in ToSet(q) PROVE r \in S
    BY <1>4, <2>2 DEF ToSet
  <2>3. QED
    BY <2>1, <2>2
<1>7. Descending(q)
  <2> SUFFICES ASSUME NEW i \in 1..n, NEW j \in 1..n, i < j PROVE Newer(q[i], q[j])
    BY <1>4 DEF Descending
  <2>1. q[i] \in S /\ q[j] \in S /\ Ahead(S, q[i]) = i - 1 /\ Ahead(S, q[j]) = j - 1
    BY <1>4
  <2>2. ~Newer(q[j], q[i]) /\ q[i] # q[j]
    <3>1. i - 1 < j - 1 /\ i \in Nat /\ j \in Nat
      BY <1>1
    <3>2. QED
      BY <1>1, <2>1, <3>1
  <2>3. QED
    BY <2>1, <2>2, NewerOrders
<1>8. QED
  BY <1>4, <1>5, <1>6, <1>7 DEF n, q

\* The newest of a set are at most as many as the page keeps.
LEMMA NewestAreFew ==
  ASSUME NEW S, S \subseteq Record, IsFiniteSet(S)
  PROVE  /\ Newest(S) \subseteq S /\ IsFiniteSet(Newest(S))
         /\ Cardinality(Newest(S)) <= Capacity
<1> DEFINE N == Newest(S)
           place == [r \in N |-> Ahead(S, r)]
<1>1. /\ Cardinality(S) \in Nat
      /\ \A r \in S : Ahead(S, r) \in 0..(Cardinality(S) - 1)
      /\ \A x, y \in S : Ahead(S, x) = Ahead(S, y) => x = y
  BY PlacesAreDense
<1>2. N \in SUBSET S /\ \A r \in N : Ahead(S, r) < Capacity
  BY DEF Newest, Ahead
<1>3. IsFiniteSet(N)
  BY <1>2, FS_Subset
<1> HIDE DEF N
<1>4. IsFiniteSet(0..(Capacity - 1)) /\ Cardinality(0..(Capacity - 1)) = Capacity
  <2>1. Capacity - 1 \in Int /\ 0 \in Int
    BY FeedBounds
  <2>2. /\ IsFiniteSet(0..(Capacity - 1))
        /\ Cardinality(0..(Capacity - 1)) = IF 0 > Capacity - 1 THEN 0 ELSE Capacity - 1 - 0 + 1
    BY <2>1, FS_Interval
  <2>3. QED
    BY <2>2, FeedBounds
<1>5. place \in [N -> 0..(Capacity - 1)]
  <2>1. \A r \in N : Ahead(S, r) \in 0..(Capacity - 1)
    BY <1>1, <1>2, FeedBounds
  <2>2. QED
    BY <2>1
<1>6. \A x, y \in N : place[x] = place[y] => x = y
  BY <1>1, <1>2
<1> HIDE DEF place
<1>7. place \in Injection(N, 0..(Capacity - 1))
  BY <1>5, <1>6 DEF Injection, IsInjective
<1>8. Cardinality(N) <= Capacity
  BY <1>4, <1>7, FS_Injection
<1>9. QED
  BY <1>2, <1>3, <1>8 DEF N

\* As many elements as positions, in a list whose elements differ.
LEMMA PositionsCount ==
  ASSUME NEW q \in Seq(Record), NEW P \in SUBSET DOMAIN q,
         \A i, j \in DOMAIN q : q[i] = q[j] => i = j,
         NEW T, \A i \in P : q[i] \in T, \A t \in T : \E i \in P : q[i] = t
  PROVE  /\ IsFiniteSet(P) /\ Cardinality(P) \in Nat
         /\ IsFiniteSet(T) /\ Cardinality(T) = Cardinality(P)
<1> DEFINE f == [i \in P |-> q[i]]
<1>1. Len(q) \in Int /\ 1 \in Int /\ DOMAIN q = 1..Len(q)
  OBVIOUS
<1>2. IsFiniteSet(1..Len(q))
  BY <1>1, FS_Interval
<1>3. IsFiniteSet(P) /\ Cardinality(P) \in Nat
  BY <1>1, <1>2, FS_Subset, FS_CardinalityType
<1>4. /\ f \in [P -> T] /\ \A t \in T : \E i \in P : f[i] = t
      /\ \A i, j \in P : f[i] = f[j] => i = j
  OBVIOUS
<1> HIDE DEF f
<1>5. f \in Surjection(P, T) /\ f \in Injection(P, T)
  BY <1>4 DEF Surjection, Injection, IsInjective
<1>6. IsFiniteSet(T) /\ Cardinality(T) = Cardinality(P)
  BY <1>3, <1>5, FS_Surjection
<1>7. QED
  BY <1>3, <1>6

\* Two lists without a record in common, each newest first.
Apart(old, new) ==
  /\ old \in Seq(Record) /\ new \in Seq(Record)
  /\ Descending(old) /\ Descending(new) /\ ToSet(old) \cap ToSet(new) = {}

\* The elements of a list that is newest first differ, and those before one are the
\* newer ones.
LEMMA DescendingElements ==
  ASSUME NEW q \in Seq(Record), Descending(q)
  PROVE  /\ \A i, j \in DOMAIN q : q[i] = q[j] => i = j
         /\ \A i, j \in DOMAIN q : i < j <=> Newer(q[i], q[j])
<1>1. /\ \A i \in DOMAIN q : q[i] \in Record /\ i \in Nat
      /\ \A i, j \in DOMAIN q : i < j => Newer(q[i], q[j])
  BY DEF Descending
<1>2. ASSUME NEW i \in DOMAIN q, NEW j \in DOMAIN q
      PROVE  (q[i] = q[j] => i = j) /\ (i < j <=> Newer(q[i], q[j]))
  <2>1. i \in Nat /\ j \in Nat /\ q[i] \in Record /\ q[j] \in Record
    BY <1>1
  <2>2. i < j \/ j < i \/ i = j
    BY <2>1
  <2>3. (i < j => Newer(q[i], q[j])) /\ (j < i => Newer(q[j], q[i]))
    BY <1>1
  <2>4. ~Newer(q[i], q[i]) /\ (Newer(q[i], q[j]) => ~Newer(q[j], q[i])) /\ ~(i < i)
    BY <2>1, NewerOrders
  <2>5. QED
    BY <2>2, <2>3, <2>4, NewerOrders, <2>1
<1>3. QED
  BY <1>2

\* An element of one list comes after those before it and the newer ones of the other:
\* as many as are newer than it in both.
LEMMA PlaceInBoth ==
  ASSUME NEW p, NEW q, Apart(p, q), NEW i \in DOMAIN p
  PROVE  /\ Ahead(ToSet(p) \cup ToSet(q), p[i]) \in Nat
         /\ i + Cardinality({j \in DOMAIN q : Newer(q[j], p[i])}) = Ahead(ToSet(p) \cup ToSet(q), p[i]) + 1
<1> DEFINE before == 1..(i - 1)
           ahead == {j \in DOMAIN q : Newer(q[j], p[i])}
           A == {p[h] : h \in before}
           B == {q[j] : j \in ahead}
           both == {r \in ToSet(p) \cup ToSet(q) : Newer(r, p[i])}
<1>1. /\ p \in Seq(Record) /\ q \in Seq(Record) /\ DOMAIN p = 1..Len(p) /\ Len(p) \in Nat
      /\ i \in 1..Len(p) /\ before \in SUBSET DOMAIN p /\ ahead \in SUBSET DOMAIN q
  BY DEF Apart
<1>2. /\ \A h, j \in DOMAIN p : p[h] = p[j] => h = j
      /\ \A h, j \in DOMAIN p : h < j <=> Newer(p[h], p[j])
      /\ \A h, j \in DOMAIN q : q[h] = q[j] => h = j
  BY <1>1, DescendingElements DEF Apart
<1> HIDE DEF before, ahead
<1>3. IsFiniteSet(A) /\ Cardinality(A) = i - 1
  <2>5. p \in Seq(Record) /\ before \in SUBSET DOMAIN p /\ \A h, j \in DOMAIN p : p[h] = p[j] => h = j
    BY <1>1, <1>2
  <2>1. IsFiniteSet(A) /\ Cardinality(A) = Cardinality(before)
    <3>1. (\A h \in before : p[h] \in A) /\ \A t \in A : \E h \in before : p[h] = t
      OBVIOUS
    <3> HIDE DEF A
    <3>2. QED
      BY <2>5, <3>1, PositionsCount
  <2>2. i - 1 \in Int /\ 1 \in Int /\ i \in Nat /\ i >= 1
    BY <1>1
  <2>3. Cardinality(before) = IF 1 > i - 1 THEN 0 ELSE i - 1 - 1 + 1
    BY <2>2, FS_Interval DEF before
  <2>4. QED
    BY <2>1, <2>2, <2>3
<1>4. IsFiniteSet(B) /\ Cardinality(B) = Cardinality(ahead) /\ Cardinality(ahead) \in Nat
  <2>1. q \in Seq(Record) /\ ahead \in SUBSET DOMAIN q /\ \A h, j \in DOMAIN q : q[h] = q[j] => h = j
    BY <1>1, <1>2
  <2>2. (\A j \in ahead : q[j] \in B) /\ \A t \in B : \E j \in ahead : q[j] = t
    OBVIOUS
  <2> HIDE DEF A, B, both
  <2>3. IsFiniteSet(B) /\ Cardinality(B) = Cardinality(ahead)
    BY <2>1, <2>2, PositionsCount
  <2>4. Cardinality(ahead) \in Nat
    BY <2>1, <2>2, PositionsCount
  <2>5. QED
    BY <2>3, <2>4
<1> USE DEF before, ahead
<1>5. A \cap B = {}
  BY <1>1 DEF Apart, ToSet
<1>6. both = A \cup B
  <2>1. ASSUME NEW r \in both PROVE r \in A \cup B
    <3>1. CASE r \in ToSet(p)
      <4>1. PICK h \in DOMAIN p : r = p[h]
        BY <3>1 DEF ToSet
      <4>2. h < i
        BY <1>2, <4>1
      <4>3. h \in before
        BY <1>1, <4>2
      <4>4. QED
        BY <4>1, <4>3
    <3>2. CASE r \in ToSet(q)
      BY <3>2 DEF ToSet
    <3>3. QED
      BY <3>1, <3>2
  <2>2. A \subseteq both
    <3> SUFFICES ASSUME NEW h \in before PROVE p[h] \in both
      OBVIOUS
    <3>1. h \in DOMAIN p /\ h < i
      BY <1>1
    <3>2. QED
      BY <1>2, <3>1 DEF ToSet
  <2>3. B \subseteq both
    BY DEF ToSet
  <2>4. QED
    BY <2>1, <2>2, <2>3
<1> HIDE DEF A, B, before, ahead
<1>7. Cardinality(both) = i - 1 + Cardinality(ahead)
  <2>1. Cardinality(A \cup B) = Cardinality(A) + Cardinality(B) - Cardinality(A \cap B)
    BY <1>3, <1>4, FS_Union
  <2>2. Cardinality(A \cap B) = 0
    BY <1>5, FS_EmptySet
  <2>3. i \in Nat
    BY <1>1
  <2> HIDE DEF both
  <2>4. QED
    BY <1>3, <1>4, <1>6, <2>1, <2>2, <2>3
<1>8. Ahead(ToSet(p) \cup ToSet(q), p[i]) = Cardinality(both)
  BY DEF Ahead
<1>9. i \in Nat /\ i >= 1
  BY <1>1
<1> HIDE DEF both
<1>10. Cardinality(both) + 1 = i + Cardinality(ahead) /\ Cardinality(both) \in Nat
  BY <1>4, <1>7, <1>9
<1>11. QED
  BY <1>8, <1>10 DEF ahead

\* A list whose elements differ has as many as its length.
LEMMA ElementsCount ==
  ASSUME NEW q \in Seq(Record), Descending(q)
  PROVE  IsFiniteSet(ToSet(q)) /\ Cardinality(ToSet(q)) = Len(q)
<1>1. DOMAIN q \in SUBSET DOMAIN q /\ \A i, j \in DOMAIN q : q[i] = q[j] => i = j
  BY DescendingElements
<1>2. (\A i \in DOMAIN q : q[i] \in ToSet(q)) /\ \A r \in ToSet(q) : \E i \in DOMAIN q : q[i] = r
  BY DEF ToSet
<1>3. IsFiniteSet(ToSet(q)) /\ Cardinality(ToSet(q)) = Cardinality(DOMAIN q)
  BY <1>1, <1>2, PositionsCount
<1>4. Len(q) \in Int /\ 1 \in Int /\ Len(q) >= 0 /\ DOMAIN q = 1..Len(q)
  OBVIOUS
<1>5. Cardinality(1..Len(q)) = IF 1 > Len(q) THEN 0 ELSE Len(q) - 1 + 1
  BY <1>4, FS_Interval
<1>6. QED
  BY <1>3, <1>4, <1>5

\* The walk over two lists takes their newest records, newest first.
LEMMA TakenNewest ==
  ASSUME NEW old, NEW new, Apart(old, new)
  PROVE  LET taken == TakeNewest(old, new)
         IN  /\ taken \in Seq(Record) /\ Len(taken) <= Capacity
             /\ ToSet(taken) \subseteq ToSet(old) \cup ToSet(new) /\ Descending(taken)
<1> DEFINE U == ToSet(old) \cup ToSet(new)
           n == Len(old) + Len(new)
           m == Min({Capacity, n})
           oldAt == [i \in DOMAIN old |-> i + Cardinality({j \in DOMAIN new : ~Newer(old[i], new[j])})]
           newAt == [j \in DOMAIN new |-> j + Cardinality({i \in DOMAIN old : Newer(old[i], new[j])})]
           at(k) == IF \E i \in DOMAIN old : oldAt[i] = k THEN old[CHOOSE i \in DOMAIN old : oldAt[i] = k]
                                                          ELSE new[CHOOSE j \in DOMAIN new : newAt[j] = k]
           taken == TakeNewest(old, new)
<1>1. taken = [k \in 1..m |-> at(k)]
  <2> DEFINE oldIn == [i \in DOMAIN old |-> i + Cardinality({j \in DOMAIN new : ~Newer(old[i], new[j])})]
             newIn == [j \in DOMAIN new |-> j + Cardinality({i \in DOMAIN old : Newer(old[i], new[j])})]
             of(k) == IF \E i \in DOMAIN old : oldIn[i] = k THEN old[CHOOSE i \in DOMAIN old : oldIn[i] = k]
                                                            ELSE new[CHOOSE j \in DOMAIN new : newIn[j] = k]
  <2>1. oldIn = oldAt /\ newIn = newAt
    OBVIOUS
  <2>2. \A k : of(k) = at(k)
    <3> HIDE DEF oldIn, newIn, oldAt, newAt
    <3>1. QED
      BY <2>1
  <2>3. taken = [k \in 1..m |-> of(k)]
    <3>1. m = Min({Capacity, n})
      OBVIOUS
    <3> HIDE DEF m
    <3>2. QED
      BY <3>1 DEF TakeNewest
  <2> HIDE DEF of, at, m, taken
  <2>4. QED
    BY <2>2, <2>3
<1>2. old \in Seq(Record) /\ new \in Seq(Record) /\ Descending(old) /\ Descending(new)
      /\ ToSet(old) \cap ToSet(new) = {} /\ Apart(new, old) /\ U = ToSet(new) \cup ToSet(old)
  BY DEF Apart
<1>3. /\ \A i \in DOMAIN old : old[i] \in Record /\ old[i] \in U
      /\ \A j \in DOMAIN new : new[j] \in Record /\ new[j] \in U
      /\ \A i \in DOMAIN old, j \in DOMAIN new : old[i] # new[j]
      /\ \A r \in U : (\E i \in DOMAIN old : r = old[i]) \/ (\E j \in DOMAIN new : r = new[j])
  BY <1>2 DEF ToSet
<1>4. U \subseteq Record /\ IsFiniteSet(U) /\ Cardinality(U) = n /\ n \in Nat
  <2>1. /\ IsFiniteSet(ToSet(old)) /\ Cardinality(ToSet(old)) = Len(old)
        /\ IsFiniteSet(ToSet(new)) /\ Cardinality(ToSet(new)) = Len(new)
    BY <1>2, ElementsCount
  <2>2. IsFiniteSet(U) /\ Cardinality(U) = Len(old) + Len(new) - Cardinality(ToSet(old) \cap ToSet(new))
    BY <2>1, FS_Union
  <2>3. Cardinality(ToSet(old) \cap ToSet(new)) = 0
    BY <1>2, FS_EmptySet
  <2>4. Len(old) \in Nat /\ Len(new) \in Nat
    BY <1>2
  <2>5. U \subseteq Record
    BY <1>3
  <2> HIDE DEF U
  <2>6. QED
    BY <2>2, <2>3, <2>4, <2>5
<1>5. \A i \in DOMAIN old : oldAt[i] = Ahead(U, old[i]) + 1
  <2> SUFFICES ASSUME NEW i \in DOMAIN old
               PROVE  i + Cardinality({j \in DOMAIN new : ~Newer(old[i], new[j])}) = Ahead(U, old[i]) + 1
    OBVIOUS
  <2>1. {j \in DOMAIN new : ~Newer(old[i], new[j])} = {j \in DOMAIN new : Newer(new[j], old[i])}
    BY <1>3, NewerOrders
  <2>2. QED
    BY <2>1, PlaceInBoth
<1>6. \A j \in DOMAIN new : newAt[j] = Ahead(U, new[j]) + 1
  <2> SUFFICES ASSUME NEW j \in DOMAIN new
               PROVE  j + Cardinality({i \in DOMAIN old : Newer(old[i], new[j])}) = Ahead(U, new[j]) + 1
    OBVIOUS
  <2>1. QED
    BY <1>2, PlaceInBoth
<1> HIDE DEF oldAt, newAt, U, n, taken
<1>7. /\ \A q, r \in U : Newer(q, r) => Ahead(U, q) < Ahead(U, r)
      /\ \A r \in U : Ahead(U, r) \in Nat
      /\ \A k \in 0..(n - 1) : \E r \in U : Ahead(U, r) = k
  BY <1>4, PlacesAreDense
<1>8. \A k \in 1..n : at(k) \in U /\ Ahead(U, at(k)) + 1 = k
  <2> TAKE k \in 1..n
  <2>1. CASE \E i \in DOMAIN old : oldAt[i] = k
    <3>1. PICK i \in DOMAIN old : at(k) = old[i] /\ oldAt[i] = k
      BY <2>1
    <3>2. QED
      BY <1>3, <1>5, <3>1
  <2>2. CASE ~ \E i \in DOMAIN old : oldAt[i] = k
    <3>1. k - 1 \in 0..(n - 1)
      BY <1>4
    <3>2. PICK r \in U : Ahead(U, r) = k - 1
      BY <1>7, <3>1
    <3>3. Ahead(U, r) + 1 = k
      BY <1>4, <3>2
    <3>4. \E j \in DOMAIN new : newAt[j] = k
      BY <1>3, <1>5, <1>6, <2>2, <3>3
    <3>5. PICK j \in DOMAIN new : at(k) = new[j] /\ newAt[j] = k
      BY <2>2, <3>4
    <3>6. QED
      BY <1>3, <1>6, <3>5
  <2>3. QED
    BY <2>1, <2>2
<1>9. m \in Nat /\ m <= n /\ m <= Capacity
  <2>1. {Capacity, n} \subseteq Nat /\ {Capacity, n} # {}
    BY <1>4, FeedBounds
  <2>2. m \in {Capacity, n} /\ \A y \in {Capacity, n} : m <= y
    BY <2>1, MinIsLeast
  <2>3. QED
    BY <2>1, <2>2
<1> HIDE DEF at, m
<1>10. \A k \in 1..m : taken[k] \in U /\ taken[k] \in Record /\ Ahead(U, taken[k]) = k - 1
  <2> TAKE k \in 1..m
  <2>1. k \in 1..n /\ taken[k] = at(k)
    BY <1>1, <1>4, <1>9
  <2>2. taken[k] \in U /\ Ahead(U, taken[k]) + 1 = k
    BY <1>8, <2>1
  <2>3. Ahead(U, taken[k]) \in Nat
    BY <1>7, <2>2
  <2>4. QED
    BY <1>4, <2>2, <2>3
<1>11. taken \in Seq(Record) /\ Len(taken) = m /\ DOMAIN taken = 1..m
  <2>1. \A k \in 1..m : at(k) \in Record
    BY <1>1, <1>10
  <2>2. QED
    BY <1>1, <1>9, <2>1
<1>12. ToSet(taken) \subseteq U
  BY <1>10, <1>11 DEF ToSet
<1>13. Descending(taken)
  <2> SUFFICES ASSUME NEW i \in 1..m, NEW j \in 1..m, i < j PROVE Newer(taken[i], taken[j])
    BY <1>11 DEF Descending
  <2>1. /\ taken[i] \in U /\ taken[j] \in U /\ taken[i] \in Record /\ taken[j] \in Record
        /\ Ahead(U, taken[i]) = i - 1 /\ Ahead(U, taken[j]) = j - 1
    BY <1>10
  <2>2. i - 1 < j - 1 /\ i - 1 \in Int /\ j - 1 \in Int
    BY <1>9
  <2>3. ~Newer(taken[j], taken[i]) /\ taken[i] # taken[j]
    BY <1>7, <2>1, <2>2
  <2>4. QED
    BY <2>1, <2>3, NewerOrders
<1>14. QED
  BY <1>9, <1>11, <1>12, <1>13 DEF taken, U

(***************************************************************************)
(* The page's list.                                                        *)
(***************************************************************************)
\* Records of which no two have an id in common.
Distinct(S) == \A q, r \in S : q.id = r.id => q = r

\* A list the page may show.
ListSound(q) ==
  q \in Seq(Record) /\ Len(q) <= Capacity /\ Descending(q) /\ Distinct(ToSet(q))

\* What arrives, sorted: with at most Capacity records it is such a list.
LEMMA SortedSound ==
  ASSUME NEW S, S \subseteq Record, IsFiniteSet(S), Cardinality(S) <= Capacity, Distinct(S)
  PROVE  ListSound(NewestFirst(S))
<1>1. /\ NewestFirst(S) \in Seq(Record) /\ Len(NewestFirst(S)) = Cardinality(S)
      /\ ToSet(NewestFirst(S)) = S /\ Descending(NewestFirst(S))
  BY SortedNewest
<1>2. QED
  BY <1>1 DEF ListSound

\* What mergeLogs leaves of the list before the walk: newest first, and no record of
\* an id that comes in.
LEMMA NotReplaced ==
  ASSUME NEW q, ListSound(q), NEW ids
  PROVE  LET rest == Picked(q, {i \in DOMAIN q : q[i].id \notin ids})
         IN  /\ rest \in Seq(Record) /\ Descending(rest) /\ ToSet(rest) \subseteq ToSet(q)
             /\ \A r \in ToSet(rest) : r.id \notin ids
<1> DEFINE kept == {i \in DOMAIN q : q[i].id \notin ids}
           rest == Picked(q, kept)
<1>1. /\ q \in Seq(Record) /\ DOMAIN q = 1..Len(q) /\ kept \in SUBSET (1..Len(q))
      /\ \A i, j \in DOMAIN q : i < j => Newer(q[i], q[j])
      /\ \A i \in kept : q[i].id \notin ids /\ i \in DOMAIN q
  BY DEF ListSound, Descending
<1> HIDE DEF kept
<1>2. /\ rest \in Seq(Record)
      /\ \E m \in 0..Len(q) : \E nth \in [1..m -> kept] : PickedAt(q, kept, nth, m)
  BY <1>1, PickedElements
<1>3. PICK m \in 0..Len(q) : \E nth \in [1..m -> kept] : PickedAt(q, kept, nth, m)
  BY <1>2
<1>4. PICK nth \in [1..m -> kept] : PickedAt(q, kept, nth, m)
  BY <1>3
<1>5. Len(rest) = m /\ (\A j \in 1..m : rest[j] = q[nth[j]]) /\ \A i, j \in 1..m : i < j => nth[i] < nth[j]
  BY <1>4 DEF PickedAt
<1> HIDE DEF rest
<1>6. DOMAIN rest = 1..m
  BY <1>2, <1>5
<1>7. \A j \in 1..m : nth[j] \in kept /\ nth[j] \in DOMAIN q
  BY <1>1
<1>8. Descending(rest)
  BY <1>1, <1>5, <1>6, <1>7 DEF Descending
<1>9. \A r \in ToSet(rest) : r \in ToSet(q) /\ r.id \notin ids
  <2> TAKE r \in ToSet(rest)
  <2>1. PICK j \in 1..m : r = rest[j]
    BY <1>6 DEF ToSet
  <2>2. r = q[nth[j]] /\ nth[j] \in kept /\ nth[j] \in DOMAIN q
    BY <1>5, <1>7, <2>1
  <2>3. QED
    BY <1>1, <2>2 DEF ToSet
<1>10. QED
  BY <1>2, <1>8, <1>9 DEF rest, kept

\* mergeLogs makes a sound list of a sound one and any set of records whose ids differ.
LEMMA MergedSound ==
  ASSUME NEW q, ListSound(q), NEW S, S \subseteq Record, IsFiniteSet(S), Distinct(S), NEW unchecked
  PROVE  ListSound(MergeLogs(q, S, unchecked))
<1> DEFINE rest == Picked(q, {i \in DOMAIN q : q[i].id \notin IdsOf(S)})
           new == NewestFirst(S)
           taken == TakeNewest(rest, new)
<1>1. MergeLogs(q, S, unchecked) = q \/ MergeLogs(q, S, unchecked) = taken
  BY DEF MergeLogs
<1>2. /\ rest \in Seq(Record) /\ Descending(rest) /\ ToSet(rest) \subseteq ToSet(q)
      /\ \A r \in ToSet(rest) : r.id \notin IdsOf(S)
  BY NotReplaced
<1>3. new \in Seq(Record) /\ Descending(new) /\ ToSet(new) = S
  BY SortedNewest
<1> HIDE DEF rest, new, taken
<1>4. \A r \in S : r.id \in IdsOf(S)
  BY DEF IdsOf
<1>5. Apart(rest, new)
  BY <1>2, <1>3, <1>4 DEF Apart
<1>6. /\ taken \in Seq(Record) /\ Len(taken) <= Capacity
      /\ ToSet(taken) \subseteq ToSet(rest) \cup ToSet(new) /\ Descending(taken)
  BY <1>5, TakenNewest DEF taken
<1>7. Distinct(ToSet(taken))
  <2>1. Distinct(ToSet(q))
    BY DEF ListSound
  <2>2. ASSUME NEW a \in ToSet(rest) \cup S, NEW b \in ToSet(rest) \cup S, a.id = b.id
        PROVE  a = b
    <3>1. CASE a \in ToSet(rest)
      BY <1>2, <1>4, <2>1, <2>2, <3>1 DEF Distinct
    <3>2. CASE a \in S
      BY <1>2, <1>4, <2>2, <3>2 DEF Distinct
    <3>3. QED
      BY <2>2, <3>1, <3>2
  <2>3. QED
    BY <1>3, <1>6, <2>2 DEF Distinct
<1>8. ListSound(taken)
  BY <1>6, <1>7 DEF ListSound
<1>9. QED
  BY <1>1, <1>8

\* A list that is sound is in order.
LEMMA SoundIsOrdered ==
  ASSUME ListSound(logs)
  PROVE  RecordsAreOrdered
<1> SUFFICES ASSUME NEW i \in DOMAIN logs, NEW j \in DOMAIN logs, i < j
             PROVE  Newer(logs[i], logs[j]) /\ logs[i].id # logs[j].id
  BY DEF RecordsAreOrdered
<1>1. Newer(logs[i], logs[j])
  BY DEF ListSound, Descending
<1>2. logs[i] \in Record /\ logs[j] \in Record /\ logs[i] \in ToSet(logs) /\ logs[j] \in ToSet(logs)
  BY DEF ListSound, ToSet
<1>3. logs[i] # logs[j]
  BY <1>1, <1>2, NewerOrders
<1>4. QED
  BY <1>1, <1>2, <1>3 DEF ListSound, Distinct

(***************************************************************************)
(* The feed.                                                               *)
(***************************************************************************)
\* Records that one service has numbered, and as many as it keeps.
NumberedBy(S, e) == S \subseteq Record /\ \A r \in S : r.epoch = e
KeptBy(S, e) == NumberedBy(S, e) /\ IsFiniteSet(S) /\ Cardinality(S) <= Capacity

\* Requests whose answers are of the service that is there.
AnswersOf(f, e) ==
  f \in [Syncs -> Sync] /\ \A s \in Syncs : f[s].stage = "answered" => KeptBy(f[s].records, e)

ServiceSound ==
  /\ service \in [epoch : 0..MaxRestarts, records : SUBSET Record, last : 0..MaxRecords]
  /\ KeptBy(service.records, service.epoch)
PageSound ==
  /\ {feedPaused, polling} \subseteq BOOLEAN
  /\ rangeRequest \in {NoRequest, "sent", "reloading", "filtered"}
ListsSound == ListSound(logs) /\ processed \in Nat
LinkSound ==
  /\ stream \in {"none", "open", "closed"}
  /\ wire \in Seq(Record) /\ NumberedBy(ToSet(wire), service.epoch)
  /\ pending \in Seq(Record) /\ Len(pending) <= MaxPending
  /\ NumberedBy(ToSet(pending), service.epoch)
  /\ feedPaused => stream # "open" /\ wire = <<>> /\ pending = <<>>
SyncsSound == AnswersOf(syncs, service.epoch)

\* What every step keeps: besides the type and the order, that the records on their
\* way are all of the service that is there, so that no two of one batch or answer
\* have the same id, and that a pause leaves nothing on its way.
FeedSound == ServiceSound /\ PageSound /\ ListsSound /\ LinkSound /\ SyncsSound

\* One service gives no id twice.
LEMMA NumberedDistinct ==
  ASSUME NEW S, NEW e, NumberedBy(S, e)
  PROVE  Distinct(S)
<1> SUFFICES ASSUME NEW q \in S, NEW r \in S, q.id = r.id PROVE q = r
  BY DEF Distinct
<1>1. q \in Record /\ r \in Record /\ q.epoch = r.epoch
  BY DEF NumberedBy
<1>2. q = [epoch |-> q.epoch, id |-> q.id] /\ r = [epoch |-> r.epoch, id |-> r.id]
  BY <1>1 DEF Record
<1>3. QED
  BY <1>1, <1>2

\* The records of a list are finitely many.
LEMMA ListIsFinite ==
  ASSUME NEW S, NEW q \in Seq(S)
  PROVE  IsFiniteSet(ToSet(q)) /\ ToSet(q) \subseteq S
<1>1. q \in [1..Len(q) -> S] /\ Len(q) \in Int /\ 1 \in Int
  OBVIOUS
<1>2. IsFiniteSet(1..Len(q))
  BY <1>1, FS_Interval
<1>3. q \in Surjection(1..Len(q), ToSet(q))
  BY <1>1 DEF Surjection, ToSet
<1>4. QED
  BY <1>1, <1>2, <1>3, FS_Surjection DEF ToSet

\* One request takes another stage.
LEMMA OneSync ==
  ASSUME NEW f, NEW e, AnswersOf(f, e), NEW s, NEW a \in Sync,
         a.stage = "answered" => KeptBy(a.records, e)
  PROVE  AnswersOf([f EXCEPT ![s] = a], e)
  BY DEF AnswersOf

\* What a request asks for has the type of a question.
LEMMA AskSound ==
  ASSUME FeedSound, NEW s, NEW incremental \in BOOLEAN, AskSync(s, incremental)
  PROVE  AnswersOf(syncs', service.epoch)
<1> DEFINE known == IF incremental THEN KnownLogId ELSE 0
           before == IF incremental THEN processed ELSE 0
           a == [stage |-> "asked", known |-> known, before |-> before, replace |-> ~incremental]
<1>1. KnownLogId \in 0..MaxRecords
  <2> DEFINE ids == {0} \cup IdsOf(ToSet(logs))
  <2>1. ids \subseteq 0..MaxRecords /\ ids # {}
    <3>1. ToSet(logs) \subseteq Record
      BY ListIsFinite DEF FeedSound, ListsSound, ListSound
    <3>2. \A r \in Record : r.id \in 0..MaxRecords
      BY FeedBounds DEF Record
    <3>3. QED
      BY <3>1, <3>2, FeedBounds DEF IdsOf
  <2>2. Max(ids) \in ids
    BY <2>1, MaxIsGreatest, FeedBounds
  <2>3. QED
    BY <2>1, <2>2 DEF KnownLogId
<1>2. known \in 0..MaxRecords /\ before \in Nat
  BY <1>1, FeedBounds DEF FeedSound, ListsSound
<1> HIDE DEF known, before
<1>3. a \in Sync /\ a.stage # "answered"
  BY <1>2 DEF Sync
<1>4. syncs' = [syncs EXCEPT ![s] = a]
  BY DEF AskSync, known, before
<1> HIDE DEF a
<1>5. QED
  BY <1>3, <1>4, OneSync DEF FeedSound, SyncsSound

\* A part of the invariant holds on as long as nothing it is about changes.
LEMMA FrameSound ==
  ASSUME FeedSound
  PROVE  /\ UNCHANGED service => ServiceSound'
         /\ UNCHANGED <<feedPaused, polling, rangeRequest>> => PageSound'
         /\ UNCHANGED pageVars => ListsSound'
         /\ UNCHANGED <<service, feedPaused, linkVars>> => LinkSound'
         /\ UNCHANGED <<service, syncs>> => SyncsSound'
<1>1. ASSUME UNCHANGED service PROVE ServiceSound'
  BY <1>1 DEF FeedSound, ServiceSound
<1>2. ASSUME UNCHANGED <<feedPaused, polling, rangeRequest>> PROVE PageSound'
  BY <1>2 DEF FeedSound, PageSound
<1>3. ASSUME UNCHANGED pageVars PROVE ListsSound'
  BY <1>3 DEF FeedSound, ListsSound, ListSound, pageVars
<1>4. ASSUME UNCHANGED <<service, feedPaused, linkVars>> PROVE LinkSound'
  BY <1>4 DEF FeedSound, LinkSound, linkVars, NumberedBy, ToSet
<1>5. ASSUME UNCHANGED <<service, syncs>> PROVE SyncsSound'
  BY <1>5 DEF FeedSound, SyncsSound, AnswersOf
<1>6. QED
  BY <1>1, <1>2, <1>3, <1>4, <1>5

\* What the service numbers next is its own, and of what it keeps there is room.
LEMMA AppendRemoteLogSound ==
  ASSUME FeedSound, AppendRemoteLog
  PROVE  FeedSound'
<1> DEFINE r == [epoch |-> service.epoch, id |-> service.last + 1]
           S == service.records \cup {r}
<1>1. /\ service \in [epoch : 0..MaxRestarts, records : SUBSET Record, last : 0..MaxRecords]
      /\ KeptBy(service.records, service.epoch) /\ r.id <= MaxRecords
      /\ service' = [service EXCEPT !.last = r.id, !.records = Newest(S)]
      /\ wire' = wire \/ (wire' = Append(wire, r) /\ stream = "open")
      /\ UNCHANGED <<pageVars, feedPaused, polling, pending, syncs, rangeRequest, stream>>
  BY DEF AppendRemoteLog, RecordFrame, FeedSound, ServiceSound
<1>2. r \in Record /\ r.epoch = service.epoch /\ r.id \in 0..MaxRecords
  BY <1>1, FeedBounds DEF Record
<1> HIDE DEF r
<1>3. S \subseteq Record /\ IsFiniteSet(S) /\ \A q \in S : q.epoch = service.epoch
  <2>1. service.records \subseteq Record /\ IsFiniteSet(service.records)
        /\ \A q \in service.records : q.epoch = service.epoch
    BY <1>1 DEF KeptBy, NumberedBy
  <2>2. IsFiniteSet(service.records \cup {r})
    BY <2>1, FS_AddElement
  <2>3. QED
    BY <1>2, <2>1, <2>2
<1> HIDE DEF S
<1>4. Newest(S) \subseteq S /\ IsFiniteSet(Newest(S)) /\ Cardinality(Newest(S)) <= Capacity
  BY <1>3, NewestAreFew
<1>5. KeptBy(Newest(S), service.epoch)
  BY <1>3, <1>4 DEF KeptBy, NumberedBy
<1>6. service'.epoch = service.epoch /\ service'.records = Newest(S) /\ service'.last = r.id
  BY <1>1
<1>7. ServiceSound'
  <2>1. Newest(S) \in SUBSET Record
    BY <1>3, <1>4
  <2>2. service' \in [epoch : 0..MaxRestarts, records : SUBSET Record, last : 0..MaxRecords]
    BY <1>1, <1>2, <2>1
  <2>3. KeptBy(service'.records, service'.epoch)
    BY <1>5, <1>6
  <2>4. QED
    BY <2>2, <2>3 DEF ServiceSound
<1>8. LinkSound'
  <2>1. LinkSound
    BY DEF FeedSound
  <2>2. wire' \in Seq(Record) /\ \A q \in ToSet(wire') : q \in ToSet(wire) \/ q = r
    <3>1. CASE wire' = wire
      BY <2>1, <3>1 DEF LinkSound
    <3>2. CASE wire' = Append(wire, r)
      <4>1. wire \in Seq(Record) /\ r \in Record
        BY <1>2, <2>1 DEF LinkSound
      <4>2. /\ Append(wire, r) \in Seq(Record) /\ DOMAIN Append(wire, r) = 1..(Len(wire) + 1)
            /\ \A i \in 1..Len(wire) : Append(wire, r)[i] = wire[i]
            /\ Append(wire, r)[Len(wire) + 1] = r
        BY <4>1
      <4>3. QED
        BY <3>2, <4>1, <4>2 DEF ToSet
    <3>3. QED
      BY <1>1, <3>1, <3>2
  <2>3. NumberedBy(ToSet(wire'), service'.epoch)
    BY <1>2, <1>6, <2>1, <2>2 DEF LinkSound, NumberedBy
  <2>4. feedPaused => wire' = <<>> /\ pending = <<>> /\ stream # "open"
    BY <1>1, <2>1 DEF LinkSound
  <2>5. pending' = pending /\ feedPaused' = feedPaused /\ stream' = stream
    BY <1>1
  <2>6. NumberedBy(ToSet(pending'), service'.epoch)
    BY <1>6, <2>1, <2>5 DEF LinkSound
  <2>7. QED
    BY <2>1, <2>2, <2>3, <2>4, <2>5, <2>6 DEF LinkSound, ToSet
<1>9. SyncsSound'
  <2>1. AnswersOf(syncs, service.epoch) /\ syncs' = syncs
    BY <1>1 DEF FeedSound, SyncsSound
  <2>2. QED
    BY <1>6, <2>1 DEF SyncsSound
<1>10. QED
  BY <1>1, <1>7, <1>8, <1>9, FrameSound DEF FeedSound

\* Nothing of the service that was there is on its way to the page any more.
LEMMA RestartServiceSound ==
  ASSUME FeedSound, RestartService
  PROVE  FeedSound'
<1>1. /\ service \in [epoch : 0..MaxRestarts, records : SUBSET Record, last : 0..MaxRecords]
      /\ service.epoch < MaxRestarts /\ pending = <<>>
      /\ syncs' = [s \in Syncs |-> NoSync]
      /\ service' = [service EXCEPT !.epoch = @ + 1, !.records = {}, !.last = 0]
      /\ stream' = IF stream = "open" THEN "closed" ELSE stream
      /\ wire' = <<>> /\ UNCHANGED <<pageVars, feedPaused, polling, pending>>
      /\ rangeRequest' = IF rangeRequest = "sent" THEN NoRequest ELSE rangeRequest
  BY DEF RestartService, FeedSound, ServiceSound
<1>2. ServiceSound'
  <2>1. service.epoch + 1 \in 0..MaxRestarts /\ 0 \in 0..MaxRecords
    BY <1>1, FeedBounds
  <2>2. service' \in [epoch : 0..MaxRestarts, records : SUBSET Record, last : 0..MaxRecords] /\ service'.records = {}
    BY <1>1, <2>1
  <2>3. KeptBy({}, service'.epoch)
    BY FS_EmptySet, FeedBounds DEF KeptBy, NumberedBy
  <2>4. QED
    BY <2>2, <2>3 DEF ServiceSound
<1>3. PageSound'
  BY <1>1 DEF FeedSound, PageSound
<1>4. LinkSound'
  <2>1. LinkSound /\ ToSet(<<>>) = {}
    BY DEF FeedSound, ToSet
  <2>2. wire' = <<>> /\ pending' = <<>> /\ feedPaused' = feedPaused
    BY <1>1
  <2>3. NumberedBy(ToSet(wire'), service'.epoch) /\ NumberedBy(ToSet(pending'), service'.epoch)
    BY <2>1, <2>2 DEF NumberedBy
  <2>4. stream' \in {"none", "open", "closed"} /\ stream' # "open"
    BY <1>1, <2>1 DEF LinkSound
  <2>5. wire' \in Seq(Record) /\ pending' \in Seq(Record) /\ Len(pending') <= MaxPending
    BY <2>2, FeedBounds
  <2>6. QED
    BY <2>2, <2>3, <2>4, <2>5 DEF LinkSound, ToSet
<1>5. SyncsSound'
  <2>1. NoSync \in Sync /\ NoSync.stage # "answered"
    BY DEF NoSync, Sync
  <2>2. AnswersOf(syncs', service'.epoch)
    BY <1>1, <2>1 DEF AnswersOf
  <2>3. QED
    BY <2>2 DEF SyncsSound
<1>6. QED
  BY <1>1, <1>2, <1>3, <1>4, <1>5, FrameSound DEF FeedSound

\* A request that begins.
LEMMA PollSyncSound ==
  ASSUME FeedSound, NEW s \in Syncs, PollSync(s)
  PROVE  FeedSound'
<1>1. AskSync(s, polling) /\ UNCHANGED <<service, pageVars, feedPaused, polling, linkVars, rangeRequest>>
  BY DEF PollSync
<1>2. polling \in BOOLEAN
  BY DEF FeedSound, PageSound
<1>3. AnswersOf(syncs', service.epoch)
  BY <1>1, <1>2, AskSound
<1>4. SyncsSound'
  BY <1>1, <1>3 DEF SyncsSound
<1>5. QED
  BY <1>1, <1>4, FrameSound DEF FeedSound

\* The service answers with records of its own, no more than it keeps.
LEMMA AnswerSyncSound ==
  ASSUME FeedSound, NEW s \in Syncs, AnswerSync(s)
  PROVE  FeedSound'
<1> DEFINE ask == syncs[s]
           old == [stage |-> "restarted"]
           records == {r \in service.records : r.id > Cursor(ask.known)}
           new == [stage |-> "answered", replace |-> ask.replace, processed |-> service.last, records |-> records]
<1>1. /\ ask.stage = "asked"
      /\ syncs' = [syncs EXCEPT ![s] = IF Restarted(ask.known, ask.before, service.last) THEN old ELSE new]
      /\ UNCHANGED <<service, pageVars, feedPaused, polling, linkVars, rangeRequest>>
  BY DEF AnswerSync
<1>2. ServiceSound /\ AnswersOf(syncs, service.epoch)
  BY DEF FeedSound, SyncsSound
<1>3. ask.replace \in BOOLEAN
  <2>1. ask \in Sync
    BY <1>2 DEF AnswersOf
  <2> HIDE DEF ask
  <2>2. QED
    BY <1>1, <2>1 DEF Sync
<1>4. KeptBy(records, service.epoch)
  <2>1. records \in SUBSET service.records /\ KeptBy(service.records, service.epoch)
    BY <1>2 DEF ServiceSound
  <2> HIDE DEF records
  <2>2. IsFiniteSet(records) /\ Cardinality(records) <= Cardinality(service.records)
    BY <2>1, FS_Subset DEF KeptBy
  <2>3. Cardinality(records) \in Nat /\ Cardinality(service.records) \in Nat
    BY <2>1, <2>2, FS_CardinalityType DEF KeptBy
  <2>4. QED
    BY <2>1, <2>2, <2>3, FeedBounds DEF KeptBy, NumberedBy
<1>5. service.last \in 0..MaxRecords
  BY <1>2 DEF ServiceSound
<1>6. records \in SUBSET Record
  BY <1>4 DEF KeptBy, NumberedBy
<1> HIDE DEF records, ask
<1>7. old \in Sync /\ old.stage # "answered" /\ new \in Sync /\ new.records = records
  BY <1>3, <1>5, <1>6 DEF Sync
<1> HIDE DEF old, new
<1>8. AnswersOf(syncs', service.epoch)
  BY <1>1, <1>2, <1>4, <1>7, OneSync
<1>9. SyncsSound'
  BY <1>1, <1>8 DEF SyncsSound
<1>10. QED
  BY <1>1, <1>9, FrameSound DEF FeedSound

\* The question is put again.
LEMMA AskRestartedSound ==
  ASSUME FeedSound, NEW s \in Syncs, AskRestarted(s)
  PROVE  FeedSound'
<1> DEFINE a == [stage |-> "asked", known |-> 0, before |-> 0, replace |-> TRUE]
<1>1. /\ syncs' = [syncs EXCEPT ![s] = a]
      /\ UNCHANGED <<service, pageVars, feedPaused, polling, linkVars, rangeRequest>>
  BY DEF AskRestarted
<1>2. a \in Sync /\ a.stage # "answered"
  BY FeedBounds DEF Sync
<1> HIDE DEF a
<1>3. AnswersOf(syncs', service.epoch)
  BY <1>1, <1>2, OneSync DEF FeedSound, SyncsSound
<1>4. SyncsSound'
  BY <1>1, <1>3 DEF SyncsSound
<1>5. QED
  BY <1>1, <1>4, FrameSound DEF FeedSound

\* A request that is over.
LEMMA SyncEnds ==
  ASSUME FeedSound, NEW s \in Syncs, syncs' = [syncs EXCEPT ![s] = NoSync], UNCHANGED service
  PROVE  SyncsSound'
<1>1. NoSync \in Sync /\ NoSync.stage # "answered"
  BY DEF NoSync, Sync
<1>2. AnswersOf(syncs', service.epoch)
  BY <1>1, OneSync DEF FeedSound, SyncsSound
<1>3. QED
  BY <1>2 DEF SyncsSound

LEMMA FailSyncSound ==
  ASSUME FeedSound, NEW s \in Syncs, FailSync(s)
  PROVE  FeedSound'
<1>1. /\ syncs' = [syncs EXCEPT ![s] = NoSync]
      /\ UNCHANGED <<service, pageVars, feedPaused, polling, linkVars, rangeRequest>>
  BY DEF FailSync
<1>2. QED
  BY <1>1, SyncEnds, FrameSound DEF FeedSound

\* The answer is merged or takes the place of the list; a stream that is opened has
\* nothing on its way.
LEMMA TakeSyncSound ==
  ASSUME FeedSound, NEW s \in Syncs, TakeSync(s)
  PROVE  FeedSound'
<1> DEFINE answer == syncs[s]
<1>1. /\ answer.stage = "answered" /\ UpdateLogView(answer) /\ polling' = TRUE
      /\ (stream' = "open" /\ wire' = <<>> /\ ~feedPaused) \/ (stream' = stream /\ wire' = wire)
      /\ syncs' = [syncs EXCEPT ![s] = NoSync]
      /\ UNCHANGED <<service, feedPaused, pending, rangeRequest>>
  BY DEF TakeSync
<1>2. KeptBy(answer.records, service.epoch) /\ answer.processed \in 0..MaxRecords
  <2>1. answer \in Sync /\ KeptBy(answer.records, service.epoch)
    BY <1>1 DEF FeedSound, SyncsSound, AnswersOf
  <2> HIDE DEF answer
  <2>2. QED
    BY <1>1, <2>1 DEF Sync
<1> HIDE DEF answer
<1>3. ListSound(logs) /\ processed \in Nat
  BY DEF FeedSound, ListsSound
<1>4. ListSound(logs') /\ processed' \in Nat
  <2>1. answer.records \subseteq Record /\ IsFiniteSet(answer.records) /\ Cardinality(answer.records) <= Capacity
    BY <1>2 DEF KeptBy, NumberedBy
  <2>2. Distinct(answer.records)
    BY <1>2, NumberedDistinct DEF KeptBy
  <2>3. ListSound(NewestFirst(answer.records))
    BY <2>1, <2>2, SortedSound
  <2>4. ListSound(MergeLogs(logs, answer.records, FALSE))
    BY <1>3, <2>1, <2>2, MergedSound
  <2>5. /\ logs' = logs \/ logs' = NewestFirst(answer.records) \/ logs' = MergeLogs(logs, answer.records, FALSE)
        /\ processed' = processed \/ processed' = answer.processed
    <3>1. CASE feedPaused
      BY <1>1, <3>1 DEF UpdateLogView, pageVars
    <3>2. CASE ~feedPaused /\ answer.replace
      BY <1>1, <3>2 DEF UpdateLogView
    <3>3. CASE ~feedPaused /\ ~answer.replace
      BY <1>1, <3>3 DEF UpdateLogView
    <3>4. QED
      BY <3>1, <3>2, <3>3
  <2>6. ListSound(logs')
    BY <1>3, <2>3, <2>4, <2>5
  <2>7. processed' \in Nat
    BY <1>2, <1>3, <2>5, FeedBounds
  <2>8. QED
    BY <2>6, <2>7
<1>5. ListsSound'
  BY <1>4 DEF ListsSound, ListSound, ToSet
<1>6. LinkSound'
  <2>1. LinkSound /\ ToSet(<<>>) = {}
    BY DEF FeedSound, ToSet
  <2>2. wire' \in {wire, <<>>} /\ stream' \in {"none", "open", "closed"} /\ pending' = pending
        /\ feedPaused' = feedPaused /\ service' = service /\ (feedPaused => stream' = stream /\ wire' = wire)
    BY <1>1, <2>1 DEF LinkSound
  <2>3. wire' \in Seq(Record) /\ NumberedBy(ToSet(wire'), service.epoch)
    <3>1. CASE wire' = wire
      BY <2>1, <3>1 DEF LinkSound
    <3>2. CASE wire' = <<>>
      BY <2>1, <3>2 DEF NumberedBy
    <3>3. QED
      BY <2>2, <3>1, <3>2
  <2>4. QED
    BY <2>1, <2>2, <2>3 DEF LinkSound, ToSet
<1>7. PageSound'
  BY <1>1 DEF FeedSound, PageSound
<1>8. QED
  BY <1>1, <1>5, <1>6, <1>7, SyncEnds, FrameSound DEF FeedSound

\* An event joins the batch: it and the batch are of the same service.
LEMMA StreamEventSound ==
  ASSUME FeedSound, StreamEvent
  PROVE  FeedSound'
<1> DEFINE queue == Append(pending, Head(wire))
<1>1. /\ wire # <<>> /\ wire' = Tail(wire) /\ (pending' = queue \/ pending' = Tail(queue))
      /\ (Len(queue) > MaxPending => pending' = Tail(queue))
      /\ UNCHANGED <<service, pageVars, feedPaused, polling, stream, syncs, rangeRequest>>
  BY DEF StreamEvent
<1>2. /\ LinkSound /\ wire \in Seq(Record) /\ pending \in Seq(Record) /\ Len(pending) <= MaxPending
      /\ NumberedBy(ToSet(wire), service.epoch) /\ NumberedBy(ToSet(pending), service.epoch) /\ ~feedPaused
  BY <1>1 DEF FeedSound, LinkSound
<1>3. /\ Head(wire) \in ToSet(wire) /\ Head(wire) \in Record /\ wire' \in Seq(Record)
      /\ ToSet(wire') \subseteq ToSet(wire)
  <2>1. /\ Len(wire) \in Nat /\ Len(wire) >= 1 /\ Head(wire) = wire[1] /\ DOMAIN wire = 1..Len(wire)
        /\ Tail(wire) \in Seq(Record) /\ DOMAIN Tail(wire) = 1..(Len(wire) - 1)
        /\ \A i \in 1..(Len(wire) - 1) : Tail(wire)[i] = wire[i + 1]
    BY <1>1, <1>2
  <2>2. \A i \in 1..(Len(wire) - 1) : i + 1 \in DOMAIN wire
    BY <2>1
  <2>3. ToSet(Tail(wire)) \subseteq ToSet(wire)
    BY <2>1, <2>2 DEF ToSet
  <2>4. 1 \in DOMAIN wire
    BY <2>1
  <2>5. QED
    BY <1>1, <1>2, <2>1, <2>3, <2>4 DEF ToSet
<1>4. queue \in Seq(Record) /\ Len(queue) = Len(pending) + 1 /\ \A r \in ToSet(queue) : r \in ToSet(pending) \/ r = Head(wire)
  <2>1. /\ queue \in Seq(Record) /\ Len(queue) = Len(pending) + 1 /\ DOMAIN queue = 1..(Len(pending) + 1)
        /\ \A i \in 1..Len(pending) : queue[i] = pending[i]
        /\ queue[Len(pending) + 1] = Head(wire)
    BY <1>2, <1>3
  <2>2. QED
    BY <1>2, <2>1 DEF ToSet
<1> HIDE DEF queue
<1>5. /\ Tail(queue) \in Seq(Record) /\ Len(Tail(queue)) = Len(pending) /\ ToSet(Tail(queue)) \subseteq ToSet(queue)
  <2>1. /\ Len(queue) \in Nat /\ Len(queue) >= 1 /\ DOMAIN queue = 1..Len(queue) /\ Len(pending) \in Nat
    BY <1>2, <1>4
  <2>2. /\ Tail(queue) \in Seq(Record) /\ DOMAIN Tail(queue) = 1..(Len(queue) - 1) /\ Len(Tail(queue)) = Len(queue) - 1
        /\ \A i \in 1..(Len(queue) - 1) : Tail(queue)[i] = queue[i + 1]
    BY <1>4, <2>1
  <2>3. \A i \in 1..(Len(queue) - 1) : i + 1 \in DOMAIN queue
    BY <2>1
  <2>4. QED
    BY <1>4, <2>1, <2>2, <2>3 DEF ToSet
<1>6. /\ pending' \in Seq(Record) /\ ToSet(pending') \subseteq ToSet(queue) /\ Len(pending') <= MaxPending
  <2>1. CASE pending' = Tail(queue)
    BY <1>2, <1>5, <2>1, FeedBounds
  <2>2. CASE pending' = queue /\ ~ (Len(queue) > MaxPending)
    BY <1>4, <2>2, FeedBounds
  <2>3. QED
    BY <1>1, <2>1, <2>2
<1>7. NumberedBy(ToSet(queue), service.epoch)
  BY <1>2, <1>3, <1>4 DEF NumberedBy
<1>8. NumberedBy(ToSet(pending'), service.epoch) /\ NumberedBy(ToSet(wire'), service.epoch)
  BY <1>2, <1>3, <1>6, <1>7 DEF NumberedBy
<1>9. LinkSound'
  BY <1>1, <1>2, <1>3, <1>6, <1>8 DEF LinkSound, ToSet
<1>10. QED
  BY <1>1, <1>9, FrameSound DEF FeedSound

\* The batch is of one service: no two of it have the same id.
LEMMA FlushPendingStreamLogsSound ==
  ASSUME FeedSound, FlushPendingStreamLogs
  PROVE  FeedSound'
<1>1. /\ pending # <<>> /\ pending' = <<>> /\ logs' = MergeLogs(logs, ToSet(pending), TRUE)
      /\ processed' = processed + Len(pending)
      /\ UNCHANGED <<service, feedPaused, polling, stream, wire, syncs, rangeRequest>>
  BY DEF FlushPendingStreamLogs
<1>2. /\ LinkSound /\ ListSound(logs) /\ processed \in Nat /\ pending \in Seq(Record)
      /\ NumberedBy(ToSet(pending), service.epoch)
  BY DEF FeedSound, LinkSound, ListsSound
<1>3. IsFiniteSet(ToSet(pending)) /\ ToSet(pending) \subseteq Record
  BY <1>2, ListIsFinite
<1>4. Distinct(ToSet(pending))
  BY <1>2, NumberedDistinct
<1>5. ListSound(logs')
  BY <1>1, <1>2, <1>3, <1>4, MergedSound
<1>6. processed' \in Nat
  BY <1>1, <1>2
<1>7. ListsSound'
  BY <1>5, <1>6 DEF ListsSound, ListSound, ToSet
<1>8. LinkSound'
  <2>1. NumberedBy(ToSet(pending'), service.epoch)
    BY <1>1 DEF NumberedBy, ToSet
  <2>2. pending' \in Seq(Record) /\ Len(pending') <= MaxPending
    BY <1>1, FeedBounds
  <2>3. QED
    BY <1>1, <1>2, <2>1, <2>2 DEF LinkSound, ToSet
<1>9. QED
  BY <1>1, <1>7, <1>8, FrameSound DEF FeedSound

\* A stream that ends leaves nothing on its way.
LEMMA StreamEnds ==
  ASSUME FeedSound, stream' = "closed", wire' = <<>>, pending' \in {pending, <<>>},
         feedPaused' \in BOOLEAN, feedPaused' => pending' = <<>>, UNCHANGED service
  PROVE  LinkSound'
<1>1. LinkSound /\ ToSet(<<>>) = {}
  BY DEF FeedSound, ToSet
<1>2. pending' \in Seq(Record) /\ Len(pending') <= MaxPending /\ NumberedBy(ToSet(pending'), service.epoch)
  <2>1. CASE pending' = pending
    BY <1>1, <2>1 DEF LinkSound
  <2>2. CASE pending' = <<>>
    BY <1>1, <2>2, FeedBounds DEF NumberedBy
  <2>3. QED
    BY <2>1, <2>2
<1>3. NumberedBy(ToSet(wire'), service.epoch) /\ wire' \in Seq(Record)
  BY <1>1 DEF NumberedBy
<1>4. QED
  BY <1>1, <1>2, <1>3 DEF LinkSound, ToSet

LEMMA BreakStreamSound ==
  ASSUME FeedSound, BreakStream
  PROVE  FeedSound'
<1>1. /\ stream = "open" /\ stream' = "closed" /\ wire' = <<>>
      /\ UNCHANGED <<service, pageVars, feedPaused, polling, pending, syncs, rangeRequest>>
  BY DEF BreakStream
<1>2. LinkSound'
  BY <1>1, StreamEnds DEF FeedSound, LinkSound, PageSound
<1>3. QED
  BY <1>1, <1>2, FrameSound DEF FeedSound

LEMMA PauseSound ==
  ASSUME FeedSound, Pause
  PROVE  FeedSound'
<1>1. /\ feedPaused' = TRUE /\ stream' = "closed" /\ wire' = <<>> /\ pending' = <<>>
      /\ UNCHANGED <<service, pageVars, polling, syncs, rangeRequest>>
  BY DEF Pause
<1>2. LinkSound'
  BY <1>1, StreamEnds
<1>3. PageSound'
  BY <1>1 DEF FeedSound, PageSound
<1>4. QED
  BY <1>1, <1>2, <1>3, FrameSound DEF FeedSound

LEMMA ResumeSound ==
  ASSUME FeedSound, Resume
  PROVE  FeedSound'
<1>1. /\ feedPaused' = FALSE /\ UNCHANGED <<service, pageVars, polling, linkVars, rangeRequest>>
      /\ \E s \in FreeSyncs : AskSync(s, TRUE)
  BY DEF Resume
<1>2. SyncsSound'
  <2>1. AnswersOf(syncs', service.epoch)
    BY <1>1, AskSound
  <2>2. QED
    BY <1>1, <2>1 DEF SyncsSound
<1>3. LinkSound'
  BY <1>1 DEF FeedSound, LinkSound, linkVars, NumberedBy, ToSet
<1>4. PageSound'
  BY <1>1 DEF FeedSound, PageSound
<1>5. QED
  BY <1>1, <1>2, <1>3, <1>4, FrameSound DEF FeedSound

LEMMA ChangeRangeSound ==
  ASSUME FeedSound, ChangeFeedRange
  PROVE  FeedSound'
<1>1. rangeRequest' = "sent" /\ UNCHANGED <<service, pageVars, feedPaused, polling, linkVars, syncs>>
  BY DEF ChangeFeedRange
<1>2. PageSound'
  BY <1>1 DEF FeedSound, PageSound
<1>3. QED
  BY <1>1, <1>2, FrameSound DEF FeedSound

LEMMA ServeRangeSound ==
  ASSUME FeedSound, NEW strict \in BOOLEAN, ServeRange(strict)
  PROVE  FeedSound'
<1>1. /\ rangeRequest' \in {"reloading", "filtered"}
      /\ service' = [service EXCEPT !.records = IF strict THEN {} ELSE @]
      /\ UNCHANGED <<pageVars, feedPaused, polling, linkVars, syncs>>
  BY DEF ServeRange
<1>2. ServiceSound
  BY DEF FeedSound
<1>3. /\ service' \in [epoch : 0..MaxRestarts, records : SUBSET Record, last : 0..MaxRecords]
      /\ service'.epoch = service.epoch /\ service'.records \in {{}, service.records}
  BY <1>1, <1>2 DEF ServiceSound
<1>4. KeptBy({}, service.epoch) /\ KeptBy(service.records, service.epoch)
  BY <1>2, FS_EmptySet, FeedBounds DEF KeptBy, NumberedBy, ServiceSound
<1>5. KeptBy(service'.records, service'.epoch)
  BY <1>3, <1>4
<1>6. ServiceSound'
  BY <1>3, <1>5 DEF ServiceSound
<1>7. SyncsSound'
  BY <1>1, <1>3 DEF FeedSound, SyncsSound
<1>8. LinkSound'
  BY <1>1, <1>3 DEF FeedSound, LinkSound, linkVars, NumberedBy, ToSet
<1>9. PageSound'
  BY <1>1 DEF FeedSound, PageSound
<1>10. QED
  BY <1>1, <1>6, <1>7, <1>8, <1>9, FrameSound DEF FeedSound

LEMMA AnswerRangeSound ==
  ASSUME FeedSound, NEW s \in Syncs, AnswerReload(s)
  PROVE  FeedSound'
<1> DEFINE strict == rangeRequest = "reloading"
<1>1. /\ rangeRequest' = NoRequest /\ logs' = IF strict THEN <<>> ELSE logs
      /\ AskSync(s, ~strict) /\ UNCHANGED <<service, processed, feedPaused, polling, linkVars>>
  BY DEF AnswerReload
<1>2. ListSound(logs) /\ processed \in Nat
  BY DEF FeedSound, ListsSound
<1>3. ListSound(<<>>)
  BY FeedBounds DEF ListSound, Descending, Distinct, ToSet
<1>4. ListSound(logs') /\ processed' \in Nat
  BY <1>1, <1>2, <1>3
<1>5. ListsSound'
  BY <1>4 DEF ListsSound, ListSound, ToSet
<1>6. SyncsSound'
  <2>1. (~strict) \in BOOLEAN
    OBVIOUS
  <2>2. AnswersOf(syncs', service.epoch)
    BY <1>1, <2>1, AskSound
  <2>3. QED
    BY <1>1, <2>2 DEF SyncsSound
<1>7. PageSound'
  BY <1>1 DEF FeedSound, PageSound
<1>8. QED
  BY <1>1, <1>5, <1>6, <1>7, FrameSound DEF FeedSound

LEMMA InitSound ==
  ASSUME FeedInit
  PROVE  FeedSound
<1>1. ToSet(<<>>) = {}
  BY DEF ToSet
<1>2. ServiceSound
  <2>1. service \in [epoch : 0..MaxRestarts, records : SUBSET Record, last : 0..MaxRecords]
    BY FeedBounds DEF FeedInit
  <2>2. KeptBy({}, 0)
    BY FS_EmptySet, FeedBounds DEF KeptBy, NumberedBy
  <2>3. service.records = {} /\ service.epoch = 0
    BY DEF FeedInit
  <2>4. QED
    BY <2>1, <2>2, <2>3 DEF ServiceSound
<1>3. PageSound
  BY DEF FeedInit, PageSound
<1>4. ListsSound
  <2>1. ListSound(<<>>)
    BY FeedBounds DEF ListSound, Descending, Distinct, ToSet
  <2>2. logs = <<>> /\ processed = 0
    BY DEF FeedInit
  <2>3. QED
    BY <2>1, <2>2 DEF ListsSound
<1>5. LinkSound
  BY <1>1, FeedBounds DEF FeedInit, LinkSound, NumberedBy
<1>6. SyncsSound
  <2>1. NoSync \in Sync /\ NoSync.stage # "answered"
    BY DEF NoSync, Sync
  <2>2. AnswersOf([s \in Syncs |-> NoSync], service.epoch)
    BY <2>1 DEF AnswersOf
  <2>3. syncs = [s \in Syncs |-> NoSync]
    BY DEF FeedInit
  <2>4. QED
    BY <2>2, <2>3 DEF SyncsSound
<1>7. QED
  BY <1>2, <1>3, <1>4, <1>5, <1>6 DEF FeedSound

LEMMA NextSound ==
  ASSUME FeedSound, [FeedNext]_recordVars
  PROVE  FeedSound'
<1>1. CASE UNCHANGED recordVars
  BY <1>1, FrameSound DEF FeedSound, recordVars, linkVars
<1>2. ASSUME NEW s \in Syncs, PollSync(s) \/ AnswerSync(s) \/ AskRestarted(s) \/ TakeSync(s)
                               \/ FailSync(s) \/ AnswerReload(s)
      PROVE  FeedSound'
  BY <1>2, PollSyncSound, AnswerSyncSound, AskRestartedSound, TakeSyncSound, FailSyncSound, AnswerRangeSound
<1>3. ASSUME NEW strict \in BOOLEAN, ServeRange(strict)
      PROVE  FeedSound'
  BY <1>3, ServeRangeSound
<1>4. CASE \/ AppendRemoteLog \/ RestartService \/ StreamEvent \/ FlushPendingStreamLogs
           \/ BreakStream \/ Pause \/ Resume \/ ChangeFeedRange
  BY <1>4, AppendRemoteLogSound, RestartServiceSound, StreamEventSound, FlushPendingStreamLogsSound,
     BreakStreamSound, PauseSound, ResumeSound, ChangeRangeSound
<1>5. QED
  BY <1>1, <1>2, <1>3, <1>4 DEF FeedNext

\* Reached states are sound ones (mergeLogs, syncGoBackend, the stream's batches).
THEOREM FeedIsAlwaysSound == FeedSpec => []FeedSound
<1>1. FeedInit => FeedSound
  BY InitSound
<1>2. FeedSound /\ [FeedNext]_recordVars => FeedSound'
  BY NextSound
<1>3. QED
  BY <1>1, <1>2, PTL DEF FeedSpec

\* The record list is always bounded, newest first, and lists no id twice
\* (mergeLogs and what brings records to it).
THEOREM RecordListIsAlwaysSound == FeedSpec => []RecordListIsSound
<1>1. ASSUME FeedSound PROVE RecordListIsSound
  <2>1. RecordsAreOrdered
    BY <1>1, SoundIsOrdered DEF FeedSound, ListsSound
  <2>2. FeedTypeOK
    BY <1>1 DEF FeedSound, ServiceSound, PageSound, ListsSound, ListSound, LinkSound, SyncsSound, AnswersOf, FeedTypeOK
  <2>3. QED
    BY <2>1, <2>2 DEF RecordListIsSound
<1>2. FeedSound => RecordListIsSound
  BY <1>1
<1>3. QED
  BY <1>2, FeedIsAlwaysSound, PTL

\* What a step of a page that is and stays paused may do to its list.
LEMMA PausedStep ==
  ASSUME FeedSound, [FeedNext]_recordVars, feedPaused, feedPaused'
  PROVE  ToSet(logs') \subseteq ToSet(logs) /\ processed' = processed
<1> DEFINE Nothing == ToSet(logs') \subseteq ToSet(logs) /\ processed' = processed
<1>1. UNCHANGED pageVars => Nothing
  BY DEF pageVars
<1>2. ASSUME NEW s \in Syncs, PollSync(s) \/ AnswerSync(s) \/ AskRestarted(s) \/ FailSync(s)
      PROVE  Nothing
  BY <1>1, <1>2 DEF PollSync, AnswerSync, AskRestarted, FailSync
<1>3. ASSUME NEW s \in Syncs, TakeSync(s)
      PROVE  Nothing
  BY <1>1, <1>3 DEF TakeSync, UpdateLogView
<1>4. ASSUME NEW s \in Syncs, AnswerReload(s)
      PROVE  Nothing
  <2>1. processed' = processed /\ (logs' = <<>> \/ logs' = logs)
    BY <1>4 DEF AnswerReload
  <2>2. ToSet(<<>>) = {}
    BY DEF ToSet
  <2>3. QED
    BY <2>1, <2>2
<1>5. CASE \/ AppendRemoteLog \/ RestartService \/ StreamEvent \/ BreakStream \/ Pause \/ Resume \/ ChangeFeedRange
           \/ (\E strict \in BOOLEAN : ServeRange(strict)) \/ UNCHANGED recordVars
  BY <1>1, <1>5 DEF AppendRemoteLog, RecordFrame, RestartService, StreamEvent, BreakStream, Pause, Resume,
     ChangeFeedRange, ServeRange, recordVars
<1>6. CASE FlushPendingStreamLogs
  BY <1>6 DEF FlushPendingStreamLogs, FeedSound, LinkSound
<1>7. QED
  BY <1>2, <1>3, <1>4, <1>5, <1>6 DEF FeedNext

\* A paused page shows nothing new, whatever was on its way (updateLogView).
THEOREM PausedPageAlwaysShowsNothingNew == FeedSpec => PausedPageShowsNothingNew
<1>1. FeedSound /\ [FeedNext]_recordVars => [feedPaused /\ feedPaused' => ToSet(logs') \subseteq ToSet(logs) /\ processed' = processed]_recordVars
  BY PausedStep
<1>2. QED
  BY <1>1, FeedIsAlwaysSound, PTL DEF FeedSpec, PausedPageShowsNothingNew
=============================================================================
