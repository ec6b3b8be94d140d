----------------------------- MODULE MCAssistant -----------------------------
(***************************************************************************)
(* Two chats at most in the list and two questions; or two providers of    *)
(* the file and two of the browser, of two models.                         *)
(***************************************************************************)
EXTENDS Providers
=============================================================================
