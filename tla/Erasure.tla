------------------------------ MODULE Erasure ------------------------------
(***************************************************************************)
(* What the deletion worker promises about the order of an erasure          *)
(* (services/deletion-worker/src/job.ts, "ORDER"): the person is invisible  *)
(* to every family before anything else happens, can sign in for as long as *)
(* rows are keyed by their id, and is forgotten only after that.            *)
(***************************************************************************)
CONSTANT Items      \* the kinds of data an account can have

VARIABLES shown,    \* some family may still see the person
          data,     \* the kinds of data that are still stored
          signIn,   \* the identity provider still knows the person
          known     \* the users table still does

vars == <<shown, data, signIn, known>>

Init == shown \in BOOLEAN /\ data \subseteq Items /\ signIn = TRUE /\ known = TRUE

Hide == shown /\ shown' = FALSE /\ UNCHANGED <<data, signIn, known>>

Erase ==
    /\ ~shown
    /\ \E kind \in data : data' = data \ {kind}
    /\ UNCHANGED <<shown, signIn, known>>

CloseSignIn == data = {} /\ ~shown /\ signIn' = FALSE /\ UNCHANGED <<shown, data, known>>

Forget == ~signIn /\ known' = FALSE /\ UNCHANGED <<shown, data, signIn>>

Next == Hide \/ Erase \/ CloseSignIn \/ Forget

Spec == Init /\ [][Next]_vars
=============================================================================
