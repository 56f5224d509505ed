--------------------------------- MODULE OneUse ---------------------------------
(***************************************************************************)
(* What a one-use credential promises, whatever stores it: it is issued    *)
(* once, at most one holder ever takes it, and what it stands for is       *)
(* granted at most once, to that holder.  A credential or a holder may be  *)
(* lost at any moment (expiry, a refused binding, a crash), and nothing    *)
(* that was lost comes back.                                               *)
(***************************************************************************)
CONSTANTS Credentials, Holders, Nobody

VARIABLES
  known,    \* credentials issued so far
  live,     \* those that can still be taken
  holder,   \* who has taken each one and not used it yet
  granted   \* those whose grant has been made

TypeOK ==
  /\ known \subseteq Credentials
  /\ live \subseteq known
  /\ holder \in [Credentials -> Holders \cup {Nobody}]
  /\ granted \subseteq known

Init ==
  /\ known = {} /\ live = {} /\ granted = {}
  /\ holder = [c \in Credentials |-> Nobody]

Issue(c) ==
  /\ c \in Credentials \ known
  /\ known' = known \cup {c}
  /\ live' = live \cup {c}
  /\ UNCHANGED <<holder, granted>>

Take(c, h) ==
  /\ c \in live
  /\ live' = live \ {c}
  /\ holder' = [holder EXCEPT ![c] = h]
  /\ UNCHANGED <<known, granted>>

Grant(c) ==
  /\ holder[c] # Nobody
  /\ holder' = [holder EXCEPT ![c] = Nobody]
  /\ granted' = granted \cup {c}
  /\ UNCHANGED <<known, live>>

\* Credentials and holders disappear, none appears.
Lose ==
  /\ live' \in SUBSET live
  /\ \E lost \in SUBSET Credentials :
       holder' = [c \in Credentials |-> IF c \in lost THEN Nobody ELSE holder[c]]
  /\ UNCHANGED <<known, granted>>

Next ==
  \/ \E c \in Credentials : Issue(c) \/ Grant(c) \/ \E h \in Holders : Take(c, h)
  \/ Lose

Spec == Init /\ [][Next]_<<known, live, holder, granted>>

\* A credential is live, held or granted, and never two of them: the
\* invariant that makes one grant the most a credential can give.
Exclusive ==
  /\ live \cap granted = {}
  /\ \A c \in Credentials : holder[c] # Nobody => c \in known \ (live \cup granted)
=============================================================================
