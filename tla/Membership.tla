----------------------------- MODULE Membership -----------------------------
(***************************************************************************)
(* What the master promises about who is registered, whatever its threads  *)
(* do meanwhile: a connection becomes a member at most once, there are     *)
(* never more members than the limit, and who has been one and is one no   *)
(* longer never is again.  Nothing is said of descriptors, messages or     *)
(* threads.                                                                *)
(*                                                                         *)
(* One flaw of the code is part of the promise: once the heartbeat has     *)
(* removed a member, an entry that is inserted may take the place of       *)
(* another one.                                                            *)
(***************************************************************************)
EXTENDS Naturals, FiniteSets

CONSTANTS Candidate,   \* those that may become members
          Limit        \* how many members there may be

VARIABLES members,     \* who is registered
          entered,     \* who is or was
          disturbed    \* the heartbeat has removed somebody

memberVars == <<members, entered, disturbed>>

MemberInit == members = {} /\ entered = {} /\ disturbed = FALSE

Join(c) ==
    /\ c \notin entered
    /\ entered' = entered \cup {c}
    /\ Cardinality(members) < Limit
    /\ members' = members \cup {c}
    /\ UNCHANGED disturbed

Replace(c, d) ==
    /\ disturbed
    /\ c \notin entered
    /\ entered' = entered \cup {c}
    /\ members' = (members \ {d}) \cup {c}
    /\ UNCHANGED disturbed

Leave(d) ==
    /\ members' = members \ {d}
    /\ disturbed' \in {disturbed, TRUE}
    /\ UNCHANGED entered

Disturb ==
    /\ ~disturbed /\ disturbed'
    /\ UNCHANGED <<members, entered>>

MemberNext ==
    \/ \E c \in Candidate : Join(c)
    \/ \E d \in members : Leave(d) \/ \E c \in Candidate : Replace(c, d)
    \/ Disturb

MemberSpec == MemberInit /\ [][MemberNext]_memberVars

=============================================================================
