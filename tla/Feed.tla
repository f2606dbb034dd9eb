-------------------------------- MODULE Feed --------------------------------
(***************************************************************************)
(* What the event feed promises to a client, without saying how: of the    *)
(* events posted after it has joined it gets each at most once, and an     *)
(* event it has missed never comes after all.  Older events may come any   *)
(* number of times, and the order of events is not promised.  Module WsHub *)
(* implements it.                                                          *)
(***************************************************************************)
EXTENDS Integers, Sequences

CONSTANT Clients

VARIABLES posted,   \* how many events there have been
          members,  \* the clients that have joined
          since,    \* how many of the events are older than the client
          got,      \* what has come to a client, in that order
          missed    \* what will not come to it

feedVars == <<posted, members, since, got, missed>>

Elements(s) == {s[i] : i \in 1 .. Len(s)}

\* What the client may still expect.
Owed(c) == (since[c] + 1 .. posted) \ (Elements(got[c]) \cup missed[c])

Init ==
    /\ posted = 0
    /\ members = {}
    /\ since = [c \in Clients |-> 0]
    /\ got = [c \in Clients |-> <<>>]
    /\ missed = [c \in Clients |-> {}]

Post ==
    /\ posted' = posted + 1
    /\ UNCHANGED <<members, since, got, missed>>

Join(c) ==
    /\ c \notin members
    /\ members' = members \cup {c}
    /\ since' = [since EXCEPT ![c] = posted]
    /\ UNCHANGED <<posted, got, missed>>

Get(c, e) ==
    /\ c \in members
    /\ e \in Owed(c) \cup (1 .. since[c])
    /\ got' = [got EXCEPT ![c] = Append(@, e)]
    /\ UNCHANGED <<posted, members, since, missed>>

\* One event is missed by some of the clients that may expect it.
Miss(C, e) ==
    /\ \A c \in C : e \in Owed(c)
    /\ missed' = [c \in Clients |-> IF c \in C THEN missed[c] \cup {e} ELSE missed[c]]
    /\ UNCHANGED <<posted, members, since, got>>

Next ==
    \/ Post
    \/ \E c \in Clients : Join(c)
    \/ \E c \in members, e \in 1 .. posted : Get(c, e)
    \/ \E C \in SUBSET members, e \in 1 .. posted : Miss(C, e)

Spec == Init /\ [][Next]_feedVars
=============================================================================
