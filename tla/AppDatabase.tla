---------------------------- MODULE AppDatabase ----------------------------
(***************************************************************************)
(* What every upgrade role of the repository promises the people who use   *)
(* an application: there is one database, the application may be taken     *)
(* down and brought back, and whatever it finds when it is back is exactly *)
(* what it left.  Nothing but the application itself changes the data.     *)
(* PostgresMajor is shown to implement this.                               *)
(***************************************************************************)
CONSTANTS
    Service,    \* the applications, each with a database of its own
    Content,    \* what a database can hold
    Ready(_)    \* what an application makes of its data as it starts: its
                \* tables are created when there are none

VARIABLES
    up,         \* up[s]: the application of service s is serving
    data        \* data[s]: what its users would find

vars == <<up, data>>

Init ==
    /\ up \in [Service -> BOOLEAN]
    /\ data \in [Service -> Content]

\* The application is taken down, or crashes.
Stop(s) ==
    /\ up[s]
    /\ up' = [up EXCEPT ![s] = FALSE]
    /\ UNCHANGED data

\* The application comes back on the data it left.
Start(s) ==
    /\ ~up[s]
    /\ up' = [up EXCEPT ![s] = TRUE]
    /\ data' = [data EXCEPT ![s] = Ready(@)]

\* A running application changes its own data.
Write(s, c) ==
    /\ up[s]
    /\ data' = [data EXCEPT ![s] = c]
    /\ UNCHANGED up

Next == \E s \in Service : Stop(s) \/ Start(s) \/ \E c \in Content : Write(s, c)

Spec == Init /\ [][Next]_vars
=============================================================================
