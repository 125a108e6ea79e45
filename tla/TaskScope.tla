------------------------------ MODULE TaskScope ------------------------------
(***************************************************************************)
(* What a goroutine scope of the ssh server promises to whoever waits for  *)
(* it.  The server opens such a scope in two places: handleChannels starts *)
(* one goroutine per channel and waits for them on c.wg, and Serve starts  *)
(* one goroutine per shell, subsystem or port forward and waits for them   *)
(* on reqData.wg.  In both cases the promise is the same: no task starts   *)
(* once the scope is closing, and the scope is closed, which is what the   *)
(* waiter observes, only when none of its tasks is running.                *)
(***************************************************************************)
CONSTANT Tasks

VARIABLES running,      \* the tasks that have started and not yet returned
          phase         \* "open", "closing" (cancelled), "closed" (observed)

vars == <<running, phase>>

Init == running = {} /\ phase = "open"

Begin(t) == /\ phase = "open"
            /\ t \notin running
            /\ running' = running \cup {t}
            /\ UNCHANGED phase

Finish(t) == /\ t \in running
             /\ running' = running \ {t}
             /\ UNCHANGED phase

Close == /\ phase = "open"
         /\ phase' = "closing"
         /\ UNCHANGED running

(* A scope that never had a task may be closed without a closing phase.    *)
Join == /\ phase # "closed"
        /\ running = {}
        /\ phase' = "closed"
        /\ UNCHANGED running

Next == \/ \E t \in Tasks : Begin(t) \/ Finish(t)
        \/ Close
        \/ Join

Spec == Init /\ [][Next]_vars
=============================================================================
