---- MODULE ServerPromise ----
(***************************************************************************)
(* What internal/server promises to whoever embeds it, without goroutines, *)
(* wait groups or deadlines: a connection is admitted, may become a        *)
(* session, and ends; the call that serves them returns nil only after     *)
(* cancellation and only when no admitted connection is left.              *)
(***************************************************************************)
CONSTANT Conns

VARIABLES stage,    \* of the serving call: "serving", "cancelled", "returned" or "failed"
          life      \* of each connection: "outside", "admitted", "session", "closing", "ended"

vars == <<stage, life>>

Stages == {"serving", "cancelled", "returned", "failed"}
Lives  == {"outside", "admitted", "session", "closing", "ended"}

Init == /\ stage = "serving"
        /\ life = [c \in Conns |-> "outside"]

Admit(c) == /\ life[c] = "outside"
            /\ stage \in {"serving", "cancelled"}
            /\ life' = [life EXCEPT ![c] = "admitted"]
            /\ UNCHANGED stage

Establish(c) == /\ life[c] = "admitted"
                /\ life' = [life EXCEPT ![c] = "session"]
                /\ UNCHANGED stage

End(c) == /\ life[c] \in {"admitted", "session"}
          /\ life' = [life EXCEPT ![c] = "closing"]
          /\ UNCHANGED stage

Release(c) == /\ life[c] = "closing"
              /\ life' = [life EXCEPT ![c] = "ended"]
              /\ UNCHANGED stage

Cancel == /\ stage = "serving"
          /\ stage' = "cancelled"
          /\ UNCHANGED life

Return == /\ stage = "cancelled"
          /\ \A c \in Conns : life[c] \in {"outside", "ended"}
          /\ stage' = "returned"
          /\ UNCHANGED life

Fail == /\ stage = "serving"
        /\ stage' = "failed"
        /\ UNCHANGED life

Next == \/ \E c \in Conns : Admit(c) \/ Establish(c) \/ End(c) \/ Release(c)
        \/ Cancel \/ Return \/ Fail

Spec == Init /\ [][Next]_vars
====
