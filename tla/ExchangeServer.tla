--------------------------- MODULE ExchangeServer ---------------------------
(***************************************************************************)
(* Exchange::ExchangeServer from start() to its destruction: the thread    *)
(* that owns the server starts the matching engine (OME), the order        *)
(* gateway (OGS), the publisher (MDP) with its synthesizer (SS), and the   *)
(* server's own thread (ES); later it stops and destroys the server.       *)
(*                                                                         *)
(* A thread is "created" by create_and_start_thread, "begun" when it has   *)
(* told so its creator, "looping" within run(), and "ended".               *)
(***************************************************************************)
EXTENDS Naturals, Sequences

VARIABLES
  step,       \* the step of Program the owner is at
  thread,     \* component -> where its thread is
  is_running, \* component -> the flag its loop looks at
  queues      \* the queues between the components exist

vars == <<step, thread, is_running, queues>>

Components == {"OME", "OGS", "MDP", "SS", "ES"}

(* start(), stop() of a component, with the helper that creates a thread.  *)
start(c) == <<[do |-> "create", of |-> c], [do |-> "await", of |-> c]>>

stop(c) == <<[do |-> "clear", of |-> c], [do |-> "join", of |-> c]>>

(* The publisher starts its own thread first and stops it first.           *)
StartPublisher == start("MDP") \o start("SS")

StopPublisher == stop("MDP") \o stop("SS")

(* The server's start(); then the destructor, with the stop() it calls,    *)
(* and the members, the last declared first: the queues, the components.   *)
Start == start("OME") \o start("OGS") \o StartPublisher \o start("ES")

Destroy ==
  stop("ES")
  \o <<[do |-> "destroy", of |-> "queues"]>>
  \o stop("OGS") \o StopPublisher \o stop("OME")

Program == Start \o Destroy

Init ==
  /\ step = 1
  /\ thread = [c \in Components |-> "none"]
  /\ is_running = [c \in Components |-> FALSE]
  /\ queues = TRUE

-----------------------------------------------------------------------------
(* The owner.                                                              *)

Owner(do, c) ==
  /\ step <= Len(Program)
  /\ Program[step] = [do |-> do, of |-> c]
  /\ step' = step + 1

(* The matching engine's start() leaves the flag to run().                 *)
Create(c) ==
  /\ Owner("create", c)
  /\ is_running' = [is_running EXCEPT ![c] = (c # "OME")]
  /\ thread' = [thread EXCEPT ![c] = "created"]
  /\ UNCHANGED queues

AwaitBegun(c) ==
  /\ Owner("await", c)
  /\ thread[c] # "created"
  /\ UNCHANGED <<thread, is_running, queues>>

Clear(c) ==
  /\ Owner("clear", c)
  /\ is_running' = [is_running EXCEPT ![c] = FALSE]
  /\ UNCHANGED <<thread, queues>>

Join(c) ==
  /\ Owner("join", c)
  /\ thread[c] = "ended"
  /\ UNCHANGED <<thread, is_running, queues>>

DestroyQueues ==
  /\ Owner("destroy", "queues")
  /\ queues' = FALSE
  /\ UNCHANGED <<thread, is_running>>

-----------------------------------------------------------------------------
(* The thread of a component.                                              *)

Begin(c) ==
  /\ thread[c] = "created"
  /\ thread' = [thread EXCEPT ![c] = "begun"]
  /\ UNCHANGED <<step, is_running, queues>>

Run(c) ==
  /\ thread[c] = "begun"
  /\ thread' = [thread EXCEPT ![c] = "looping"]
  /\ is_running' = [is_running EXCEPT ![c] = (c = "OME") \/ @]
  /\ UNCHANGED <<step, queues>>

End(c) ==
  /\ thread[c] = "looping"
  /\ ~ is_running[c]
  /\ thread' = [thread EXCEPT ![c] = "ended"]
  /\ UNCHANGED <<step, is_running, queues>>

-----------------------------------------------------------------------------
OwnerSteps ==
  \/ \E c \in Components : Create(c) \/ AwaitBegun(c) \/ Clear(c) \/ Join(c)
  \/ DestroyQueues

ThreadSteps(c) == Begin(c) \/ Run(c) \/ End(c)

Next == OwnerSteps \/ \E c \in Components : ThreadSteps(c)

(* Every thread that was created gets on, and so does the owner, within    *)
(* start() and from the destructor on; it need never destroy the server.   *)
Started == step = Len(Start) + 1

Fairness ==
  /\ WF_vars(~ Started /\ OwnerSteps)
  /\ \A c \in Components : WF_vars(ThreadSteps(c))

Spec == Init /\ [][Next]_vars /\ Fairness

-----------------------------------------------------------------------------
(* The server's stop(), which the destructor begins with, has ended the    *)
(* child threads: none is left to poll the queues when they are destroyed. *)
StopKillsChildThreads ==
  ~ queues => \A c \in {"OME", "OGS", "MDP"} : thread[c] = "ended"

(* A component's stop() ends its thread: when the flag is cleared and the  *)
(* owner joins, the thread halts its loop, or never enters it if it has    *)
(* only just begun.  It does not hold of the matching engine, see Run.     *)
Joining(c) == step <= Len(Program) /\ Program[step] = [do |-> "join", of |-> c]

StopEndsTheThread == \A c \in Components : Joining(c) ~> thread[c] = "ended"
=============================================================================
