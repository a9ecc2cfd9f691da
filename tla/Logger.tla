------------------------------- MODULE Logger -------------------------------
(***************************************************************************)
(* LL::Logger: the elements of what one thread logs go through an LFQueue  *)
(* to a thread of the logger's own, which writes them to the file, until   *)
(* the destructor waits for the queue to be empty and ends that thread.    *)
(*                                                                         *)
(* An item of LFQueue is a LogElement.  One thread logs and later destroys *)
(* the logger, as LFQueue wants it.                                        *)
(***************************************************************************)
EXTENDS LFQueue

VARIABLES
  is_running,
  thread,      \* where process_queue() is in its loops
  owner        \* where the logger's owner is: it logs, or is in ~Logger()

loggerVars == <<vars, is_running, thread, owner>>

LoggerInit ==
  /\ Init
  /\ is_running = TRUE
  /\ thread = "starting"
  /\ owner = "logging"

-----------------------------------------------------------------------------
(* logf() pushes its elements one after the other.                         *)
BeginElement ==
  /\ owner = "logging"
  /\ get_next_to_write
  /\ UNCHANGED <<is_running, thread, owner>>

push_element ==
  /\ fill_block \/ advance_write \/ count_write
  /\ UNCHANGED <<is_running, thread, owner>>

(* Slip: the thread says itself that it runs.                            *)
StartProcessSaysRunning ==
  /\ thread = "starting"
  /\ thread' = "outer"
  /\ is_running' = TRUE
  /\ UNCHANGED <<vars, owner>>

(* The constructor returns when the new thread exists; process_queue() may *)
(* begin only later.                                                       *)
StartProcess ==
  /\ thread = "starting"
  /\ thread' = "outer"
  /\ UNCHANGED <<vars, is_running, owner>>

(* while (is_running)                                                      *)
TestRunning ==
  /\ thread = "outer"
  /\ thread' = IF is_running THEN "inner" ELSE "ended"
  /\ UNCHANGED <<vars, is_running, owner>>

(* Every element there is goes to the file.                                *)
WriteElement ==
  /\ thread = "inner"
  /\ Read
  /\ UNCHANGED <<is_running, thread, owner>>

(* None is left: flush, and look whether to go on.                         *)
Flush ==
  /\ thread = "inner"
  /\ reader = "idle"
  /\ n_blocks = 0
  /\ thread' = "outer"
  /\ UNCHANGED <<vars, is_running, owner>>

process_queue == StartProcess \/ TestRunning \/ WriteElement \/ Flush

-----------------------------------------------------------------------------
(* ~Logger()                                                               *)

BeginDestruction ==
  /\ owner = "logging"
  /\ writer = "idle"
  /\ owner' = "waiting"
  /\ UNCHANGED <<vars, is_running, thread>>

(* Slip: waits until the last element is being written.                  *)
QueueIsEmptyBarOne ==
  /\ owner = "waiting"
  /\ n_blocks <= 1
  /\ owner' = "stopping"
  /\ UNCHANGED <<vars, is_running, thread>>

(* while (queue.size()) sleep                                              *)
QueueIsEmpty ==
  /\ owner = "waiting"
  /\ n_blocks = 0
  /\ owner' = "stopping"
  /\ UNCHANGED <<vars, is_running, thread>>

StopRunning ==
  /\ owner = "stopping"
  /\ is_running' = FALSE
  /\ owner' = "joining"
  /\ UNCHANGED <<vars, thread>>

(* The thread has ended; the file is closed.                               *)
Join ==
  /\ owner = "joining"
  /\ thread = "ended"
  /\ owner' = "closed"
  /\ UNCHANGED <<vars, is_running, thread>>

-----------------------------------------------------------------------------
LoggerNext ==
  \/ BeginElement
  \/ push_element
  \/ process_queue
  \/ BeginDestruction
  \/ QueueIsEmpty \/ StopRunning \/ Join

(* The logger's thread runs on, a push and a destructor once begun go on;  *)
(* nothing obliges the owner to log or to destroy the logger.              *)
LoggerSpec ==
  /\ LoggerInit /\ [][LoggerNext]_loggerVars
  /\ WF_loggerVars(process_queue)
  /\ WF_loggerVars(push_element)
  /\ WF_loggerVars(QueueIsEmpty \/ StopRunning \/ Join)

-----------------------------------------------------------------------------
(* When the destructor closes the file, everything that was logged is in   *)
(* it, and the thread that writes to it has ended.                         *)
AllLoggedWhenClosed ==
  owner = "closed" => n_read = n_written /\ reader = "idle" /\ thread = "ended"

(* The destructor returns, also if the thread has not yet begun its loop.  *)
DestructorReturns == owner = "waiting" ~> owner = "closed"
=============================================================================
