------------------------------- MODULE IoOps --------------------------------
(***************************************************************************)
(* Asynchronous operations of one Boost.Asio socket, counted by callback.  *)
(*                                                                         *)
(* An operation started with async_xxx is pending in the reactor until the *)
(* kernel finishes it; its completion is then queued in the io_service     *)
(* until a worker thread runs the callback.  Two operations that will run  *)
(* the same callback with the same result are interchangeable, so both     *)
(* tables only count:                                                      *)
(*    pending[c]   operations whose callback is c, still in the reactor    *)
(*    ready[c][r]  queued calls of c with result r                         *)
(* The operators take the tables as arguments; the modules of the          *)
(* endpoints hold them as variables.                                       *)
(***************************************************************************)
EXTENDS Naturals, Functions

(* A socket operation that was started and that the kernel keeps waiting.  *)
StartOp(pending, c) == [pending EXCEPT ![c] = @ + 1]

(* The kernel is through with one operation of callback c.                 *)
EndOp(pending, c) == [pending EXCEPT ![c] = @ - 1]

(* A completion queued in the io_service, and one taken out by a worker.   *)
Post(ready, c, r) == [ready EXCEPT ![c][r] = @ + 1]
Take(ready, c, r) == [ready EXCEPT ![c][r] = @ - 1]

(***************************************************************************)
(* Closing a descriptor takes it out of the reactor: nothing stays pending *)
(* and every operation that was pending completes with operation_aborted.  *)
(* Completions that were already queued keep the result they have.         *)
(***************************************************************************)
NonePending(pending) == [c \in DOMAIN pending |-> 0]
Aborted(pending, ready) ==
    [c \in DOMAIN ready |-> [ready[c] EXCEPT !["aborted"] = @ + pending[c]]]

(* The number of counted entries of a table indexed by callback.           *)
Total(table) == FoldFunction(+, 0, table)
=============================================================================
