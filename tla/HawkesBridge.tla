---------------------------- MODULE HawkesBridge ----------------------------
(* simulate.py and the C interface of hawkes_c_api.cpp it calls through ctypes:
   the search for the shared library and its fallback, the Python mark sampler
   native code calls back, and the buffers it returns.

   Calls come from several threads: ctypes gives up the interpreter lock while
   native code runs.  The processes behind the calls are OrderFlow's; here a
   simulation is the marks it draws.  The library may be built while the
   process runs, but not while a call is looking for it.                     *)
EXTENDS Integers, FiniteSets, SequencesExt

CONSTANTS
  Callers,          (* threads                                                *)
  MaxCalls,         (* bound: calls of a thread                               *)
  MaxEvents         (* bound: events of a simulation                          *)

VARIABLES
  env,              (* HFT_HAWKES_BRIDGE: "unset", "missing" or "present"     *)
  built,            (* a library lies on the search path                      *)
  lib, bridgeError, warned,   (* the globals of simulate.py                   *)
  registry,         (* _CALLBACK_REGISTRY: callbacks that stay alive          *)
  lastError,        (* g_last_error, thread local                             *)
  heap,             (* buffers allocated and not freed, [owner, buffer]       *)
  pc, call,         (* of each thread; call is [sampler, valid]               *)
  marks,            (* what the simulation has drawn                          *)
  count,            (* what the native call returned, -1 on error             *)
  outcome, calls,
  paths             (* history: how calls ended up being simulated            *)
vars == <<env, built, lib, bridgeError, warned, registry, lastError, heap, pc, call,
          marks, count, outcome, calls, paths>>
globals == <<lib, bridgeError, warned>>

Init ==
  /\ env \in {"unset", "missing", "present"} /\ built \in BOOLEAN
  /\ lib = FALSE /\ bridgeError = FALSE /\ warned = FALSE
  /\ registry = <<>> /\ heap = {} /\ paths = {}
  /\ lastError = [c \in Callers |-> FALSE] /\ pc = [c \in Callers |-> "idle"]
  /\ call = [c \in Callers |-> [sampler |-> FALSE, valid |-> TRUE]]
  /\ marks = [c \in Callers |-> <<>>] /\ count = [c \in Callers |-> 0]
  /\ outcome = [c \in Callers |-> "none"] /\ calls = [c \in Callers |-> 0]

Goto(c, where) == pc' = [pc EXCEPT ![c] = where]
Ends(c, how) == Goto(c, "idle") /\ outcome' = [outcome EXCEPT ![c] = how]

-----------------------------------------------------------------------------
(* Finding the library                                                       *)

\* A call whose parameters the C interface accepts or refuses, with a mark
\* sampler or without.
Begin(c) ==
  /\ pc[c] = "idle" /\ calls[c] < MaxCalls
  /\ call' \in {[call EXCEPT ![c] = k] : k \in [sampler : BOOLEAN, valid : BOOLEAN]}
  /\ calls' = [calls EXCEPT ![c] = @ + 1] /\ marks' = [marks EXCEPT ![c] = <<>>]
  /\ outcome' = [outcome EXCEPT ![c] = "none"] /\ Goto(c, "load")
  /\ UNCHANGED <<env, built, globals, registry, lastError, heap, count, paths>>

Build ==
  /\ ~built /\ built' = TRUE /\ \A c \in Callers : pc[c] \notin {"load", "search"}
  /\ UNCHANGED <<env, globals, registry, lastError, heap, pc, call, marks, count,
                 outcome, calls, paths>>

KnownMissing == bridgeError

\* _load_bridge: what an earlier call found or failed to find is kept.
LoadCached(c) ==
  /\ pc[c] = "load"
  /\ Goto(c, IF lib THEN "register" ELSE IF KnownMissing THEN "fallback" ELSE "search")
  /\ UNCHANGED <<env, built, globals, registry, lastError, heap, call, marks, count,
                 outcome, calls, paths>>

\* The override comes first, and raises when it names no file.
Search(c) ==
  /\ pc[c] = "search"
  /\ IF env = "missing"
     THEN Ends(c, "raised") /\ UNCHANGED <<lib, bridgeError>>
     ELSE IF env = "present" \/ built
     THEN lib' = TRUE /\ Goto(c, "register") /\ UNCHANGED <<bridgeError, outcome>>
     ELSE bridgeError' = TRUE /\ Goto(c, "fallback") /\ UNCHANGED <<lib, outcome>>
  /\ UNCHANGED <<env, built, warned, registry, lastError, heap, call, marks, count,
                 calls, paths>>

-----------------------------------------------------------------------------
(* The native call                                                           *)

\* _make_callback
Register(c) ==
  /\ pc[c] = "register"
  /\ registry' = IF call[c].sampler THEN Append(registry, c) ELSE registry
  /\ paths' = paths \cup {"native"} /\ Goto(c, "native")
  /\ UNCHANGED <<env, built, globals, lastError, heap, call, marks, count, outcome, calls>>

\* A mark comes from the sampler or from the process; ctypes turns a sampler
\* that raises into a mark of 0.
DrawNative(c) ==
  /\ pc[c] = "native" /\ call[c].valid /\ Len(marks[c]) < MaxEvents
  /\ \E mark \in IF call[c].sampler THEN {0, 1} ELSE {1} :
       marks' = [marks EXCEPT ![c] = Append(@, mark)]
  /\ UNCHANGED <<env, built, globals, registry, lastError, heap, pc, call, count,
                 outcome, calls, paths>>

\* copy_stream
Buffers(c) ==
  IF marks[c] = <<>> THEN {}
  ELSE {[owner |-> c, buffer |-> b] : b \in {"times", "marks"}}

\* Mutant: the oldest registration is released.
ReleasedOldest(c) == IF registry = <<>> THEN registry ELSE Tail(registry)
\* _release_registration removes the call's own registration, if it made one.
Released(c) ==
  IF call[c].sampler
  THEN RemoveAt(registry, CHOOSE k \in DOMAIN registry : registry[k] = c)
  ELSE registry

\* handle_failure's size_t(-1), the ERROR_SENTINEL of simulate.py.
ErrorSentinel == -1

\* The call returns, its parameters refused or its stream copied into buffers
\* (running out of memory, which ends the process, is left out).
Return(c) ==
  /\ pc[c] = "native"
  /\ registry' = Released(c)
  /\ lastError' = [lastError EXCEPT ![c] = ~call[c].valid]
  /\ IF call[c].valid
     THEN count' = [count EXCEPT ![c] = Len(marks[c])] /\ heap' = heap \cup Buffers(c)
     ELSE count' = [count EXCEPT ![c] = ErrorSentinel] /\ UNCHANGED heap
  /\ Goto(c, "copy")
  /\ UNCHANGED <<env, built, globals, call, marks, outcome, calls, paths>>

\* _run_simulation: the error is raised, an empty stream returned as it is, and
\* the arrays copied before their buffers are freed.
Copy(c) ==
  /\ pc[c] = "copy"
  /\ IF count[c] > 0 THEN Goto(c, "free times") /\ UNCHANGED outcome
     ELSE Ends(c, IF count[c] < 0 THEN "raised" ELSE "returned")
  /\ UNCHANGED <<env, built, globals, registry, lastError, heap, call, marks, count,
                 calls, paths>>

\* hawkes_free_buffer, called for one buffer and then for the other.
FreeAt(buffer) == IF buffer = "times" THEN "free times" ELSE "free marks"

Free(c, buffer) ==
  /\ pc[c] = FreeAt(buffer)
  /\ heap' = heap \ {[owner |-> c, buffer |-> buffer]}
  /\ IF buffer = "times" THEN Goto(c, "free marks") /\ UNCHANGED outcome
     ELSE Ends(c, "returned")
  /\ UNCHANGED <<env, built, globals, registry, lastError, call, marks, count, calls, paths>>

-----------------------------------------------------------------------------
(* The simulation in Python                                                  *)

\* _warn_fallback warns once.
Fallback(c) ==
  /\ pc[c] = "fallback"
  /\ warned' = TRUE /\ paths' = paths \cup {"python"} /\ Goto(c, "python")
  /\ UNCHANGED <<env, built, lib, bridgeError, registry, lastError, heap, call, marks,
                 count, outcome, calls>>

\* A sampler that raises ends the call.
DrawPython(c) ==
  /\ pc[c] = "python" /\ Len(marks[c]) < MaxEvents
  /\ \/ marks' = [marks EXCEPT ![c] = Append(@, 1)] /\ UNCHANGED <<pc, outcome>>
     \/ call[c].sampler /\ Ends(c, "raised") /\ UNCHANGED marks
  /\ UNCHANGED <<env, built, globals, registry, lastError, heap, call, count, calls, paths>>

EndPython(c) ==
  /\ pc[c] = "python" /\ Ends(c, "returned")
  /\ UNCHANGED <<env, built, globals, registry, lastError, heap, call, marks, count,
                 calls, paths>>

Next ==
  \/ Build
  \/ \E c \in Callers :
       \/ Begin(c) \/ LoadCached(c) \/ Search(c) \/ Register(c) \/ DrawNative(c)
       \/ Return(c) \/ Copy(c) \/ Free(c, "times") \/ Free(c, "marks")
       \/ Fallback(c) \/ DrawPython(c) \/ EndPython(c)

Spec == Init /\ [][Next]_vars

-----------------------------------------------------------------------------
(* A buffer lives only while the call that got it has still to free it: a call
   that is over has left none behind, however it ended.                      *)
BuffersAreFreed ==
  \A b \in heap :
    \/ pc[b.owner] \in {"copy", "free times"} /\ count[b.owner] > 0
    \/ pc[b.owner] = "free marks" /\ b.buffer = "marks"

(* Native code that may call a sampler back finds its registration alive,
   whatever other threads release meanwhile; and none outlives its call.     *)
CallbackAlive ==
  \A c \in Callers :
    (pc[c] = "native" /\ call[c].sampler) <=> c \in ToSet(registry)

(* The calls of a process are all simulated natively or all in Python, also
   when the library is built after the first of them.                        *)
OnePath == Cardinality(paths) <= 1

(* A call the C interface refused raises, with the message of its own thread. *)
RefusalIsRaised ==
  \A c \in Callers :
    /\ pc[c] = "copy" => (count[c] < 0 <=> lastError[c])
    /\ outcome[c] = "returned" /\ "native" \in paths => call[c].valid

(* Calls from any number of threads leave nothing behind, find what they
   need, take one path and report refusals (simulate.py:84-260).           *)
CallsAreSound == BuffersAreFreed /\ CallbackAlive /\ OnePath /\ RefusalIsRaised

=============================================================================
