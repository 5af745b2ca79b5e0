------------------------------ MODULE GpioApi ------------------------------
(***************************************************************************)
(* The libgpiod wrapper of gpio_api.c.                                     *)
(*                                                                         *)
(* Actors: client threads calling the API and the interrupt thread that    *)
(* set_callback starts.  The API functions that change state take          *)
(* gpio_api_mutex for their body, after checking line_num < max_lines      *)
(* without it; a body is one step.  The interrupt thread takes no lock: it *)
(* reads callbacks[] and lines[] and polls the descriptors it collected    *)
(* once at start.  gpio_cleanup stops the thread and joins it while it     *)
(* holds the mutex.                                                        *)
(*                                                                         *)
(* The three arrays (lines, callbacks, debounce_info) are represented by   *)
(* whether their pointer is non-NULL; an event fd by a number from FdNums  *)
(* (the kernel may hand a re-requested line the number its old request    *)
(* had, or another one), 0 standing for -1 (no event request).             *)
(***************************************************************************)
EXTENDS Naturals, FiniteSets

CONSTANTS
    Clients,      \* threads calling the API
    NumLines,     \* gpiod_chip_num_lines(chip)
    FdNums,       \* descriptor numbers the kernel may hand out
    InitFaults,   \* the allocations of gpio_init that may fail
    WaitTimeoutMs, \* timeout_ms of gpio_wait_for_interrupt; -1 waits for ever
    NoOwner       \* the mutex is free

Lines == 0 .. (NumLines - 1)
Arrays == {"lines", "callbacks", "debounce_info"}
\* The order gpio_init allocates in: a failure frees the earlier ones.
AllocOrder == <<"lines", "callbacks", "debounce_info">>
Ops == {"set_direction", "set_intr_type", "set_debounce", "set_callback",
        "set_level", "get_level", "get_direction", "wait_for_interrupt"}
Requests == {"none", "input", "output", "edge"}

VARIABLES
    chip,        \* chip # NULL
    max_lines,
    alloc,       \* the subset of Arrays whose pointer is non-NULL
    line_obj,    \* lines[i] # NULL
    req,         \* how lines[i] is requested
    fd,          \* gpiod_line_event_get_fd(lines[i]); 0 when not an event line
    callbacks,   \* callbacks[i] # NULL
    intr_thread_running,
    thr,         \* the interrupt thread: "none", "start", "loop", "exited"
    pfds,        \* the descriptors the thread polls
    active_lines,
    mutex,
    pc,          \* per client: "idle", "lock", "join", "poll", "segv"
    op, arg,     \* the call a client is in and its line
    pending      \* an unread edge event on the line's current request

api == <<chip, max_lines, alloc, line_obj, req, fd, callbacks>>
thread == <<intr_thread_running, thr, pfds, active_lines>>
vars == <<api, thread, mutex, pc, op, arg, pending>>

Init ==
    /\ chip = FALSE
    /\ max_lines = 0
    /\ alloc = {}
    /\ line_obj = [i \in Lines |-> FALSE]
    /\ req = [i \in Lines |-> "none"]
    /\ fd = [i \in Lines |-> 0]
    /\ callbacks = [i \in Lines |-> FALSE]
    /\ intr_thread_running = FALSE
    /\ thr = "none"
    /\ pfds = {}
    /\ active_lines = 0
    /\ mutex = NoOwner
    /\ pc = [c \in Clients |-> "idle"]
    /\ op = [c \in Clients |-> "none"]
    /\ arg = [c \in Clients |-> 0]
    /\ pending = [i \in Lines |-> FALSE]

\* A body under gpio_api_mutex runs when no other thread holds it.
Free(c) == mutex = NoOwner

-----------------------------------------------------------------------------
(* gpio_init, called while not initialised.  The body runs under the      *)
(* mutex.  An allocation failure frees what was allocated before it and    *)
(* closes the chip, but max_lines keeps the chip's line count.             *)
gpio_init(c) ==
    /\ pc[c] = "idle" /\ chip = FALSE /\ Free(c)
    /\ \/ /\ alloc' = {"lines", "callbacks", "debounce_info"}
          /\ chip' = TRUE
          /\ line_obj' = [i \in Lines |-> FALSE]
          /\ callbacks' = [i \in Lines |-> FALSE]
       \/ \E k \in 1 .. 3 :
            /\ AllocOrder[k] \in InitFaults
            /\ alloc' = alloc \ {AllocOrder[j] : j \in 1 .. k}
            /\ chip' = FALSE
            /\ UNCHANGED <<line_obj, callbacks>>
    /\ max_lines' = NumLines
    /\ UNCHANGED <<req, fd, thread, pc, mutex, op, arg, pending>>

(* gpio_cleanup: under the mutex, stop the thread and join it.             *)
gpio_cleanup_stop(c) ==
    /\ pc[c] = "idle" /\ Free(c)
    /\ mutex' = c
    /\ intr_thread_running' = FALSE
    /\ pc' = [pc EXCEPT ![c] = "join"]
    /\ UNCHANGED <<api, thr, pfds, active_lines, op, arg, pending>>

\* Release every line, free the arrays and close the chip.
ReleaseAll ==
    /\ alloc' = {}
    /\ chip' = FALSE
    /\ line_obj' = [i \in Lines |-> FALSE]
    /\ req' = [i \in Lines |-> "none"]
    /\ fd' = [i \in Lines |-> 0]
    /\ pending' = [i \in Lines |-> FALSE]

(* The join returns once the thread has ended, or at once if it was never  *)
(* running; then every line is released, every array freed, max_lines = 0. *)
gpio_cleanup_free(c) ==
    /\ pc[c] = "join" /\ thr \in {"none", "exited"}
    /\ ReleaseAll /\ max_lines' = 0 /\ thr' = "none"
    /\ pc' = [pc EXCEPT ![c] = "idle"] /\ mutex' = NoOwner
    /\ UNCHANGED <<callbacks, intr_thread_running, pfds, active_lines, op, arg>>

(* The check every call below makes before it locks: line_num < max_lines, *)
(* read without the mutex.                                                 *)
CheckLine(c) ==
    /\ pc[c] = "idle"
    /\ \E o \in Ops, l \in Lines :
         /\ op' = [op EXCEPT ![c] = o]
         /\ arg' = [arg EXCEPT ![c] = l]
         /\ pc' = [pc EXCEPT ![c] = IF l < max_lines THEN "lock" ELSE "idle"]
    /\ UNCHANGED <<api, thread, mutex, pending>>

(* get_line rechecks chip and max_lines under the mutex.                   *)
get_line(l) == chip /\ l < max_lines

(* gpio_set_direction / gpio_set_intr_type: release the line if it is      *)
(* requested, then request it again; a new edge request gets a descriptor  *)
(* number not held by another line.                                        *)
Rerequest(c, kind) ==
    LET l == arg[c] IN
    /\ pc[c] = "lock" /\ op[c] = IF kind = "edge" THEN "set_intr_type"
                                                 ELSE "set_direction"
    /\ Free(c)
    /\ IF get_line(l)
       THEN /\ line_obj' = [line_obj EXCEPT ![l] = TRUE]
            /\ pending' = [pending EXCEPT ![l] = FALSE]
            /\ \E ok \in BOOLEAN, n \in FdNums \ {fd[i] : i \in Lines \ {l}} :
                 /\ req' = [req EXCEPT ![l] = IF ok THEN kind ELSE "none"]
                 /\ fd' = [fd EXCEPT ![l] = IF ok /\ kind = "edge" THEN n ELSE 0]
       ELSE UNCHANGED <<line_obj, req, fd, pending>>
    /\ pc' = [pc EXCEPT ![c] = "idle"]
    /\ UNCHANGED <<chip, max_lines, alloc, callbacks, thread, mutex, op, arg>>

gpio_set_direction(c) == \E d \in {"input", "output"} : Rerequest(c, d)
gpio_set_intr_type(c) == Rerequest(c, "edge")

(* gpio_set_debounce writes debounce_info[line_num] with no recheck.       *)
gpio_set_debounce(c) ==
    /\ pc[c] = "lock" /\ op[c] = "set_debounce" /\ Free(c)
    /\ IF "debounce_info" \in alloc
       THEN pc' = [pc EXCEPT ![c] = "idle"]
       ELSE pc' = [pc EXCEPT ![c] = "segv"]
    /\ UNCHANGED <<api, thread, mutex, op, arg, pending>>

(* start_intr_thread: set the flag, then pthread_create; a failed create *)
(* clears the flag again.                                                  *)
start_intr_thread ==
    \E created \in BOOLEAN :
        /\ intr_thread_running' = created
        /\ thr' = IF created THEN "start" ELSE thr

(* gpio_set_callback stores the callback (NULL unregisters it) with no     *)
(* recheck, and starts the interrupt thread for a non-NULL callback unless *)
(* the flag says it runs.                                                  *)
gpio_set_callback(c) ==
    /\ pc[c] = "lock" /\ op[c] = "set_callback" /\ Free(c)
    /\ IF "callbacks" \in alloc
       THEN \E cb \in BOOLEAN :
            /\ callbacks' = [callbacks EXCEPT ![arg[c]] = cb]
            /\ IF cb /\ ~intr_thread_running
               THEN start_intr_thread
               ELSE UNCHANGED <<intr_thread_running, thr>>
            /\ pc' = [pc EXCEPT ![c] = "idle"]
       ELSE /\ pc' = [pc EXCEPT ![c] = "segv"]
            /\ UNCHANGED <<callbacks, intr_thread_running, thr>>
    /\ UNCHANGED <<chip, max_lines, alloc, line_obj, req, fd, pfds,
                   active_lines, mutex, op, arg, pending>>

(* The calls that only look a line up under the mutex and read or write   *)
(* its value: get_line creates the line object on first use.              *)
LineIo(c, o) ==
    /\ pc[c] = "lock" /\ op[c] = o /\ Free(c)
    /\ line_obj' = IF get_line(arg[c]) THEN [line_obj EXCEPT ![arg[c]] = TRUE]
                                      ELSE line_obj
    /\ pc' = [pc EXCEPT ![c] = "idle"]
    /\ UNCHANGED <<chip, max_lines, alloc, req, fd, callbacks, thread, mutex,
                   op, arg, pending>>

gpio_get_direction(c) == LineIo(c, "get_direction")
gpio_set_level(c) == LineIo(c, "set_level")
gpio_get_level(c) == LineIo(c, "get_level")

(* gpio_wait_for_interrupt takes the mutex, looks the line up and gets its *)
(* event fd (-1, an IO error, when the line is not an edge request), and   *)
(* polls it with the mutex still held.                                     *)
gpio_wait_for_interrupt_lock(c) ==
    LET l == arg[c] IN
    /\ pc[c] = "lock" /\ op[c] = "wait_for_interrupt" /\ Free(c)
    /\ line_obj' = IF get_line(l) THEN [line_obj EXCEPT ![l] = TRUE] ELSE line_obj
    /\ IF get_line(l) /\ fd[l] # 0
       THEN mutex' = c /\ pc' = [pc EXCEPT ![c] = "poll"]
       ELSE pc' = [pc EXCEPT ![c] = "idle"] /\ UNCHANGED mutex
    /\ UNCHANGED <<chip, max_lines, alloc, req, fd, callbacks, thread, op, arg,
                   pending>>

(* poll returns on an event (which it does not read) or on the timeout;    *)
(* the debounce test after it reads last_time, which is always 0.          *)
gpio_wait_for_interrupt_poll(c) ==
    /\ pc[c] = "poll"
    /\ pending[arg[c]] \/ WaitTimeoutMs >= 0
    /\ pc' = [pc EXCEPT ![c] = "idle"] /\ mutex' = NoOwner
    /\ UNCHANGED <<api, thread, op, arg, pending>>

-----------------------------------------------------------------------------
(* intr_thread_func: collect one pollfd per line with a callback and a     *)
(* line object (fd -1 for a line not requested for events), once.         *)
intr_thread_start ==
    LET watched == {i \in Lines : callbacks[i] /\ line_obj[i]} IN
    /\ thr = "start"
    /\ pfds' = {fd[i] : i \in watched}
    /\ active_lines' = Cardinality(watched)
    /\ thr' = "loop"
    /\ UNCHANGED <<api, intr_thread_running, mutex, pc, op, arg, pending>>

(* One poll that reports line i's descriptor readable: the scan finds the  *)
(* line whose current fd equals a polled one, reads the event and calls    *)
(* callbacks[i](i).                                                        *)
intr_thread_deliver(i) ==
    /\ thr = "loop" /\ intr_thread_running /\ active_lines > 0
    /\ callbacks[i] /\ line_obj[i] /\ pending[i] /\ fd[i] \in pfds
    /\ pending' = [pending EXCEPT ![i] = FALSE]
    /\ UNCHANGED <<api, thread, mutex, pc, op, arg>>

\* A slip: the loop ends only when no line is watched, not on the flag.
intr_thread_exit_no_flag ==
    /\ thr = "loop" /\ active_lines = 0
    /\ thr' = "exited"
    /\ UNCHANGED <<api, intr_thread_running, pfds, active_lines, mutex, pc,
                   op, arg, pending>>

(* while (intr_thread_running && active_lines > 0): the loop ends, and the *)
(* thread returns without clearing intr_thread_running.                    *)
intr_thread_exit ==
    /\ thr = "loop" /\ (~intr_thread_running \/ active_lines = 0)
    /\ thr' = "exited"
    /\ UNCHANGED <<api, intr_thread_running, pfds, active_lines, mutex, pc,
                   op, arg, pending>>

(* The kernel queues a rising edge on a line requested for edge events.    *)
RaiseEdge(i) ==
    /\ req[i] = "edge" /\ ~pending[i]
    /\ pending' = [pending EXCEPT ![i] = TRUE]
    /\ UNCHANGED <<api, thread, mutex, pc, op, arg>>

Next ==
    \/ \E c \in Clients :
         \/ gpio_init(c)
         \/ gpio_cleanup_stop(c)
         \/ gpio_cleanup_free(c)
         \/ CheckLine(c)
         \/ gpio_set_direction(c)
         \/ gpio_set_intr_type(c)
         \/ gpio_set_debounce(c)
         \/ gpio_set_callback(c)
         \/ gpio_get_direction(c)
         \/ gpio_set_level(c)
         \/ gpio_get_level(c)
         \/ gpio_wait_for_interrupt_lock(c)
         \/ gpio_wait_for_interrupt_poll(c)
    \/ intr_thread_start
    \/ intr_thread_exit
    \/ \E i \in Lines : intr_thread_deliver(i) \/ RaiseEdge(i)

(* The thread runs once created and polls with a 100 ms timeout, so it     *)
(* rechecks its loop condition; a join that can return eventually does.    *)
Fairness ==
    /\ WF_vars(intr_thread_start)
    /\ WF_vars(intr_thread_exit)
    /\ \A i \in Lines : WF_vars(intr_thread_deliver(i))
    /\ \A c \in Clients : WF_vars(gpio_cleanup_free(c))
    /\ \A c \in Clients : WF_vars(gpio_wait_for_interrupt_poll(c))

Spec == Init /\ [][Next]_vars /\ Fairness

-----------------------------------------------------------------------------
TypeOK ==
    /\ chip \in BOOLEAN /\ max_lines \in {0, NumLines}
    /\ alloc \subseteq Arrays
    /\ line_obj \in [Lines -> BOOLEAN]
    /\ req \in [Lines -> Requests]
    /\ fd \in [Lines -> FdNums \cup {0}]
    /\ callbacks \in [Lines -> BOOLEAN]
    /\ intr_thread_running \in BOOLEAN
    /\ thr \in {"none", "start", "loop", "exited"}
    /\ pfds \subseteq FdNums \cup {0} /\ active_lines \in 0 .. NumLines
    /\ mutex \in Clients \cup {NoOwner}
    /\ pc \in [Clients -> {"idle", "lock", "join", "poll", "segv"}]
    /\ op \in [Clients -> Ops \cup {"none"}] /\ arg \in [Clients -> Lines]
    /\ pending \in [Lines -> BOOLEAN]

(* No call dereferences a NULL array: gpio_set_debounce and                *)
(* gpio_set_callback, which trust the unlocked max_lines check, never find *)
(* debounce_info or callbacks freed or unallocated.                        *)
NoNullDeref == \A c \in Clients : pc[c] # "segv"

(* gpio_cleanup returns: the thread it joins leaves its loop once          *)
(* intr_thread_running is cleared.                                         *)
CleanupEventuallyReturns == \A c \in Clients : pc[c] = "join" ~> pc[c] = "idle"

(* An edge on a line requested for edge events and with a registered       *)
(* callback is eventually passed to that callback.                         *)
EdgeEventuallyDelivered ==
    \A i \in Lines :
        ("callbacks" \in alloc /\ callbacks[i] /\ req[i] = "edge" /\ pending[i])
            ~> ~pending[i]

=============================================================================
