---------------------------------- MODULE App ---------------------------------
(***************************************************************************)
(* The application (src/src/app/main.c, ui.c) on top of the plugin: it     *)
(* looks for the kernel module, loads what is missing, does one thing for  *)
(* each button that goes down, and unloads.  Its main thread is the only   *)
(* caller of the plugin.  The user may start it again when it has ended.   *)
(***************************************************************************)
EXTENDS Kwifimon

CONSTANTS
    Pads         \* pad.buttons: the sets of buttons the user holds down at once

Circle   == "circle"       \* ends the loop
Triangle == "triangle"     \* shows the counters, and resets them
Square   == "square"       \* patches the firmware
Left     == "left"         \* starts the capture
Right    == "right"        \* stops it

ASSUME AppAssumption ==
    /\ Callers = {Unloader}
    /\ {"mod_stats_reset", "cap_start", "cap_stop"} \subseteq Calls
    /\ Pads \subseteq SUBSET {Circle, Triangle, Square, Left, Right}

VARIABLES
    apc,        \* where main is
    pad_last,   \* the buttons down at the last poll
    in,         \* of those, the ones that went down there and are not served yet
    kmod,       \* what main's variable holds: an error, or which module's id
    umod,       \* whether the user library is loaded
    present,    \* whether the kernel has a module kwifimon
    ours,       \* history: whether this run of the application loaded it
    refused,    \* history: whether the kernel then would not unload it
    served,     \* history: buttons served and not seen up since
    shown       \* history: sum of the counters displayed since it was loaded

appVars == <<apc, pad_last, in, kmod, umod, present, ours, refused, served, shown>>
allVars == <<vars, appVars>>

Me == Unloader

AppInit ==
    /\ Init
    /\ apc = "search" /\ pad_last = {} /\ in = {}
    /\ kmod = "error" /\ umod = FALSE
    /\ present \in BOOLEAN /\ ours = FALSE /\ refused = FALSE
    /\ served = {} /\ shown = Zero

AGoto(from, to) == apc = from /\ apc' = to
-------------------------------------------------------------------------------
\* _vshKernelSearchModuleByName.  kmod is set only if there is no module yet;
\* otherwise it stays what the stack held: not positive, the id of something
\* else, or even the right one.
Search ==
    /\ \/ /\ present /\ lpc \in {"loaded", "stopped"}
          /\ AGoto("search", "load_user")
          /\ kmod' \in {"error", "other", "kwifimon"}
       \/ ~present /\ AGoto("search", "load_kernel") /\ UNCHANGED kmod
    /\ UNCHANGED <<vars, pad_last, in, umod, present, ours, refused, served, shown>>

\* taiLoadStartKernelModule.  A module that was there before starts anew: its
\* memory is fresh; a thread that was still in its old code is lost.
LoadFails ==
    /\ AGoto("load_kernel", "load_user") /\ kmod' = "error"
    /\ UNCHANGED <<vars, pad_last, in, umod, present, ours, refused, served, shown>>

LoadKernel ==
    /\ AGoto("load_kernel", "starting")
    /\ kmod' = "kwifimon" /\ present' = TRUE
    /\ ours' = TRUE /\ refused' = FALSE
    /\ mutex' = "absent" /\ lpc' = "create" /\ hooks' = {}
    /\ kwifimon_state' = STATE_IDLE
    /\ kwifimon_stats' = Zero /\ seen' = Zero /\ reported' = Zero /\ shown' = Zero
    /\ pcap_fd' = NoFd /\ knet_fd' = NoFd
    /\ holder' = {} /\ rxpc' = (IF rxpc = "idle" THEN "idle" ELSE "lost")
    /\ UNCHANGED <<openFiles, openSocks, word, snap, callVars, frame, count,
                   pad_last, in, umod, served>>

Started ==
    /\ lpc = "loaded" /\ AGoto("starting", "load_user")
    /\ UNCHANGED <<vars, pad_last, in, kmod, umod, present, ours, refused, served, shown>>

\* sceKernelLoadStartModule of the library; without the kernel module its
\* imports cannot be resolved.  Its result is displayed, not looked at, and
\* uwifimon_mod_state is called next, into the library or into nothing.
LoadUser ==
    /\ \/ present /\ umod' = TRUE /\ AGoto("load_user", "poll")
       \/ UNCHANGED umod /\ AGoto("load_user", "crashed")
    /\ UNCHANGED <<vars, pad_last, in, kmod, present, ours, refused, served, shown>>

\* ui_get_input, at the top of the loop: what is down now and was up before.
Sample_NotSaved(pad) ==            \* slip: ui_pad_last is not updated
    in' = pad \ pad_last /\ UNCHANGED pad_last
Sample(pad) ==
    in' = pad \ pad_last /\ pad_last' = pad

Poll(pad) ==
    /\ AGoto("poll", "serve")
    /\ Sample(pad)
    /\ served' = served \cap pad
    /\ UNCHANGED <<vars, kmod, umod, present, ours, refused, shown>>

\* The buttons are served in the order the code tests them.
Order == <<Circle, Triangle, Square, Left, Right>>
Turn(k) ==
    /\ k \in in
    /\ \A i, j \in DOMAIN Order : Order[j] = k /\ i < j => Order[i] \notin in
    /\ in' = in \ {k} /\ served' = served \cup {k}

\* O leaves the loop, and what else was pressed with it.
ServeCircle ==
    /\ Turn(Circle) /\ AGoto("serve", "unload_user")
    /\ UNCHANGED <<vars, pad_last, kmod, umod, present, ours, refused, shown>>

CallFor_NoReset(k) ==              \* slip: reset is 0
    CASE k = Triangle -> "mod_stats"
      [] k = Left     -> "cap_start"
      [] k = Right    -> "cap_stop"
CallFor(k) ==
    CASE k = Triangle -> "mod_stats_reset"
      [] k = Left     -> "cap_start"
      [] k = Right    -> "cap_stop"

ServeCall(k) ==
    /\ Turn(k) /\ AGoto("serve", "called")
    /\ Call(Me, CallFor(k))
    /\ UNCHANGED <<pad_last, kmod, umod, present, ours, refused, shown>>

\* patch_do (Patch) changes the chip and nothing here.
ServeSquare ==
    /\ Turn(Square) /\ apc = "serve"
    /\ UNCHANGED <<vars, apc, pad_last, kmod, umod, present, ours, refused, shown>>

\* The call's last step; what a reading brought is displayed.
Returns_Retries ==                 \* slip: a call that failed is made again
    /\ AGoto("called", "serve")
    /\ lpc # "unloaded" /\ (LockFails(Me) \/ Unlock(Me))
    /\ UNCHANGED <<rxVars, modVars>>
    /\ shown' = IF pc[Me] = "unlock" /\ DOMAIN snap[Me] = Kinds
                THEN [k \in Kinds |-> Add(shown[k], snap[Me][k])] ELSE shown
    /\ in' = IF pc[Me] = "unlock" THEN in
             ELSE in \cup {k \in {Triangle, Left, Right} : CallFor(k) = op[Me]}
    /\ UNCHANGED <<pad_last, kmod, umod, present, ours, refused, served>>

Returns ==
    /\ AGoto("called", "serve")
    /\ lpc # "unloaded" /\ (LockFails(Me) \/ Unlock(Me))
    /\ UNCHANGED <<rxVars, modVars>>
    /\ shown' = IF pc[Me] = "unlock" /\ DOMAIN snap[Me] = Kinds
                THEN [k \in Kinds |-> Add(shown[k], snap[Me][k])] ELSE shown
    /\ UNCHANGED <<pad_last, in, kmod, umod, present, ours, refused, served>>

LoopEnds ==
    /\ in = {} /\ AGoto("serve", "poll")
    /\ UNCHANGED <<vars, pad_last, in, kmod, umod, present, ours, refused, served, shown>>

\* sceKernelStopUnloadModule of the library, which may refuse.
UnloadUser_GivesUp ==              \* slip: a library that stays keeps the module
    /\ umod' \in {umod, FALSE}
    /\ AGoto("unload_user", IF kmod = "error" \/ umod' THEN "prompt" ELSE "unload_kernel")
    /\ in' = {}
    /\ UNCHANGED <<vars, pad_last, kmod, present, ours, refused, served, shown>>

UnloadUser ==
    /\ umod' \in {umod, FALSE}
    /\ AGoto("unload_user", IF kmod = "error" THEN "prompt" ELSE "unload_kernel")
    /\ in' = {}
    /\ UNCHANGED <<vars, pad_last, kmod, present, ours, refused, served, shown>>

\* taiStopUnloadKernelModule, if (kmod > 0).  An id that is not a kernel
\* module's is refused.
UnloadOther ==
    /\ kmod = "other" /\ AGoto("unload_kernel", "prompt")
    /\ UNCHANGED <<vars, pad_last, in, kmod, umod, present, ours, refused, served, shown>>

\* It runs module_stop, unless an earlier unloading has done so and failed ...
UnloadKernel ==
    /\ kmod = "kwifimon" /\ AGoto("unload_kernel", "unloading")
    /\ StopBegins \/ (lpc = "stopped" /\ UNCHANGED vars)
    /\ UNCHANGED <<pad_last, in, kmod, umod, present, ours, refused, served, shown>>

Unloaded ==
    /\ Unload /\ AGoto("unloading", "prompt")
    /\ present' = FALSE
    /\ UNCHANGED <<pad_last, in, kmod, umod, ours, refused, served, shown>>

\* ... and it may fail, before module_stop or after it: the result is displayed
\* only, and main goes on with the module still there.
UnloadFails ==
    /\ \/ kmod = "kwifimon" /\ AGoto("unload_kernel", "prompt")
       \/ lpc = "stopped" /\ AGoto("unloading", "prompt")
    /\ refused' = ours
    /\ UNCHANGED <<vars, pad_last, in, kmod, umod, present, ours, served, shown>>

\* "Press O to continue..."
Prompt(pad) ==
    /\ Sample(pad)
    /\ apc = "prompt"
    /\ apc' = IF Circle \in pad \ pad_last THEN "exit" ELSE "prompt"
    /\ served' = served \cap pad
    /\ UNCHANGED <<vars, kmod, umod, present, ours, refused, shown>>

\* The user starts the application again: a new process.
Restart ==
    /\ apc \in {"exit", "crashed"} /\ apc' = "search"
    /\ pad_last' = {} /\ in' = {} /\ kmod' = "error" /\ umod' = FALSE
    /\ ours' = FALSE /\ refused' = FALSE /\ served' = {}
    /\ UNCHANGED <<vars, present, shown>>

-------------------------------------------------------------------------------
MainStep ==
    \/ Search \/ LoadFails \/ LoadKernel \/ Started \/ LoadUser
    \/ ServeCircle \/ ServeSquare \/ \E k \in {Triangle, Left, Right} : ServeCall(k)
    \/ Returns \/ LoopEnds
    \/ UnloadUser \/ UnloadOther \/ UnloadKernel \/ Unloaded
    \/ UnloadFails

\* What goes on in the plugin meanwhile: the rest of a call, the receive
\* thread, module_start and module_stop, and a receive thread left behind.
Inner ==
    /\ \/ Lock(Me)
       \/ CallerStep(Me) /\ pc'[Me] # "idle"
       \/ RxStep
       \/ (RxLock \/ \E f \in Frames : RxEnter(f)) /\ UNCHANGED RxKeeps
       \/ present /\ ModuleStart
       \/ ModuleStop
       \/ Lost
    /\ UNCHANGED appVars

AppNext ==
    \/ MainStep \/ Inner
    \/ \E pad \in Pads : Poll(pad) \/ Prompt(pad)
    \/ Restart

\* main and the threads in the plugin are scheduled, and wait for the mutex in
\* turn; the user need not press or start anything.
AppFairness ==
    /\ WF_allVars(MainStep)
    /\ WF_allVars(((ModuleStart /\ present) \/ ModuleStop) /\ UNCHANGED appVars)
    /\ WF_allVars(CallerStep(Me) /\ pc'[Me] # "idle" /\ UNCHANGED appVars)
    /\ SF_allVars(Lock(Me) /\ UNCHANGED appVars)
    /\ WF_allVars(RxStep /\ UNCHANGED appVars)
    /\ SF_allVars(RxLock /\ UNCHANGED <<RxKeeps, appVars>>)

AppSpec == AppInit /\ [][AppNext]_allVars /\ AppFairness
-------------------------------------------------------------------------------
AppPcs == {"search", "load_kernel", "starting", "load_user", "crashed", "poll",
           "serve", "called", "unload_user", "unload_kernel", "unloading",
           "prompt", "exit"}
Resting == {"poll", "prompt", "exit", "crashed"}

\* A button that is about to be served was seen up since it was served last:
\* holding it through any number of turns of the loop, through calls and the
\* unloading, does one thing, and the O that ends the loop does not also answer
\* the last prompt (ui_get_input's use of ui_pad_last).
OneActionPerPress == in \cap served = {}

\* What the user reads adds up: between calls, the frames that entered the hook
\* since the module was loaded are those on the display, over all presses of
\* TRIANGLE and all runs of the application, with those still in the counters.
DisplayAddsUp ==
    mutex = "live" /\ apc # "called" =>
        \A k \in Kinds :
            seen[k] = Add(Add(kwifimon_stats[k], shown[k]), InFlight(k))

\* An application that loaded the kernel module has unloaded it when it asks for
\* the last O, whatever failed on the way there, the user library's unloading
\* included - unless taiStopUnloadKernelModule itself fails, which main only
\* displays (main.c:177-181).
OwnModuleGone == ours /\ ~refused /\ apc \in {"prompt", "exit"} => ~present

\* main always comes back to waiting for a button, through every call and the
\* unloading, with frames arriving all the time.
AppResponds == apc \notin Resting ~> apc \in Resting
===============================================================================
