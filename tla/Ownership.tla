------------------------------ MODULE Ownership ------------------------------
(***************************************************************************)
(* Who owns the native resources of the library: descriptors, handles,     *)
(* mappings, device objects and structures.  An application makes one of   *)
(* the objects of the library, calls it and destroys it; every call runs   *)
(* its script, any step of which may fail.  The scripts are those of       *)
(* FrameHandles, VulkanHandles, GlHandles, D3DHandles and SessionHandles.  *)
(***************************************************************************)
EXTENDS VulkanHandles, GlHandles, D3DHandles, SessionHandles, FiniteSets

Objects == PosixObjects \cup Win32Objects \cup DarwinObjects
           \cup VulkanObjects \cup GlObjects \cup D3DObjects \cup SessionObjects

(* What may be given back only before something it was made from. *)
MadeFrom == {
    <<"bo", "gbm">>, <<"gbm", "drm">>,
    <<"vk_image", "vk_memory">>, <<"vk_buffer", "vk_memory">>,
    <<"mapped1", "range1">>, <<"mapped2", "range2">>,
    <<"mapped1", "cu_handle">>, <<"mapped2", "cu_handle">>,
    <<"lock", "dx_object">>, <<"dx_object", "dx_device">>, <<"dx_object", "texture">>,
    <<"dx_object", "texture2d">>, <<"dx_device", "device">>, <<"shm", "shm_fd">>,
    <<"client_fd", "server">>, <<"instance", "listener">>, <<"pipe", "socket">> }

VARIABLES
    object,   \* the object at work
    stage,    \* what the application, or the library, is doing with it
    todo,     \* the rest of the running script
    open,     \* the resources that are open
    set,      \* the variables and fields that are not null
    faults    \* what has gone wrong with it: <<kind, resource>>

vars == <<object, stage, todo, open, set, faults>>

Stages == {"idle", "create", "undo", "live", "use", "destroy"}
Kept == object.app \ object.given       \* what stays the application's

Init ==
    /\ object \in Objects
    /\ stage = "idle"
    /\ todo = <<>>
    /\ open = {} /\ set = {} /\ faults = {}

Create ==
    /\ stage = "idle"
    /\ object' \in Objects
    /\ \E script \in object'.create : todo' = script
    /\ stage' = "create"
    /\ open' = object'.app
    /\ set' = object'.given
    /\ faults' = {}

Use ==
    /\ stage = "live"
    /\ \E script \in object.use : todo' = script
    /\ stage' = "use"
    /\ UNCHANGED <<object, open, set, faults>>

Destroy ==
    /\ stage = "live"
    /\ \E script \in object.destroy : todo' = script
    /\ stage' = "destroy"
    /\ UNCHANGED <<object, open, set, faults>>

-----------------------------------------------------------------------------
step == Head(todo)
Running == stage \notin {"idle", "live"} /\ todo # <<>>

(* The step is done and the script goes on. *)
Goes == todo' = Tail(todo) /\ UNCHANGED <<object, stage>>

(* A handle that is overwritten while it is open is lost. *)
Acquire ==
    /\ Running
    /\ \/ step.op \in {"get", "got"}
       \/ step.op = "once" /\ step.r \notin set
    /\ open' = open \cup {step.r}
    /\ set' = set \cup {step.r}
    /\ faults' = faults \cup {<<"lost", r>> : r \in {step.r} \cap open}
    /\ Goes

(* What goes wrong in giving r back: it is not open any more, it belongs to the
   application, or something made from it is still open.                        *)
Wrong(r) ==
    (IF r \notin open THEN {<<"twice", r>>} ELSE {})
    \cup (IF r \in Kept THEN {<<"borrowed", r>>} ELSE {})
    \cup {<<"early", r>> : c \in {c \in open : <<c, r>> \in MadeFrom}}

Release ==
    /\ Running
    /\ \/ step.op = "close"
       \/ step.op = "free" /\ step.r \in set
    /\ open' = open \ {step.r}
    /\ set' = IF step.op = "free" THEN set \ {step.r} ELSE set
    /\ faults' = faults \cup Wrong(step.r)
    /\ Goes

(* Another owner has taken the resource over. *)
GiveAway ==
    /\ Running
    /\ step.op = "give"
    /\ open' = open \ {step.r}
    /\ set' = set \ {step.r}
    /\ UNCHANGED faults
    /\ Goes

Renamed(names) == (names \ {step.r}) \cup (IF step.r \in names THEN {step.to} ELSE {})

(* Assigned to another variable: what that named before is lost if it is open. *)
Rename ==
    /\ Running
    /\ step.op = "move"
    /\ open' = Renamed(open)
    /\ set' = Renamed(set)
    /\ faults' = faults \cup {<<"lost", r>> : r \in {step.to} \cap open}
    /\ Goes

(* Steps that find nothing to do, or a condition that holds. *)
Pass ==
    /\ Running
    /\ \/ step.op \in {"check", "again"}
       \/ step.op = "once" /\ step.r \in set
       \/ step.op = "free" /\ step.r \notin set
       \/ step.op = "need" /\ step.r \in set
       \/ step.op = "lack" /\ step.r \notin set
    /\ todo' = Tail(todo)
    /\ stage' = IF step.op = "again" /\ stage = "undo" THEN "create" ELSE stage
    /\ UNCHANGED <<object, open, set, faults>>

(* The step fails: its error path is what is left of the script. *)
StepFails ==
    /\ Running
    /\ \/ step.op \in {"get", "check", "fail"}
       \/ step.op = "once" /\ step.r \notin set
       \/ step.op = "need" /\ step.r \notin set
       \/ step.op = "lack" /\ step.r \in set
    /\ todo' = step.err
    /\ stage' = IF stage = "create" THEN "undo" ELSE stage
    /\ UNCHANGED <<object, open, set, faults>>

-----------------------------------------------------------------------------
(* The function returns: the object, if there is one, is complete. *)
Returns ==
    /\ stage \in {"create", "use"}
    /\ todo = <<>>
    /\ stage' = "live"
    /\ UNCHANGED <<object, todo, open, set, faults>>

(* No object any more: what is open without being the application's is lost; a
   handle that a failed call was given is the application's again.               *)
Mine == IF stage = "undo" THEN object.app ELSE Kept
Gone ==
    /\ stage \in {"undo", "destroy"}
    /\ todo = <<>>
    /\ stage' = "idle"
    /\ faults' = faults \cup {<<"lost", r>> : r \in open \ Mine}
                        \cup {<<"taken", r>> : r \in Mine \ open}
    /\ open' = {} /\ set' = {}
    /\ UNCHANGED <<object, todo>>

Next ==
    \/ Create \/ Use \/ Destroy
    \/ Acquire \/ Release \/ GiveAway \/ Rename \/ Pass \/ StepFails
    \/ Returns \/ Gone

Spec == Init /\ [][Next]_vars
=============================================================================
