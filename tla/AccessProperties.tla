-------------------------- MODULE AccessProperties --------------------------
(***************************************************************************)
(* What the application and the kernel may rely on while a frame is mapped *)
(* and accessed.                                                           *)
(***************************************************************************)
EXTENDS FrameAccess

Region == [flags : Flags, offset : -1..(Wrap - 1), size : -1..(Wrap - 1)]

(* Every variable has its type; the counters stay within their bounds. *)
TypeOK ==
    /\ platform \in Platforms
    /\ map \in Region /\ view \in Region /\ access \in Region /\ window \in Region
    /\ brackets \in [Flags -> 0..(MaxFailures + 1)]
    /\ failures \in 0..MaxFailures
    /\ locks \in 0..1 /\ depth \in 0..2 /\ nested \in BOOLEAN

Bytes(region) == region.offset..(region.offset + region.size - 1)

(* A window the application is given lies in what is mapped, and a frame's window
   within the frame, for every offset and size it can ask with: the sum of the two
   may wrap, and the page before the offset belongs to the mapping.                *)
WindowMapped ==
    window # None => /\ Bytes(window) \subseteq Bytes(view)
                     /\ Bytes(window) \subseteq 0..(FrameSize - 1)

(* To the kernel an access is one start with one end of the same flags: besides the
   ends it refused, only the access that is under way is open, with its flags, and it
   lasts only as long as the mapping.                                               *)
BracketsMatch ==
    LET under == [f \in Flags |-> IF platform = "posix" /\ access # None /\ f = access.flags
                                  THEN 1 ELSE 0]
    IN  /\ \A f \in Flags : brackets[f] >= under[f]
        /\ failures = 0 => brackets = under
        /\ platform # "darwin" /\ access # None => map # None

(* While the processor accesses a frame its mapping neither moves nor goes away, and
   an access ends before the next one begins: nothing replaces it.                 *)
AccessUndisturbed ==
    [][platform # "darwin" /\ access # None =>
        map' = map /\ view' = view /\ access' \in {access, None}]_vars

(* An application on macOS that only pairs begins with ends, one pair after another,
   leaves the surface unlocked; a lock is held for no other reason than a mapping.  *)
PairsUnlock ==
    platform = "darwin" => /\ locks = IF map # None THEN 1 ELSE 0
                           /\ ~nested /\ depth = 0 => locks = 0
=============================================================================
