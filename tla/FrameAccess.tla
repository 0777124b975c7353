----------------------------- MODULE FrameAccess -----------------------------
(***************************************************************************)
(* Mapping a frame into the process and bracketing the processor's access  *)
(* to it.  Source: src/src/sync_posix.c, sync_win32.c and the mapping part *)
(* of frame_darwin.c.  A call that returns an error and changes nothing is *)
(* a stuttering step.                                                      *)
(***************************************************************************)
EXTENDS Integers

CONSTANTS
    Platforms,   \* of "posix", "win32", "darwin"
    FrameSize,   \* bytes of the frame
    Page,        \* alignment of what the system maps
    Wrap,        \* where the 64-bit arithmetic of offsets and sizes wraps
    MaxFailures  \* bound on the brackets the kernel fails to end

ASSUME AccessAssumption ==
    /\ Page \in Nat \ {0} /\ Wrap \in Nat /\ MaxFailures \in Nat
    /\ FrameSize \in 1..(Wrap - 1)

(* desc: read and write in any combination, and any 64-bit numbers. *)
Flags == SUBSET {"read", "write"}
Desc == [flags : Flags, offset : 0..(Wrap - 1), size : 0..(Wrap - 1)]
None == [offset |-> -1, size |-> -1, flags |-> {}]

VARIABLES
    platform,
    map,       \* map_offset, map_length and map_flags, or None
    view,      \* what the system has mapped: its offset and size, or None
    access,    \* active_access with its offset and size, or None
    window,    \* the last out_mapping the application got, or None
    brackets,  \* starts without an end, by flags, as the kernel sees them
    failures,  \* ends that failed
    locks,     \* locks of the IOSurface this process holds
    depth,     \* cpu_begins the application has not ended (macOS)
    nested     \* it called map, unmap, or begin within begin (macOS)

vars == <<platform, map, view, access, window, brackets, failures, locks, depth, nested>>
ghosts == <<locks, depth, nested>>

Init ==
    /\ platform \in Platforms
    /\ map = None /\ view = None /\ access = None /\ window = None
    /\ brackets = [f \in Flags |-> 0]
    /\ failures = 0
    /\ locks = 0 /\ depth = 0 /\ nested = FALSE

-----------------------------------------------------------------------------
(* normalize_range: the size, or None's if the range leaves the frame. *)
Rest(offset, size) == IF size = 0 THEN FrameSize - offset ELSE size
RangeUnwrapped(offset, size) ==
    IF offset > FrameSize \/ (offset + Rest(offset, size)) % Wrap > FrameSize
    THEN None.size ELSE Rest(offset, size)

Range(offset, size) ==
    LET end == (offset + Rest(offset, size)) % Wrap
    IN  IF offset > FrameSize \/ end < offset \/ end > FrameSize
        THEN None.size ELSE Rest(offset, size)

Ranged(desc) == [desc EXCEPT !.size = Range(desc.offset, desc.size)]
Start(offset) == offset - (offset % Page)

(* texlink_frame_map: whole pages around the range are mapped. *)
Map(desc) ==
    /\ platform # "darwin"
    /\ desc.flags # {}
    /\ map = None
    /\ Range(desc.offset, desc.size) > 0
    /\ map' = Ranged(desc)
    /\ view' = [offset |-> Start(desc.offset), flags |-> desc.flags,
                size |-> (Ranged(desc).size + (desc.offset % Page)) % Wrap]
    /\ window' = Ranged(desc)
    /\ UNCHANGED <<platform, access, brackets, failures, ghosts>>

(* A second map answers with the first, whatever it asks for. *)
MapAgain(desc) ==
    /\ platform # "darwin"
    /\ desc.flags # {}
    /\ map # None
    /\ window' = map
    /\ UNCHANGED <<platform, map, view, access, brackets, failures, ghosts>>

UnmapBusy ==
    /\ platform # "darwin"
    /\ map # None
    /\ map' = None /\ view' = None /\ window' = None
    /\ UNCHANGED <<platform, access, brackets, failures, ghosts>>

Unmap ==
    /\ platform # "darwin"
    /\ access = None
    /\ map # None
    /\ map' = None /\ view' = None /\ window' = None
    /\ UNCHANGED <<platform, access, brackets, failures, ghosts>>

(* DMA_BUF_IOCTL_SYNC, on POSIX only. *)
Bracket(flags, by) ==
    brackets' = IF platform = "posix" THEN [brackets EXCEPT ![flags] = @ + by] ELSE brackets

(* texlink_frame_cpu_begin; the range is checked against the frame, not the map. *)
CpuBeginNested(desc) ==
    /\ platform # "darwin"
    /\ map # None
    /\ desc.flags # {}
    /\ \A f \in Flags : brackets[f] < 2
    /\ Range(desc.offset, desc.size) >= 0
    /\ Bracket(desc.flags, 1)
    /\ access' = Ranged(desc)
    /\ UNCHANGED <<platform, map, view, window, failures, ghosts>>

CpuBegin(desc) ==
    /\ platform # "darwin"
    /\ map # None
    /\ desc.flags # {}
    /\ access = None
    /\ Range(desc.offset, desc.size) >= 0
    /\ Bracket(desc.flags, 1)
    /\ access' = Ranged(desc)
    /\ UNCHANGED <<platform, map, view, window, failures, ghosts>>

(* texlink_frame_cpu_end: the same flags and the same range.  The access is over for
   the library even where the kernel refuses to end it.                              *)
CpuEnds(desc) ==
    /\ platform # "darwin"
    /\ map # None
    /\ access # None
    /\ Ranged(desc) = access
    /\ access' = None
    /\ UNCHANGED <<platform, map, view, window, ghosts>>

CpuEnd(desc) ==
    /\ CpuEnds(desc)
    /\ Bracket(access.flags, -1)
    /\ UNCHANGED failures

CpuEndFails(desc) ==
    /\ CpuEnds(desc)
    /\ platform = "posix"
    /\ failures < MaxFailures
    /\ failures' = failures + 1
    /\ UNCHANGED brackets

-----------------------------------------------------------------------------
(* macOS.  The whole surface is locked, and the window is one into it; the flags of
   the call are not looked at.  A size of 0 is the window's, or the frame's.        *)
Size(desc) ==
    IF desc.size # 0 THEN desc.size ELSE IF map = None THEN FrameSize ELSE map.size

Fits(desc) == desc.offset <= FrameSize /\ Size(desc) <= FrameSize - desc.offset

Surface(desc) ==
    /\ Fits(desc)
    /\ window' = [desc EXCEPT !.size = Size(desc)]
    /\ IF map # None THEN UNCHANGED <<map, view, locks>>
       ELSE /\ locks' = locks + 1
            /\ map' = [desc EXCEPT !.size = Size(desc)]
            /\ view' = [offset |-> 0, size |-> FrameSize, flags |-> {}]

UnlockUnmapped ==
    /\ locks' = locks - 1
    /\ map' = None /\ view' = None /\ window' = None

Unlock ==
    /\ map # None
    /\ locks' = locks - 1
    /\ map' = None /\ view' = None /\ window' = None

MapDarwin(desc) ==
    /\ platform = "darwin"
    /\ Surface(desc)
    /\ nested' = TRUE
    /\ UNCHANGED <<platform, access, brackets, failures, depth>>

UnmapDarwin ==
    /\ platform = "darwin"
    /\ Unlock
    /\ nested' = TRUE
    /\ UNCHANGED <<platform, access, brackets, failures, depth>>

(* texlink_frame_cpu_begin maps a frame that is not mapped, and remembers to unmap
   it; on one that is mapped it forgets what the call before remembered.           *)
Maps == [None EXCEPT !.flags = {"read", "write"}]

CpuBeginDarwinForgets(desc) ==
    /\ platform = "darwin"
    /\ depth < 2
    /\ depth' = depth + 1
    /\ nested' = (nested \/ depth > 0)
    /\ IF map # None THEN UNCHANGED <<map, view, window, locks>> ELSE Surface(desc)
    /\ UNCHANGED <<platform, access, brackets, failures>>

CpuBeginDarwin(desc) ==
    /\ platform = "darwin"
    /\ depth < 2
    /\ depth' = depth + 1
    /\ nested' = (nested \/ depth > 0)
    /\ IF map # None THEN access' = None /\ UNCHANGED <<map, view, window, locks>>
                     ELSE access' = Maps /\ Surface(desc)
    /\ UNCHANGED <<platform, brackets, failures>>

CpuEndDarwin ==
    /\ platform = "darwin"
    /\ depth > 0
    /\ depth' = depth - 1
    /\ access' = None
    /\ IF access # None /\ map # None THEN Unlock ELSE UNCHANGED <<map, view, window, locks>>
    /\ UNCHANGED <<platform, brackets, failures, nested>>

-----------------------------------------------------------------------------
Next ==
    \/ \E desc \in Desc : Map(desc) \/ MapAgain(desc) \/ CpuBegin(desc)
    \/ \E desc \in Desc : CpuEnd(desc) \/ CpuEndFails(desc)
    \/ Unmap
    \/ \E desc \in Desc : MapDarwin(desc) \/ CpuBeginDarwin(desc)
    \/ UnmapDarwin \/ CpuEndDarwin

Spec == Init /\ [][Next]_vars
=============================================================================
