---------------------------- MODULE FrameHandles ----------------------------
(***************************************************************************)
(* What frames own on each platform.  Source:                              *)
(* src/src/frame_posix.c, frame_win32.c, frame_darwin.c.                   *)
(***************************************************************************)
EXTENDS HandleSteps

(* Every frame: map, sync and fd are its mapping, its fence and its handle;
   frame is the structure itself.  dup is a handle given to the application,
   app one that the application keeps.                                       *)

-----------------------------------------------------------------------------
(* Linux *)

(* One heap of the list: heap is the descriptor of its device. *)
DmaHeap == Get("heap") \o OnError(Get("fd"), Free(<<"heap">>)) \o Free(<<"heap">>)

AllocGbm ==
    Get("frame")
    \o OnError(Get("drm"), Free(<<"frame">>))
    \o OnError(Get("gbm"), Free(<<"drm", "frame">>))
    \o OnError(Get("bo"), Free(<<"gbm", "drm", "frame">>))
    \o OnError(Get("fd"), Free(<<"bo", "gbm", "drm", "frame">>))

(* A frame of the first heap that gives memory, and what comes next if it does not. *)
FromHeap(next) == OnError(DmaHeap, Again \o next) \o OnError(Get("frame"), Free(<<"fd">>))

(* Two heaps of the list, then GBM. *)
AllocLinear == FromHeap(FromHeap(AllocGbm))

FrameCreatePosix == {Check \o AllocLinear, Check \o AllocGbm}

(* texlink_frame_create_from_native_handle, of a descriptor fd that is handed
   over or of one that is duplicated.  A descriptor is touched only after the
   checks, and closed when no frame can be had for it.                        *)
AdoptFdPosix == Check \o OnError(Get("frame"), Close(<<"fd">>))
DupFdPosix == Check \o Get("fd") \o OnError(Get("frame"), Close(<<"fd">>))

FrameDestroyPosixTwice ==
    Free(<<"map", "sync">>) \o Close(<<"fd">>) \o Free(<<"fd", "bo", "gbm", "drm", "frame">>)

FrameDestroyPosix == Free(<<"map", "sync", "fd", "bo", "gbm", "drm", "frame">>)

(* texlink_frame_dup_native_handle and texlink_native_handle_close. *)
DupNativePosix == Need("fd") \o Get("dup")
NativeClosePosix == Need("dup") \o Free(<<"dup">>)

(* The new fence replaces the old one, which is closed. *)
SetSyncPosix == Get("new") \o Free(<<"sync">>) \o Move("new", "sync")

FrameUsePosix == {DupNativePosix \o NativeClosePosix, SetSyncPosix, Once("map"),
                  Free(<<"map">>)}

PosixObjects == {
    Object("posix frame", {}, {}, FrameCreatePosix, FrameUsePosix, {FrameDestroyPosix}),
    Object("posix adopted frame", {"fd"}, {"fd"}, {AdoptFdPosix}, FrameUsePosix,
           {FrameDestroyPosix}),
    Object("posix shared frame", {"app"}, {}, {DupFdPosix}, FrameUsePosix,
           {FrameDestroyPosix}) }

-----------------------------------------------------------------------------
(* Windows.  A legacy Direct3D 11 shared handle is not an NT handle: it is never
   duplicated, and closed only by a frame it was handed over to.               *)

AllocMapping == Get("fd") \o OnError(Get("frame"), Free(<<"fd">>))
FrameCreateWin32 == Check \o AllocMapping

AdoptValid == OnError(Get("frame"), Close(<<"fd">>))
AdoptWin32 == Check \o AdoptValid
DupWin32 == Check \o Get("fd") \o OnError(Get("frame"), Close(<<"fd">>))
LegacyWin32 == Check \o OnError(Get("frame"), Close(<<"app">>))

FrameDestroyWin32 == Free(<<"map", "fd", "sync", "frame">>)

DupNativeWin32 == Need("fd") \o Get("dup")
NativeCloseWin32 == Need("dup") \o Free(<<"dup">>)
SetSyncWin32 == Get("new") \o Free(<<"sync">>) \o Move("new", "sync")

FrameUseWin32 == {DupNativeWin32 \o NativeCloseWin32, SetSyncWin32, Once("map"),
                  Free(<<"map">>)}

Win32Objects == {
    Object("win32 frame", {}, {}, {FrameCreateWin32}, FrameUseWin32, {FrameDestroyWin32}),
    Object("win32 adopted frame", {"fd"}, {"fd"}, {AdoptWin32}, FrameUseWin32,
           {FrameDestroyWin32}),
    Object("win32 shared frame", {"app"}, {}, {DupWin32}, FrameUseWin32, {FrameDestroyWin32}),
    Object("win32 legacy frame", {"app"}, {}, {LegacyWin32}, FrameUseWin32,
           {FrameDestroyWin32}) }

-----------------------------------------------------------------------------
(* macOS.  A frame holds a reference to its surface; its handle is a number.  The
   four numbers of the property list are made in one initializer and checked
   afterwards: before and after are those on either side of one that failed.      *)

NumbersFail == Got("before") \o Got("after") \o OnError(Fail, Free(<<"before">>))

AllocIOSurface ==
    Got("props") \o Free(<<"numbers">>)
    \o OnError(Get("surface"), Free(<<"props">>)) \o Free(<<"props">>)
    \o OnError(Get("frame"), Free(<<"surface">>))

FrameCreateDarwin == {
    Check \o NumbersFail,
    Check \o Got("numbers") \o Free(<<"numbers">>) \o Fail,
    Check \o Got("numbers") \o AllocIOSurface }

LookupDarwin == Check \o Get("surface") \o OnError(Get("frame"), Free(<<"surface">>))

FrameDestroyDarwin == Free(<<"map", "surface", "frame">>)

(* frame_ensure_iosurface and the lock a mapping holds. *)
MapDarwin == Once("surface") \o Once("map")
UnmapDarwinKeeps == Need("map") \o Close(<<"map">>)
UnmapDarwin == Need("map") \o Free(<<"map">>)

DarwinObjects == {
    Object("darwin frame", {}, {}, FrameCreateDarwin, {MapDarwin, UnmapDarwin},
           {FrameDestroyDarwin}),
    Object("darwin imported frame", {"app"}, {}, {LookupDarwin}, {MapDarwin, UnmapDarwin},
           {FrameDestroyDarwin}) }
=============================================================================
