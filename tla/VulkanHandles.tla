---------------------------- MODULE VulkanHandles ----------------------------
(***************************************************************************)
(* What the Vulkan and CUDA objects own.  Source: src/src/backend_vulkan.c *)
(* backend_vulkan_posix.c, backend_vulkan_win32.c, backend_cuda.c.         *)
(***************************************************************************)
EXTENDS FrameHandles

DestroyVkImage == Free(<<"vk_image", "vk_memory">>)
DestroyVkBuffer == Free(<<"vk_buffer", "vk_memory">>)

VkImageError == DestroyVkImage \o Free(<<"image">>)
VkBufferError == DestroyVkBuffer \o Free(<<"buffer">>)

(* texlink_vk_image_destroy, texlink_vk_buffer_destroy: the frame too if it was
   made with the image; an imported frame is the application's.                *)
VkImageDestroy(frame) == DestroyVkImage \o frame \o Free(<<"image">>)
VkBufferDestroy(frame) == DestroyVkBuffer \o frame \o Free(<<"buffer">>)

(* The image, memory of a type that fits it, and its binding. *)
BindImage(import) == Get("vk_image") \o Check \o Get("vk_memory") \o import \o Check

-----------------------------------------------------------------------------
(* Linux: a successful vkAllocateMemory takes the descriptor over. *)
ImportVkPosixKeepsFd ==
    Check \o Get("fd")
    \o OnError(Get("image"), Free(<<"fd">>))
    \o OnError(BindImage(Give("fd")), VkImageError)

ImportVkPosix ==
    Check \o Get("fd")
    \o OnError(Get("image"), Free(<<"fd">>))
    \o OnError(BindImage(Give("fd")), Free(<<"fd">>) \o VkImageError)

(* The memory is exported as a descriptor, which the frame adopts.  When there is
   no frame the descriptor is closed here, whether it has been already or not.   *)
VkImageCreatePosix ==
    Check \o Get("image")
    \o OnError(BindImage(<<>>) \o Get("fd"), VkImageError)
    \o OnError(AdoptFdPosix, Close(<<"fd">>) \o VkImageError)

VkBufferCreatePosix ==
    Check \o Get("buffer")
    \o OnError(Get("vk_buffer") \o Check \o Get("vk_memory") \o Check \o Get("fd"), VkBufferError)
    \o OnError(AdoptFdPosix, Close(<<"fd">>) \o VkBufferError)

(* texlink_vk_frame_wrap_image and texlink_vk_frame_wrap_buffer without a handle;
   with one they are texlink_frame_create_from_native_handle.                    *)
VkWrapPosix == Check \o Get("fd") \o AdoptFdPosix

(* Windows: the handle is a duplicate that the import does not take over. *)
ImportVkOnceWin32 ==
    Check \o Get("fd")
    \o OnError(Get("image"), Free(<<"fd">>))
    \o OnError(BindImage(Free(<<"fd">>)), Free(<<"fd">>) \o VkImageError)

(* A Direct3D 12 handle is tried once more, as one of Direct3D 11. *)
ImportVkWin32 == {ImportVkOnceWin32, OnError(ImportVkOnceWin32, Again \o ImportVkOnceWin32)}

VkWrapWin32 == Check \o Get("fd") \o AdoptWin32
VkImageCreateWin32 ==
    Check \o Get("image") \o OnError(BindImage(<<>>) \o VkWrapWin32, VkImageError)

-----------------------------------------------------------------------------
(* CUDA: the descriptor is closed whether the import succeeded or not. *)
CudaImport ==
    Check \o Get("fd")
    \o OnError(Get("memory"), Free(<<"fd">>))
    \o OnError(Get("cu_handle"), Free(<<"fd", "memory">>)) \o Free(<<"fd">>)

(* The list of mappings, here of two: an address range, its mapping, the entry. *)
CudaMappings == {<<"range1", "mapped1", "entry1">>, <<"range2", "mapped2", "entry2">>}

CudaMapBuffer(m) ==
    Lack(m[3]) \o Check \o Get(m[1])
    \o OnError(Get(m[2]), Free(<<m[1]>>))
    \o OnError(Check \o Check \o Get(m[3]), Free(<<m[2], m[1]>>))
CudaUnmapBuffer(m) == Need(m[3]) \o Free(<<m[2], m[1], m[3]>>)

(* Every mapping, then the memory. *)
CudaDestroy ==
    Free(<<"mapped1", "range1", "entry1", "mapped2", "range2", "entry2",
           "cu_handle", "memory">>)

-----------------------------------------------------------------------------
VulkanObjects == {
    Object("vk imported image", {"app"}, {}, {ImportVkPosix}, {}, {VkImageDestroy(<<>>)}),
    Object("vk image frame", {}, {}, {VkImageCreatePosix}, FrameUsePosix,
           {VkImageDestroy(FrameDestroyPosix)}),
    Object("vk buffer frame", {}, {}, {VkBufferCreatePosix}, FrameUsePosix,
           {VkBufferDestroy(FrameDestroyPosix)}),
    Object("vk wrapped frame", {"app"}, {}, {VkWrapPosix}, FrameUsePosix,
           {FrameDestroyPosix}),
    Object("vk win32 imported image", {"app"}, {}, ImportVkWin32, {}, {VkImageDestroy(<<>>)}),
    Object("vk win32 image frame", {}, {}, {VkImageCreateWin32}, FrameUseWin32,
           {VkImageDestroy(FrameDestroyWin32)}),
    Object("vk win32 wrapped frame", {"app"}, {}, {VkWrapWin32}, FrameUseWin32,
           {FrameDestroyWin32}),
    Object("cuda memory", {"app"}, {}, {CudaImport},
           {CudaMapBuffer(m) : m \in CudaMappings} \cup {CudaUnmapBuffer(m) : m \in CudaMappings},
           {CudaDestroy}) }
=============================================================================
