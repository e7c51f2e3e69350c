-------------------------------- MODULE Fmap --------------------------------
(***************************************************************************)
(* The file map message: what famfs_log_file_meta_to_msg() puts in the     *)
(* reply to GET_FMAP, as the kernel reads it.                              *)
(*                                                                         *)
(* The strips of an interleaved extent are stored through                  *)
(* struct fmap_simple_ext, whose 16-bit se_devindex is the upper half of   *)
(* the 32-bit se_devindex at the same place of struct                      *)
(* fuse_famfs_simple_ext, the form the kernel reads (external: libfuse's   *)
(* fuse_kernel.h).  Device index 0, the only one in use, reads as 0.       *)
(***************************************************************************)
EXTENDS Integers, Sequences

LOCAL INSTANCE Functions

CONSTANT FMAP_MSG_MAX   \* the room in the message, in words

HeaderWords == 4
SimpleExtWords == 3
IextWords == 4

(* A simple extent and a strip of an interleaved one, as the kernel reads  *)
(* them.                                                                   *)
SimpleExt(se) == se
StripExt(se) == [se EXCEPT !.devindex = @ * 2 ^ 16]

Interleaved(fm, i) ==
  [nstrips |-> Len(fm.ie[i].strips), chunk_size |-> fm.ie[i].chunk_size,
   nbytes |-> fm.size,
   strips |-> [j \in 1 .. Len(fm.ie[i].strips) |->
                 StripExt(fm.ie[i].strips[j])]]

(* How far the cursor has moved once the extents are in the message. *)
MsgWords(fm) ==
  IF fm.ext_type = "simple"
  THEN HeaderWords + fm.nextents * SimpleExtWords
  ELSE HeaderWords
         + SumFunction([i \in DOMAIN fm.ie |->
                          IextWords + Len(fm.ie[i].strips) * SimpleExtWords])

(* The message, or no message when it does not fit. *)
famfs_log_file_meta_to_msg(fm) ==
  [ok |-> MsgWords(fm) <= FMAP_MSG_MAX,
   msg |-> [ext_type |-> fm.ext_type, file_size |-> fm.size,
            se |-> IF fm.ext_type = "simple"
                   THEN [i \in 1 .. fm.nextents |-> SimpleExt(fm.se[i])]
                   ELSE <<>>,
            ie |-> IF fm.ext_type = "interleave"
                   THEN [i \in 1 .. fm.nextents |-> Interleaved(fm, i)]
                   ELSE <<>>]]
=============================================================================
