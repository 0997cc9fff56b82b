----------------------- MODULE StateChannelRefinement -----------------------
(***************************************************************************)
(* The state channel as a register the client reads the newest of: what is *)
(* published is the ticks the server sent, what is known is the tick of    *)
(* the last frame the assembler gave out.                                  *)
(***************************************************************************)
EXTENDS StateChannel

Register == INSTANCE NewestRegister WITH
  published <- Len(emitted), known <- IF handed = <<>> THEN 0 ELSE handed[Len(handed)].tick

(* Whatever is lost, repeated or reordered, and however the frames are     *)
(* cut, the client only ever skips ahead to a tick the server sent.        *)
(* frame.rs: ShardAssembler; client/src/lib.rs: reconcile().               *)
ImplementsRegister == Register!Spec
=============================================================================
