------------------------------ MODULE LruQueue ------------------------------
(***************************************************************************)
(* The GLib queue both eviction policies keep their elements in: pushed at *)
(* the tail (Append), popped at the head (Head, Tail), and moved from the  *)
(* middle to the tail when they are used.                                  *)
(***************************************************************************)
EXTENDS Integers, Sequences

\* The queue when its node i is deleted and the node's element pushed again.
ToTail(queue, i) ==
  [k \in DOMAIN queue |->
     IF k < i THEN queue[k] ELSE IF k < Len(queue) THEN queue[k + 1] ELSE queue[i]]
=============================================================================
