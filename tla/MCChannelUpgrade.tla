-------------------------- MODULE MCChannelUpgrade --------------------------
(* ChannelUpgrade for TLC: the target states of the execute command. *)
EXTENDS ChannelUpgrade

ToTheEnd == [c \in Chains |-> "UNINIT"]

HalfFlushed == [src |-> "FLUSHCOMPLETE", dst |-> "FLUSHING"]

OnlyToTheEnd == {ToTheEnd}

AndHalfway == {ToTheEnd, HalfFlushed}
=============================================================================
