---------------------------- MODULE MCRelayMsgs ----------------------------
(***************************************************************************)
(* Rounds of messages for RelayMsgs: sizes around a size limit of 4, with  *)
(* messages that exceed it alone, and limits that are off (0), tight and   *)
(* loose.                                                                  *)
(***************************************************************************)
EXTENDS RelayMsgs

CONSTANTS MaxSrc, MaxDst, Sizes, SizeLimits, LengthLimits

UpTo(n) == UNION {[1..k -> Sizes] : k \in 0..n}

SmallRounds == [Src : UpTo(MaxSrc), Dst : UpTo(MaxDst),
                MaxTxSize : SizeLimits, MaxMsgLength : LengthLimits]
=============================================================================
