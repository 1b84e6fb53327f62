------------------------------ MODULE MCLoaders ------------------------------
(***************************************************************************)
(* The two serial loaders for TLC: a behaviour is a transfer with one of   *)
(* them, Kermit or Ymodem, while the other one is not started.             *)
(***************************************************************************)
EXTENDS Kermit

CONSTANTS BlkMod, MaxCut

ASSUME YmodemAssumption == BlkMod \in Nat \ {0, 1} /\ MaxCut \in Nat

VARIABLES loader, yn, ydst, ypc, yblk, yload, yret, ydown, yup, ysender, yused

yvars == <<yn, ydst, ypc, yblk, yload, yret, ydown, yup, ysender, yused>>

Y == INSTANCE Ymodem WITH
       MaxBlocks <- MaxData, n <- yn, dst <- ydst, pc <- ypc, blk <- yblk,
       load <- yload, ret <- yret, down <- ydown, up <- yup,
       sender <- ysender, used <- yused

allvars == <<loader, vars, yvars>>

LoadersInit ==
    /\ loader \in {"kermit", "ymodem"}
    /\ Init /\ Y!Init
    /\ loader = "kermit" => yn = 0 /\ ~ydst
    /\ loader = "ymodem" => file = Transfer(0) /\ ~dst

KermitStep(A) == loader = "kermit" /\ A /\ UNCHANGED <<loader, yvars>>
YmodemStep(A) == loader = "ymodem" /\ A /\ UNCHANGED <<loader, vars>>

LoadersNext == KermitStep(Next) \/ YmodemStep(Y!Next)

\* The receivers read what arrives, and the senders go on.
LoadersSpec ==
    /\ LoadersInit /\ [][LoadersNext]_allvars
    /\ WF_allvars(KermitStep(Start)) /\ WF_allvars(KermitStep(Receive))
    /\ WF_allvars(KermitStep(SenderStart)) /\ WF_allvars(KermitStep(SenderAnswer))
    /\ WF_allvars(KermitStep(SenderTimeout))
    /\ WF_allvars(YmodemStep(Y!Start)) /\ WF_allvars(YmodemStep(Y!SendC))
    /\ WF_allvars(YmodemStep(Y!Receive)) /\ WF_allvars(YmodemStep(Y!SenderAnswer))
    /\ WF_allvars(YmodemStep(Y!SenderTimeout))

\* Ymodem stores the blocks of the file in order, and returns the size of the
\* whole file unless a block was cut.
YmodemStored == Y!StoredIsFile

\* A Ymodem transfer ends unless an ACK or the 'C' after it is lost.
YmodemEnds == Y!TransferEnds
=============================================================================
