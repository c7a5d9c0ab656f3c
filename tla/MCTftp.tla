------------------------------- MODULE MCTftp -------------------------------
(***************************************************************************)
(* One TFTP transfer for model checking, of one of four modes: a download   *)
(* or an upload, over a network of which nothing is assumed, or over a      *)
(* lossy one with a server that answers.                                   *)
(***************************************************************************)
EXTENDS TftpFetch

VARIABLES
    mode,
    sTotal, sPeer, block, offset, sentFinal, sLastPacket, sRetries, sResult, sSrv, sNet, sLosses

store == <<sTotal, sPeer, block, offset, sentFinal, sLastPacket, sRetries, sResult, sSrv, sNet, sLosses>>
all == <<mode, vars, store>>

LossyFetch == INSTANCE TftpFetch WITH
    Persist <- FALSE, Timely <- TRUE, MaxLosses <- 2, MaxTotalBytes <- 7, LastSize <- 0
Store == INSTANCE TftpStore WITH
    total <- sTotal, peer <- sPeer, lastPacket <- sLastPacket, retries <- sRetries,
    result <- sResult, srv <- sSrv, net <- sNet, losses <- sLosses
LossyStore == INSTANCE TftpStore WITH
    Persist <- FALSE, Timely <- TRUE, MaxLosses <- 2, MaxTotalBytes <- 7, LastSize <- 0,
    total <- sTotal, peer <- sPeer, lastPacket <- sLastPacket, retries <- sRetries,
    result <- sResult, srv <- sSrv, net <- sNet, losses <- sLosses

IdleFetch == Init /\ total = 1
IdleStore == Store!Init /\ sTotal = 1

MCInit ==
    \/ mode = "fetch" /\ Init /\ IdleStore
    \/ mode = "lossy fetch" /\ LossyFetch!Init /\ IdleStore
    \/ mode = "store" /\ Store!Init /\ IdleFetch
    \/ mode = "lossy store" /\ LossyStore!Init /\ IdleFetch

MCNext ==
    /\ UNCHANGED mode
    /\ \/ mode = "fetch" /\ Next /\ UNCHANGED store
       \/ mode = "lossy fetch" /\ LossyFetch!Next /\ UNCHANGED store
       \/ mode = "store" /\ Store!Next /\ UNCHANGED vars
       \/ mode = "lossy store" /\ LossyStore!Next /\ UNCHANGED vars

\* In every mode the client's loop keeps running; in the lossy ones so does the
\* server.  (A datagram the client ignores restarts its receive timeout in the code:
\* fairness of Timeout says that those do not come forever.)
MCFairness ==
    /\ WF_all(mode = "fetch" /\ Receive /\ UNCHANGED <<mode, store>>)
    /\ WF_all(mode = "fetch" /\ Timeout /\ UNCHANGED <<mode, store>>)
    /\ WF_all(mode = "store" /\ Store!Receive /\ UNCHANGED <<mode, vars>>)
    /\ WF_all(mode = "store" /\ Store!Timeout /\ UNCHANGED <<mode, vars>>)
    /\ WF_all(mode = "lossy fetch" /\ LossyFetch!Receive /\ UNCHANGED <<mode, store>>)
    /\ WF_all(mode = "lossy fetch" /\ LossyFetch!Timeout /\ UNCHANGED <<mode, store>>)
    /\ WF_all(mode = "lossy fetch" /\ LossyFetch!OpenSession /\ UNCHANGED <<mode, store>>)
    /\ WF_all(mode = "lossy fetch" /\ LossyFetch!Answer /\ UNCHANGED <<mode, store>>)
    /\ WF_all(mode = "lossy store" /\ LossyStore!Receive /\ UNCHANGED <<mode, vars>>)
    /\ WF_all(mode = "lossy store" /\ LossyStore!Timeout /\ UNCHANGED <<mode, vars>>)
    /\ WF_all(mode = "lossy store" /\ LossyStore!OpenSession /\ UNCHANGED <<mode, vars>>)
    /\ WF_all(mode = "lossy store" /\ LossyStore!Write /\ UNCHANGED <<mode, vars>>)

MCSpec == MCInit /\ [][MCNext]_all /\ MCFairness

\* Type correctness of both transfers.
TypesOK == TypeOK /\ Store!TypeOK

\* An upload implements FileTransfer towards the session it latched on
\* (TftpStore!StoresFile; in the modes of a download nothing is uploaded).
StoresFile == Store!StoresFile

\* fetch and store return, whatever is lost and even if the server never answers.
TransferReturns == <>(result # "running" \/ sResult # "running")

\* A transfer whose blocks can be numbered ends well if no more datagrams are lost
\* than MAX_RETRIES resends make up for: what is resent is what was lost.
TransferSucceeds ==
    /\ mode = "lossy fetch" /\ total <= MaxBlock ~> result = "ok"
    /\ mode = "lossy store" /\ sTotal <= MaxBlock /\ sResult = "running" ~> sResult = "ok"
=============================================================================
