------------------------------- MODULE Wallet -------------------------------
(***************************************************************************)
(* The wallet connection of the client (internal/app/wallet.go) over its   *)
(* two transports: HTTP RPC, where each call has its own answer            *)
(* (internal/dero/client.go), and an XSWD socket, where the wallet's       *)
(* replies come one after the other and a call takes the next one, without *)
(* comparing its id (internal/dero/xswd_client.go).  Handlers interleave   *)
(* wherever App.mu is free.  The wallet itself is external: it answers the *)
(* requests it was sent in any order, once each, accepting or refusing.    *)
(***************************************************************************)
EXTENDS Naturals, Sequences, FiniteSetsExt

CONSTANTS
    Payers,         \* request goroutines
    MaxDials,       \* bound: connections ever dialled
    MaxCalls,       \* bound: calls over all connections
    MaxApprovals    \* bound: approvals the user gives

ASSUME WalletAssumption == MaxDials \in Nat /\ MaxCalls \in Nat /\ MaxApprovals \in Nat

VARIABLES
    wallet,     \* App.wallet: a connection number, 0 for nil
    kind,       \* the transport of each connection dialled so far
    open,       \* connections whose socket is open
    seq,        \* calls made over each connection, XSWDClient.seq
    requests,   \* those the wallet has not answered: <<connection, id, call>>
    pipe,       \* the replies waiting on each socket
    shown,      \* the connection App.walletState was read from; 0: none
    pending,    \* App.pendingApproval
    approvals,  \* approvals given
    sent,       \* transfers the wallet made
    receipts,   \* payments that PayApproved recorded
    pay,        \* what each goroutine is doing
    crossed,    \* a call took a reply that was not its own
    unsure,     \* a transfer failed or timed out after the wallet was asked
    doubled,    \* PayApproved ran twice at once, or across an approval
    stale       \* a status was written for a connection replaced meanwhile

money == <<pending, approvals, sent, receipts>>
socket == <<kind, open, seq, requests, pipe>>
signs == <<crossed, unsure, doubled, stale>>
walletVars == <<wallet, socket, shown, money, pay, signs>>

Conns == 1..MaxDials
Dialled == Len(kind)
Calls == MapThenSumSet(LAMBDA c : seq[c], Conns)
Step(pc, c, call, id) == [pc |-> pc, conn |-> c, call |-> call, id |-> id]
Free == Step("idle", 0, "none", 0)
Set(h, pc, c, call) == pay' = [pay EXCEPT ![h] = Step(pc, c, call, 0)]

WalletInit ==
    /\ wallet = 0 /\ kind = <<>> /\ open = {} /\ requests = {}
    /\ seq = [c \in Conns |-> 0] /\ pipe = [c \in Conns |-> <<>>]
    /\ shown = 0 /\ pending = FALSE /\ approvals = 0 /\ sent = 0 /\ receipts = 0
    /\ pay = [h \in Payers |-> Free]
    /\ crossed = FALSE /\ unsure = FALSE /\ doubled = FALSE /\ stale = FALSE

(***************************************************************************)
(* Calls.  A handler at "call" is about to make pay[h].call over           *)
(* pay[h].conn; Answered and Failed say where it goes on.                  *)
(***************************************************************************)

(* What each call is for.  probeWallet asks for the address and then for   *)
(* the balance, of a new connection ("probe", "balance") or of the current *)
(* one ("refresh", "rebalance"); the other call is a transfer.             *)
Answered(h) ==
    LET c == pay[h].conn
        call == pay[h].call
    IN
    \/ call = "probe" /\ Set(h, "call", c, "balance") /\ UNCHANGED <<shown, stale>>
    \/ call = "balance" /\ Set(h, "install", c, "none") /\ UNCHANGED <<shown, stale>>
    \/ call = "refresh" /\ Set(h, "call", c, "rebalance") /\ UNCHANGED <<shown, stale>>
    \/ /\ call = "rebalance" /\ Set(h, "idle", 0, "none")
       /\ shown' = c /\ stale' = (stale \/ wallet # c)
    \/ call = "transfer" /\ Set(h, "confirm", c, "none") /\ UNCHANGED <<shown, stale>>

(* A failed probe closes the new connection and replaces the status; a     *)
(* failed refresh only notes the error; a failed transfer is reported.     *)
Failed(h) ==
    LET c == pay[h].conn IN
    IF pay[h].call \in {"probe", "balance"}
    THEN Set(h, "close", c, "none") /\ shown' = 0
    ELSE Set(h, "idle", 0, "none") /\ UNCHANGED shown

(* HTTPWalletClient.call: answered, refused, or failed on the way, when    *)
(* the transfer may have been made.                                        *)
RPCCall(h) ==
    /\ pay[h].pc = "call" /\ kind[pay[h].conn] = "rpc"
    /\ Calls < MaxCalls /\ seq' = [seq EXCEPT ![pay[h].conn] = @ + 1]
    /\ \/ /\ sent' = sent + (IF pay[h].call = "transfer" THEN 1 ELSE 0)
          /\ Answered(h) /\ UNCHANGED unsure
       \/ Failed(h) /\ UNCHANGED <<sent, unsure, stale>>
       \/ /\ pay[h].call = "transfer" /\ sent' = sent + 1
          /\ Failed(h) /\ unsure' = TRUE /\ UNCHANGED stale
    /\ UNCHANGED <<wallet, kind, open, requests, pipe, pending, approvals, receipts,
                   crossed, doubled>>

(* XSWDClient.Call: the request goes out under a new id; a write that      *)
(* fails may have sent it ...                                              *)
Send(h) ==
    LET c == pay[h].conn IN
    /\ pay[h].pc = "call" /\ kind[c] = "xswd"
    /\ \/ /\ c \in open /\ Calls < MaxCalls
          /\ seq' = [seq EXCEPT ![c] = @ + 1]
          /\ \/ /\ requests' = requests \cup {<<c, seq'[c], pay[h].call>>}
                /\ pay' = [pay EXCEPT ![h].pc = "wait", ![h].id = seq'[c]]
                /\ UNCHANGED <<shown, unsure>>
             \/ /\ requests' \in {requests, requests \cup {<<c, seq'[c], pay[h].call>>}}
                /\ Failed(h)
                /\ unsure' = (unsure \/ pay[h].call = "transfer")
       \/ c \notin open /\ Failed(h) /\ UNCHANGED <<seq, requests, unsure>>
    /\ UNCHANGED <<wallet, kind, open, pipe, money, crossed, doubled, stale>>

(* ... the wallet answers a request (external), into the void when the     *)
(* socket is closed ...                                                    *)
WalletAnswers ==
    \E r \in requests, accepted \in BOOLEAN :
        /\ requests' = requests \ {r}
        /\ pipe' = [pipe EXCEPT ![r[1]] =
                      IF r[1] \in open THEN Append(@, [id |-> r[2], accepted |-> accepted])
                      ELSE @]
        /\ sent' = sent + (IF r[3] = "transfer" /\ accepted THEN 1 ELSE 0)
        /\ UNCHANGED <<wallet, kind, open, seq, shown, pending, approvals, receipts, pay, signs>>

(* ... and the call takes the next reply on the socket, whosever it is.    *)
(* A wallet that will not tell its balance is a wallet all the same.       *)
readReply(h) ==
    LET c == pay[h].conn
        reply == Head(pipe[c])
    IN
    /\ pay[h].pc = "wait" /\ c \in open /\ pipe[c] # <<>>
    /\ pipe' = [pipe EXCEPT ![c] = Tail(@)]
    /\ \/ /\ reply.accepted \/ pay[h].call \in {"balance", "rebalance"}
          /\ Answered(h)
       \/ ~reply.accepted /\ Failed(h) /\ UNCHANGED stale
    /\ crossed' = (crossed \/ reply.id # pay[h].id)
    /\ UNCHANGED <<wallet, kind, open, seq, requests, money, unsure, doubled>>

(* The read deadline passes, or the socket was closed; the request is not  *)
(* withdrawn.                                                              *)
ReadFails(h) ==
    /\ pay[h].pc = "wait"
    /\ Failed(h)
    /\ unsure' = (unsure \/ pay[h].call = "transfer")
    /\ UNCHANGED <<wallet, socket, money, crossed, doubled, stale>>

(***************************************************************************)
(* The connection.                                                         *)
(***************************************************************************)

(* ConnectWallet: dial.  RPC opens nothing; an XSWD dial may fail, or its  *)
(* handshake be refused, and then the socket is closed again.              *)
ConnectWallet(h) ==
    /\ pay[h] = Free /\ Dialled < MaxDials
    /\ \/ /\ kind' = Append(kind, "rpc") /\ UNCHANGED <<open, shown>>
          /\ Set(h, "call", Dialled + 1, "probe")
       \/ /\ kind' = Append(kind, "xswd") /\ open' = open \cup {Dialled + 1}
          /\ Set(h, "call", Dialled + 1, "probe") /\ UNCHANGED shown
       \/ kind' = Append(kind, "xswd") /\ shown' = 0 /\ UNCHANGED <<open, pay>>
    /\ UNCHANGED <<wallet, seq, requests, pipe, money, signs>>

(* The new connection replaces the old under the lock; the old is closed   *)
(* after.                                                                  *)
InstallWallet(h) ==
    /\ pay[h].pc = "install"
    /\ wallet' = pay[h].conn /\ shown' = pay[h].conn
    /\ IF wallet = 0 THEN Set(h, "idle", 0, "none") ELSE Set(h, "close", wallet, "none")
    /\ UNCHANGED <<socket, money, signs>>

closeWallet(h) ==
    /\ pay[h].pc = "close"
    /\ open' = open \ {pay[h].conn} /\ Set(h, "idle", 0, "none")
    /\ pipe' = [pipe EXCEPT ![pay[h].conn] = <<>>]
    /\ UNCHANGED <<wallet, kind, seq, requests, shown, money, signs>>

(* DisconnectWallet, also ConnectWallet with mode NONE and App.Close.      *)
DisconnectWallet(h) ==
    /\ pay[h] = Free /\ wallet # 0
    /\ wallet' = 0 /\ shown' = 0 /\ Set(h, "close", wallet, "none")
    /\ UNCHANGED <<socket, money, signs>>

(* RefreshWallet reads the connection under the lock and probes it after.  *)
RefreshWallet(h) ==
    /\ pay[h] = Free /\ wallet # 0
    /\ Set(h, "call", wallet, "refresh")
    /\ UNCHANGED <<wallet, socket, shown, money, signs>>

(***************************************************************************)
(* Payments.                                                               *)
(***************************************************************************)
Paying(h) == pay[h].call = "transfer" \/ pay[h].pc = "confirm"

RequestPaymentApproval ==
    /\ approvals < MaxApprovals
    /\ pending' = TRUE /\ approvals' = approvals + 1
    /\ doubled' = (doubled \/ \E h \in Payers : Paying(h))
    /\ UNCHANGED <<wallet, socket, shown, sent, receipts, pay, crossed, unsure, stale>>

(* Mutant: the approval is not asked for.                                  *)
PayApprovedAlways(h) ==
    /\ pay[h] = Free /\ wallet # 0
    /\ Set(h, "call", wallet, "transfer")
    /\ doubled' = (doubled \/ \E g \in Payers : Paying(g))
    /\ UNCHANGED <<wallet, socket, shown, money, crossed, unsure, stale>>

(* PayApproved reads the connection and the approval under the lock ...    *)
PayApproved(h) ==
    /\ pay[h] = Free /\ wallet # 0 /\ pending
    /\ Set(h, "call", wallet, "transfer")
    /\ doubled' = (doubled \/ \E g \in Payers : Paying(g))
    /\ UNCHANGED <<wallet, socket, shown, money, crossed, unsure, stale>>

(* ... and once paid uses the approval up, saves the receipt (which may    *)
(* fail) and refreshes the status.                                         *)
ConfirmPayment(h) ==
    /\ pay[h].pc = "confirm"
    /\ pending' = FALSE
    /\ \/ /\ receipts' = receipts + 1
          /\ IF wallet = 0 THEN Set(h, "idle", 0, "none") ELSE Set(h, "call", wallet, "refresh")
       \/ UNCHANGED receipts /\ Set(h, "idle", 0, "none")
    /\ UNCHANGED <<wallet, socket, shown, approvals, sent, signs>>

(* ConfirmPayment as a request of its own: the user says that the payment  *)
(* was made elsewhere.  Its receipt is the user's word and not counted.    *)
ConfirmReported ==
    /\ pending /\ pending' = FALSE
    /\ UNCHANGED <<wallet, socket, shown, approvals, sent, receipts, pay, signs>>

WalletNext ==
    \/ \E h \in Payers :
          \/ ConnectWallet(h) \/ InstallWallet(h) \/ closeWallet(h) \/ DisconnectWallet(h)
          \/ RefreshWallet(h) \/ PayApproved(h) \/ ConfirmPayment(h)
          \/ RPCCall(h) \/ Send(h) \/ readReply(h) \/ ReadFails(h)
    \/ WalletAnswers \/ RequestPaymentApproval \/ ConfirmReported

WalletSpec == WalletInit /\ [][WalletNext]_walletVars

-----------------------------------------------------------------------------
(***************************************************************************)
(* Properties.                                                             *)
(***************************************************************************)

(* ConnectWallet, DisconnectWallet, RefreshWallet (wallet.go 104-121,      *)
(* 174-190, 208-219): whatever overlaps, a socket stays open only as the   *)
(* current connection or in the hands of a handler that will install or    *)
(* close it, and the status shown is that of the current connection,       *)
(* unless a refresh outlived the connection it read.  PayApproved          *)
(* (wallet.go 251-306, "runs only after the user approved"): the wallet    *)
(* makes at most one transfer for each approval, unless two payments       *)
(* overlapped, a reply went to the wrong call, or a payment whose outcome  *)
(* was unknown left its approval standing; and a payment that is recorded  *)
(* is one the wallet made (RequestTransfer, xswd_client.go 248-270),       *)
(* unless replies were crossed.                                            *)
WalletAccounted ==
    /\ \A c \in open : c = wallet \/ \E h \in Payers : pay[h].conn = c
    /\ stale \/ shown \in {0, wallet}
    /\ doubled \/ unsure \/ crossed \/ sent <= approvals
    /\ crossed \/ receipts <= sent
=============================================================================
