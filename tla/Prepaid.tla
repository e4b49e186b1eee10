------------------------------- MODULE Prepaid ------------------------------
(***************************************************************************)
(* The prepaid flow of internal/payments (Service.Authorize) and the       *)
(* session tokens it mints (internal/tokens).  Authorize reads the balance *)
(* and the price, waits for the user, pays the operator, mints a token     *)
(* valid for the time the deposit buys, and only then records the credit;  *)
(* several calls may be under way, for one session or for several, and     *)
(* each of these steps may fail.  The wallet is external, and there is     *)
(* one: without it (demos) nothing is paid and the credit is recorded.     *)
(***************************************************************************)
EXTENDS Naturals, Sequences, FiniteSets, FiniteSetsExt

CONSTANTS
    Callers,        \* goroutines that may call Authorize
    Sessions,
    Unit,           \* an atomic unit of DERO, in the unit of the next two
    Deposits,       \* amounts a caller may ask for, finer than atomic units
    Prices,         \* prices per unit of time; 0 is a free node
    FreeTTL,        \* validity of a token for a free node (4 hours)
    DefaultTTL,     \* what Mint makes of a validity of 0 (4 hours)
    Grace,          \* expiredGrace
    Balance,        \* what the wallet holds at the start
    MaxTokens,      \* bound: tokens minted
    MaxTime         \* bound: the clock

ASSUME PrepaidAssumption ==
    /\ Deposits \subseteq Nat /\ Prices \subseteq Nat
    /\ {Unit, FreeTTL, DefaultTTL} \subseteq Nat \ {0}
    /\ {Grace, Balance, MaxTokens, MaxTime} \subseteq Nat

VARIABLES
    now,
    minted,     \* every token ever minted: its session, expiry, what it is for
    kept,       \* Issuer.tokens: the ids that still have a record
    revoked,    \* Issuer.revoked
    auth,       \* the Authorize call of each goroutine
    funds,      \* unlocked balance of the wallet, in atomic units
    paid,       \* atomic units the chain has received for each session
    credit,     \* Service.prepaid: DepositAtomic on record for each session
    slipped     \* sessions with a payment that failed late, or a second Authorize

issuerVars == <<minted, kept, revoked>>
prepaidVars == <<now, issuerVars, auth, funds, paid, credit, slipped>>

Unasked == [pc |-> "idle"]
Call(pc, s, d, p) == [pc |-> pc, session |-> s, deposit |-> d, price |-> p]
Serving(s) == {c \in Callers : auth[c] # Unasked /\ auth[c].session = s}

PrepaidInit ==
    /\ now = 0 /\ minted = <<>> /\ kept = {} /\ revoked = {}
    /\ auth = [c \in Callers |-> Unasked] /\ funds = Balance
    /\ paid = [s \in Sessions |-> 0] /\ credit = [s \in Sessions |-> 0]
    /\ slipped = {}

(***************************************************************************)
(* The token issuer.                                                       *)
(***************************************************************************)

(* Validate of a token presented with its own secret; another secret is    *)
(* "invalid" whenever this is not "revoked".                               *)
Validate(id) ==
    IF id \notin kept THEN "invalid"
    ELSE IF id \in revoked THEN "revoked"
    ELSE IF now >= minted[id].expiresAt THEN "expired" ELSE "ok"

(* Mint; the record keeps what the validity costs at the node's price.     *)
Mint(s, ttl, price) ==
    LET id == Len(minted) + 1
        valid == IF ttl = 0 THEN DefaultTTL ELSE ttl
    IN  /\ id <= MaxTokens
        /\ minted' = Append(minted, [session |-> s, expiresAt |-> now + valid,
                                      cost |-> valid * price, default |-> ttl = 0])
        /\ kept' = kept \cup {id}
        /\ UNCHANGED revoked

Revoke(id) ==
    /\ id \in kept /\ revoked' = revoked \cup {id}
    /\ UNCHANGED <<now, minted, kept, auth, funds, paid, credit, slipped>>

(* Mutant: revoked records are collected like the others.                  *)
SweepRevoked ==
    /\ kept' = {id \in kept : now <= minted[id].expiresAt + Grace}
    /\ UNCHANGED <<now, minted, revoked, auth, funds, paid, credit, slipped>>

Sweep ==
    /\ kept' = {id \in kept : now <= minted[id].expiresAt + Grace \/ id \in revoked}
    /\ UNCHANGED <<now, minted, revoked, auth, funds, paid, credit, slipped>>

Tick ==
    /\ now < MaxTime /\ now' = now + 1
    /\ UNCHANGED <<issuerVars, auth, funds, paid, credit, slipped>>

(***************************************************************************)
(* Service.Authorize.                                                      *)
(***************************************************************************)

(* ToAtomic: math.Round.                                                   *)
ToAtomic(d) == (2 * d + Unit) \div (2 * Unit)

(* The node is active in the registry and the balance covers the deposit;  *)
(* otherwise the call returns.  The user is asked.                         *)
Authorize(c) ==
    /\ auth[c] = Unasked
    /\ \E s \in Sessions, d \in Deposits, p \in Prices :
          /\ funds >= ToAtomic(d)
          /\ auth' = [auth EXCEPT ![c] = Call("asked", s, d, p)]
          /\ slipped' = IF Serving(s) # {} \/ paid[s] > 0 THEN slipped \cup {s} ELSE slipped
    /\ UNCHANGED <<now, issuerVars, funds, paid, credit>>

(* The user's verdict; NewPrepaid refuses an empty deposit only now.       *)
RequestApproval(c) ==
    /\ auth[c].pc = "asked"
    /\ \/ ToAtomic(auth[c].deposit) > 0 /\ auth' = [auth EXCEPT ![c].pc = "pay"]
       \/ auth' = [auth EXCEPT ![c] = Unasked]
    /\ UNCHANGED <<now, issuerVars, funds, paid, credit, slipped>>

Returned(c, t) == auth' = [auth EXCEPT ![c] = Unasked] /\ slipped' = slipped \cup t

(* Mutant: the error of the wallet is not looked at.                       *)
SubmitTransferUnchecked(c) ==
    LET a == auth[c]
        amount == ToAtomic(a.deposit)
    IN  /\ a.pc = "pay"
        /\ \/ /\ funds >= amount /\ funds' = funds - amount
              /\ paid' = [paid EXCEPT ![a.session] = @ + amount]
           \/ UNCHANGED <<funds, paid>>
        /\ auth' = [auth EXCEPT ![c].pc = "mint"]
        /\ UNCHANGED <<now, issuerVars, credit, slipped>>

(* BuildTransfer and SubmitTransfer: the wallet pays, or refuses, or pays  *)
(* and its answer is lost.                                                 *)
SubmitTransfer(c) ==
    LET a == auth[c]
        amount == ToAtomic(a.deposit)
    IN  /\ a.pc = "pay"
        /\ \/ /\ funds >= amount /\ funds' = funds - amount
              /\ paid' = [paid EXCEPT ![a.session] = @ + amount]
              /\ \/ auth' = [auth EXCEPT ![c].pc = "mint"] /\ UNCHANGED slipped
                 \/ Returned(c, {a.session})
           \/ Returned(c, {}) /\ UNCHANGED <<funds, paid>>
        /\ UNCHANGED <<now, issuerVars, credit>>

(* The time is computed from the deposit asked for, not from the atomic    *)
(* units paid, and cut to whole units (nanoseconds).                       *)
TTL(a) == IF a.price = 0 THEN FreeTTL ELSE a.deposit \div a.price

(* Mint, and its error, which leaves the deposit paid and no credit.       *)
MintToken(c) ==
    LET a == auth[c]
    IN  /\ a.pc = "mint"
        /\ \/ /\ Mint(a.session, TTL(a), a.price)
              /\ auth' = [auth EXCEPT ![c].pc = "record"] /\ UNCHANGED slipped
           \/ Returned(c, {a.session}) /\ UNCHANGED issuerVars
        /\ UNCHANGED <<now, funds, paid, credit>>

(* s.prepaid[sessionID] = credit: a credit already there is replaced.      *)
RecordCredit(c) ==
    /\ auth[c].pc = "record" /\ Returned(c, {})
    /\ credit' = [credit EXCEPT ![auth[c].session] = ToAtomic(auth[c].deposit)]
    /\ UNCHANGED <<now, issuerVars, funds, paid>>

PrepaidNext ==
    \/ Tick \/ Sweep \/ \E id \in DOMAIN minted : Revoke(id)
    \/ \E c \in Callers : \/ Authorize(c) \/ RequestApproval(c) \/ SubmitTransfer(c)
                          \/ MintToken(c) \/ RecordCredit(c)

PrepaidSpec == PrepaidInit /\ [][PrepaidNext]_prepaidVars

-----------------------------------------------------------------------------
(***************************************************************************)
(* Properties.                                                             *)
(***************************************************************************)

(* Authorize (payments.go 327-366): no credit exceeds what was paid for    *)
(* its session, whatever calls overlap and wherever they fail, and once a  *)
(* session's only call is over they are equal, unless the call failed      *)
(* after the payment.                                                      *)
CreditIsPaid ==
    \A s \in Sessions :
        /\ credit[s] <= paid[s]
        /\ Serving(s) = {} /\ s \notin slipped => credit[s] = paid[s]

(* The same for the tokens: the time a session's tokens were minted for    *)
(* costs no more than was paid for the session, but for the rounding of    *)
(* each deposit, which is half an atomic unit at most (client.go 71-76,    *)
(* payments.go 325, 357-361), and for a token whose deposit buys less than *)
(* one unit of time, for which Mint takes its default (tokens.go 106).     *)
TimeIsPaidFor ==
    /\ CreditIsPaid
    /\ \A s \in Sessions :
          LET ids == {id \in DOMAIN minted : minted[id].session = s /\ ~minted[id].default}
          IN  2 * MapThenSumSet(LAMBDA id : minted[id].cost, ids)
                 <= Unit * (2 * paid[s] + Cardinality(ids))

(* Validate, Revoke, Sweep (tokens.go 153-235): no step makes a token      *)
(* usable again, "a revoked id must stay revoked past its expiry" (219),   *)
(* and "replays in the window still report ErrExpired (not ErrInvalid)":   *)
(* within the grace period no step makes a minted token look forged.       *)
VerdictsFinal ==
    [][\A id \in DOMAIN minted :
          /\ Validate(id) # "ok" => Validate(id)' # "ok"
          /\ Validate(id) = "revoked" => Validate(id)' = "revoked"
          /\ now' <= minted[id].expiresAt + Grace => Validate(id)' # "invalid"]_prepaidVars
=============================================================================
