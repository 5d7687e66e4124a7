--------------------------- MODULE WalletBuilder ---------------------------
(***************************************************************************)
(* rusty-wallet/src/tx_builder.rs: the coins a wallet knows of, the        *)
(* selection of coins and the two ways to build a transaction.             *)
(*                                                                         *)
(* A coin is named by its outpoint, which fixes its amount and the kind of *)
(* its script.  The heights the builder keeps are read by nothing and left *)
(* out.  Coins of one amount are selected in the order of a hash map, which *)
(* is any order.                                                           *)
(***************************************************************************)
EXTENDS Integers, Sequences, FiniteSets, FiniteSetsExt, Maps

CONSTANTS
    WbAmount,       \* outpoint -> amount
    WbScript,       \* outpoint -> "p2pkh", "p2pk" or another kind of script
    WbCoinbases,    \* the outpoints of coinbases
    WbConfirmations,\* numbers of confirmations that callers and nodes report
    WbAnswers,      \* answers of a node: sequences of outpoints and "malformed"
    WbPayments,     \* amounts for build_transaction
    WbOutputs,      \* outputs for build_transaction_with_script_types
    WbRates,        \* fees per byte
    WbMaturity,     \* confirmations a coinbase needs, 100
    WbDust,         \* 1000: outputs below it, and change up to it, are not made
    BaseSize, InputSize, OutputSize,
    MinRelayFee     \* MIN_RELAY_FEE_PER_BYTE

ASSUME WalletAssumption ==
    /\ WbAmount \in [DOMAIN WbAmount -> Nat] /\ IsFiniteSet(DOMAIN WbAmount)
    /\ WbAnswers \subseteq Seq(DOMAIN WbAmount \cup {"malformed"})
    /\ WbPayments \subseteq Nat /\ WbRates \subseteq Nat
    /\ WbOutputs \subseteq Seq([amount : Nat, opReturn : BOOLEAN])
    /\ {WbDust, BaseSize, InputSize, OutputSize} \subseteq Nat

VARIABLES
    wbCoins,    \* available_utxos: outpoint -> [coinbase, confirmations, spent]
    wbLast,     \* the transaction built last
    wbUsed      \* history: coins spent by what was built since they were reported

wbVars == <<wbCoins, wbLast, wbUsed>>

NotBuilt == [inputs |-> <<>>, outs |-> <<>>, fee |-> 0, reused |-> {}, signed |-> 0]

WbInit == wbCoins = EmptyMap /\ wbLast = NotBuilt /\ wbUsed = {}

-----------------------------------------------------------------------------
(* The coins.                                                              *)

UtxoInfo(coinbase, confirmations) ==
    [coinbase |-> coinbase, confirmations |-> confirmations, spent |-> FALSE]

Report(coins, seen) ==
    /\ wbCoins' = coins
    /\ wbUsed' = wbUsed \ seen
    /\ UNCHANGED wbLast

add_utxo(c) == Report(Put(wbCoins, c, UtxoInfo(FALSE, 1)), {c})

add_utxo_full(c, confirmations) ==
    Report(Put(wbCoins, c, UtxoInfo(c \in WbCoinbases, confirmations)), {c})

mark_utxo_spent(c) ==
    /\ c \in DOMAIN wbCoins
    /\ wbCoins' = [wbCoins EXCEPT ![c].spent = TRUE]
    /\ UNCHANGED <<wbLast, wbUsed>>

\* The coins are dropped before the answer is read, and an entry that cannot
\* be read ends the refresh with the entries before it.  The node does not
\* say which coins are coinbases.
refresh_utxos_from_node(answer, confirmations) ==
    LET bad == {i \in DOMAIN answer : answer[i] = "malformed"}
        read == IF bad = {} THEN answer ELSE SubSeq(answer, 1, Min(bad) - 1)
    IN  Report([c \in Range(read) |-> UtxoInfo(FALSE, confirmations)], DOMAIN WbAmount)

is_spendable(c) ==
    /\ ~wbCoins[c].spent
    /\ wbCoins[c].confirmations >= IF wbCoins[c].coinbase THEN WbMaturity ELSE 1

get_spendable_utxos == {c \in DOMAIN wbCoins : is_spendable(c)}

AmountsOf(coins) == [i \in DOMAIN coins |-> WbAmount[coins[i]]]
Total(coins) == SumOf(AmountsOf(coins))

-----------------------------------------------------------------------------
(* Selection.                                                              *)

LargestFirst ==
    {order \in Orders(get_spendable_utxos) :
        \A i \in 1 .. Len(order) - 1 : WbAmount[order[i]] >= WbAmount[order[i + 1]]}

\* The selections that are possible; none when the funds do not suffice.
SelectUntil(target, least) ==
    {s \in {SubSeq(order, 1, n) : order \in LargestFirst,
                                  n \in least .. Cardinality(get_spendable_utxos)} :
        /\ Total(s) >= target
        /\ \A m \in least .. Len(s) - 1 : Total(SubSeq(s, 1, m)) < target}

\* Takes a coin before it looks at the target; a target of 0 with no coins
\* selects nothing and is refused by its caller.
select_utxos_for_amount(target) == SelectUntil(target, 1)

select_utxos_greedy(target) == SelectUntil(target, 0)

estimate_transaction_size(ins, outs) == BaseSize + ins * InputSize + outs * OutputSize

validate_fee_compliance(outs, fee) ==
    fee >= MinRelayFee * estimate_transaction_size(1, Len(outs))

WithChange(outs, change) == IF change > WbDust THEN Append(outs, change) ELSE outs

-----------------------------------------------------------------------------
(* Building.                                                               *)

\* A fault: the input is not compared with the outputs.
BuildUnchecked(amount, rate) ==
    LET needed == amount + rate * estimate_transaction_size(1, 2)
    IN  \E selected \in select_utxos_for_amount(needed) :
            /\ wbLast' = [inputs |-> <<selected[1]>>, fee |-> needed - amount,
                          outs |-> WithChange(<<amount>>, Total(selected) - needed),
                          reused |-> {}, signed |-> 0]
            /\ UNCHANGED <<wbCoins, wbUsed>>

\* Coins are selected for the whole, but only the first becomes an input; it
\* has to cover the payment and the change of all.  No coin is marked.
build_transaction(amount, rate) ==
    LET needed == amount + rate * estimate_transaction_size(1, 2)
    IN  \E selected \in select_utxos_for_amount(needed) :
            LET outs == WithChange(<<amount>>, Total(selected) - needed)
                fee == WbAmount[selected[1]] - SumOf(outs)
            IN  /\ fee >= 0
                /\ validate_fee_compliance(outs, fee)
                /\ wbLast' = [inputs |-> <<selected[1]>>, outs |-> outs, fee |-> fee,
                              reused |-> {}, signed |-> 0]
                /\ UNCHANGED <<wbCoins, wbUsed>>

\* The coins are selected for the fee of one input; the fee of the transaction
\* and the change are worked out again for the inputs there are.
build_transaction_with_script_types(outputs, rate) ==
    LET sent == [i \in DOMAIN outputs |-> outputs[i].amount]
        needed == SumOf(sent) + rate * estimate_transaction_size(1, Len(sent))
    IN  /\ \A i \in DOMAIN outputs : outputs[i].opReturn \/ outputs[i].amount >= WbDust
        /\ \E selected \in select_utxos_greedy(needed) :
            LET fee == rate * estimate_transaction_size(Len(selected), Len(sent))
                change == Max({Total(selected) - (SumOf(sent) + fee), 0})
            IN  /\ wbLast' = [inputs |-> selected, outs |-> WithChange(sent, change), fee |-> fee,
                              reused |-> Range(selected) \cap wbUsed, signed |-> 0]
                /\ wbCoins' = [c \in DOMAIN wbCoins |->
                                 IF c \in Range(selected) THEN [wbCoins[c] EXCEPT !.spent = TRUE]
                                                          ELSE wbCoins[c]]
                /\ wbUsed' = wbUsed \cup Range(selected)

\* The inputs are signed in turn, up to the first whose coin is not known or
\* whose script the wallet has no signature for.
sign_transaction ==
    LET stops == {i \in DOMAIN wbLast.inputs :
                    \/ wbLast.inputs[i] \notin DOMAIN wbCoins
                    \/ WbScript[wbLast.inputs[i]] \notin {"p2pkh", "p2pk"}}
    IN  /\ wbLast.inputs # <<>>
        /\ wbLast' = [wbLast EXCEPT !.signed = IF stops = {} THEN Len(wbLast.inputs)
                                               ELSE Min(stops) - 1]
        /\ UNCHANGED <<wbCoins, wbUsed>>

WbNext ==
    \/ \E c \in DOMAIN WbAmount :
        \/ add_utxo(c) \/ mark_utxo_spent(c)
        \/ \E n \in WbConfirmations : add_utxo_full(c, n)
    \/ \E answer \in WbAnswers, n \in WbConfirmations : refresh_utxos_from_node(answer, n)
    \/ \E rate \in WbRates :
        \/ \E amount \in WbPayments : build_transaction(amount, rate)
        \/ \E outputs \in WbOutputs : build_transaction_with_script_types(outputs, rate)
    \/ sign_transaction

WbSpec == WbInit /\ [][WbNext]_wbVars

-----------------------------------------------------------------------------
(* Properties.                                                             *)

\* Whatever coins are known, the inputs of a transaction cover its outputs, the
\* change included, without the coins that an earlier transaction spent and no
\* node has reported since (build_transaction with its single input,
\* build_transaction_with_script_types with its second fee and its marks).
NeverOverspends ==
    LET fresh == {i \in DOMAIN wbLast.inputs : wbLast.inputs[i] \notin wbLast.reused}
    IN  SumOver(AmountsOf(wbLast.inputs), fresh) >= SumOf(wbLast.outs)
=============================================================================
