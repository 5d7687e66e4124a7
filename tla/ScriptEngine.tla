---------------------------- MODULE ScriptEngine ----------------------------
(***************************************************************************)
(* FerrisScript: the stack machine that decides whether an output may be   *)
(* spent (rusty-core/src/script/script_engine.rs, opcode.rs).  An action   *)
(* executes one byte of a script, with the data that follows it when it is *)
(* a push.                                                                 *)
(*                                                                         *)
(* A stack item is a sequence of bytes.  Hashes, keys and signatures are   *)
(* items whose bytes lie above 255, so that they differ from everything a  *)
(* script can spell out: Digest gives every hash function its own          *)
(* injective image, and a signature names its key and the input it signs.  *)
(* Their lengths are not modelled, and the scripts checked do not measure  *)
(* them.                                                                   *)
(***************************************************************************)
EXTENDS Integers, Sequences, Bitwise

CONSTANTS
    MaxOpcodeCount, \* MAX_OPCODE_COUNT, 200
    MaxStackDepth,  \* MAX_STACK_DEPTH, 100
    MaxSigOps,      \* MAX_SIG_OPS, 20
    ScLockTime,     \* the transaction's lock_time
    ScSequence,     \* the input's sequence: [final, value]
    ScHeight,       \* current_block_height
    ScLockThreshold,\* LOCKTIME_THRESHOLD: lock times from there on are seconds
    ScMessage       \* the sighash of the input

VARIABLES
    sc,        \* the engine: [stack, alt, count, sig, control, skip, state]
    scStart,   \* the stack the script was given
    scBranch,  \* reference: the open conditionals: [runs, else]
    scShape,   \* reference: the shape of the conditionals so far
    scProgram  \* the script: any bytes ("free") or one paying a key's hash

scVars == <<sc, scStart, scBranch, scShape, scProgram>>

NewEngine(stack) ==
    [stack |-> stack, alt |-> <<>>, count |-> 0, sig |-> 0, control |-> <<>>,
     skip |-> 0, state |-> "running"]

\* Opcode::from; the arithmetic opcodes have names but no implementation.
Opcode(b) ==
    CASE b = 0 -> "Op0" [] b = 76 -> "OpPushdata1" [] b = 77 -> "OpPushdata2"
      [] b = 78 -> "OpPushdata4" [] b \in 81..96 -> "OpN" [] b = 97 -> "OpNop"
      [] b = 99 -> "OpIf" [] b = 100 -> "OpNotIf" [] b = 103 -> "OpElse"
      [] b = 104 -> "OpEndIf" [] b = 105 -> "OpVerify" [] b = 106 -> "OpReturn"
      [] b = 107 -> "OpToAltStack" [] b = 108 -> "OpFromAltStack"
      [] b = 109 -> "Op2Drop" [] b = 110 -> "Op2Dup" [] b = 111 -> "Op3Dup"
      [] b = 112 -> "Op2Over" [] b = 113 -> "Op2Rot" [] b = 114 -> "Op2Swap"
      [] b = 117 -> "OpDrop" [] b = 118 -> "OpDup" [] b = 119 -> "OpNip"
      [] b = 120 -> "OpOver" [] b = 121 -> "OpPick" [] b = 122 -> "OpRoll"
      [] b = 123 -> "OpRot" [] b = 124 -> "OpSwap" [] b = 125 -> "OpTuck"
      [] b = 126 -> "OpCat" [] b = 127 -> "OpSubStr" [] b = 128 -> "OpLeft"
      [] b = 129 -> "OpRight" [] b = 130 -> "OpSize"
      [] b = 131 -> "OpInvert" [] b = 132 -> "OpAnd" [] b = 133 -> "OpOr" [] b = 134 -> "OpXor"
      [] b = 135 -> "OpEqual" [] b = 136 -> "OpEqualverify"
      [] b = 166 -> "OpRipemd160" [] b = 167 -> "OpSha1" [] b = 168 -> "OpSha256"
      [] b = 169 -> "OpHash160" [] b = 170 -> "OpHash256" [] b = 171 -> "OpCodeSeparator"
      [] b = 172 -> "OpCheckSig" [] b = 173 -> "OpCheckSigVerify"
      [] b = 174 -> "OpCheckMultiSig" [] b = 175 -> "OpCheckMultiSigVerify"
      [] b = 177 -> "OpCheckLockTimeVerify" [] b = 178 -> "OpCheckSequenceVerify"
      [] OTHER -> "OpInvalidOpcode"

(***************************************************************************)
(* Items.                                                                  *)
(***************************************************************************)
True == <<1>>
False == <<>>

is_false(v) == v = <<>> \/ v = <<0>>

Bool(b) == IF b THEN True ELSE False

\* as_usize and as_u32: little-endian, of the bytes that TLC's integers hold.
Number(v) ==
    (IF Len(v) > 0 THEN v[1] ELSE 0) + (IF Len(v) > 1 THEN 256 * v[2] ELSE 0)
        + (IF Len(v) > 2 THEN 65536 * v[3] ELSE 0)

\* The digests, as items no script can spell out.
Digest(name, v) ==
    <<CASE name = "ripemd160" -> 301 [] name = "sha1" -> 302 [] name = "sha256" -> 303
        [] name = "hash160" -> 304 [] OTHER -> 305>> \o v

Key(k) == <<400, k>>
Sig(k, message) == <<500, k, message>>
IsKey(v) == Len(v) = 2 /\ v[1] = 400
IsSig(v) == Len(v) = 3 /\ v[1] = 500

\* Verifier::verify over calculate_sighash: the signature was made by that key
\* over this input.
Verifies(key, sig) == IsKey(key) /\ sig = Sig(key[2], ScMessage)

(***************************************************************************)
(* Operations on the engine.  Replace takes n items off the stack and puts *)
(* F of them, the deepest first, in their place.                           *)
(***************************************************************************)
Failed(e) == [e EXCEPT !.state = "failed"]

Below(e, n) == SubSeq(e.stack, 1, Len(e.stack) - n)

Top(e) == e.stack[Len(e.stack)]

Replace(e, n, F(_)) ==
    IF Len(e.stack) < n THEN Failed(e)
    ELSE LET x == SubSeq(e.stack, Len(e.stack) - n + 1, Len(e.stack))
         IN  [e EXCEPT !.stack = Below(e, n) \o F(x)]

push_data(e, v) == [e EXCEPT !.stack = Append(@, v)]

op_dup(e) == Replace(e, 1, LAMBDA x : <<x[1], x[1]>>)
op_drop(e) == Replace(e, 1, LAMBDA x : <<>>)
op_nip(e) == Replace(e, 2, LAMBDA x : <<x[2]>>)
op_over(e) == Replace(e, 2, LAMBDA x : <<x[1], x[2], x[1]>>)
op_rot(e) == Replace(e, 3, LAMBDA x : <<x[2], x[3], x[1]>>)
op_swap(e) == Replace(e, 2, LAMBDA x : <<x[2], x[1]>>)
op_tuck(e) == Replace(e, 2, LAMBDA x : <<x[2], x[1], x[2]>>)
op_2drop(e) == Replace(e, 2, LAMBDA x : <<>>)
op_2dup(e) == Replace(e, 2, LAMBDA x : x \o x)
op_3dup(e) == Replace(e, 3, LAMBDA x : x \o x)
op_2over(e) == Replace(e, 4, LAMBDA x : x \o <<x[1], x[2]>>)

op_2rot(e) == Replace(e, 6, LAMBDA x : <<x[3], x[4], x[5], x[6], x[1], x[2]>>)
op_2swap(e) == Replace(e, 4, LAMBDA x : <<x[3], x[4], x[1], x[2]>>)
op_cat(e) == Replace(e, 2, LAMBDA x : <<x[1] \o x[2]>>)
op_size(e) == Replace(e, 1, LAMBDA x : <<x[1], <<Len(x[1]), 0, 0, 0, 0, 0, 0, 0>>>>)
op_invert(e) == Replace(e, 1, LAMBDA x : <<[i \in DOMAIN x[1] |-> 255 - x[1][i]]>>)
op_ripemd160(e) == Replace(e, 1, LAMBDA x : <<Digest("ripemd160", x[1])>>)
op_sha1(e) == Replace(e, 1, LAMBDA x : <<Digest("sha1", x[1])>>)
op_sha256(e) == Replace(e, 1, LAMBDA x : <<Digest("sha256", x[1])>>)
op_hash256(e) == Replace(e, 1, LAMBDA x : <<Digest("hash256", x[1])>>)
op_hash160(e) == Replace(e, 1, LAMBDA x : <<Digest("hash160", x[1])>>)
op_equal(e) == Replace(e, 2, LAMBDA x : <<Bool(x[1] = x[2])>>)

op_verify(e) ==
    IF e.stack = <<>> \/ is_false(Top(e)) THEN Failed(e)
    ELSE Replace(e, 1, LAMBDA x : <<>>)

\* An operation followed by op_verify.
Verified(e) == IF e.state = "failed" THEN e ELSE op_verify(e)

\* A fault: the comparison is made and its result dropped.
EqualUnverified(e) == op_drop(op_equal(e))

op_equal_verify(e) == Verified(op_equal(e))

\* op_pick and op_roll: the item n below the top is copied, or moved, to it.
PickOrRoll(e, Rest(_, _)) ==
    IF e.stack = <<>> \/ Len(Top(e)) > 8 THEN Failed(e)
    ELSE LET n == Number(Top(e))
             s == Below(e, 1)
         IN  IF n >= Len(s) THEN Failed(e)
             ELSE [e EXCEPT !.stack = Append(Rest(s, Len(s) - n), s[Len(s) - n])]

op_pick(e) == PickOrRoll(e, LAMBDA s, i : s)

op_roll(e) == PickOrRoll(e, LAMBDA s, i : SubSeq(s, 1, i - 1) \o SubSeq(s, i + 1, Len(s)))

\* The pieces of an item; a piece that reaches past its end fails.
op_substr(e) ==
    IF Len(e.stack) < 3 \/ Len(Top(e)) > 8 THEN Failed(e)
    ELSE LET x == SubSeq(e.stack, Len(e.stack) - 2, Len(e.stack))
             from == Number(x[2])
             size == Number(x[3])
         IN  IF Len(x[2]) > 8 \/ from + size > Len(x[1]) THEN Failed(e)
             ELSE [e EXCEPT !.stack = Append(Below(e, 3), SubSeq(x[1], from + 1, from + size))]

op_left(e) ==
    IF Len(e.stack) < 2 \/ Len(Top(e)) > 8 THEN Failed(e)
    ELSE LET data == e.stack[Len(e.stack) - 1]
             size == Number(Top(e))
         IN  IF size > Len(data) THEN Failed(e)
             ELSE [e EXCEPT !.stack = Append(Below(e, 2), SubSeq(data, 1, size))]

op_right(e) ==
    IF Len(e.stack) < 2 \/ Len(Top(e)) > 8 THEN Failed(e)
    ELSE LET data == e.stack[Len(e.stack) - 1]
             size == Number(Top(e))
         IN  IF size > Len(data) THEN Failed(e)
             ELSE [e EXCEPT !.stack =
                      Append(Below(e, 2), SubSeq(data, Len(data) - size + 1, Len(data)))]

op_toaltstack(e) ==
    IF e.stack = <<>> THEN Failed(e)
    ELSE [e EXCEPT !.stack = Below(e, 1), !.alt = Append(@, Top(e))]

op_fromaltstack(e) ==
    IF e.alt = <<>> THEN Failed(e)
    ELSE [e EXCEPT !.stack = Append(@, e.alt[Len(e.alt)]),
                   !.alt = SubSeq(@, 1, Len(@) - 1)]

\* op_and, op_or and op_xor work byte by byte on items of equal length.
ByteByByte(e, Op(_, _)) ==
    IF Len(e.stack) < 2 \/ Len(Top(e)) # Len(e.stack[Len(e.stack) - 1]) THEN Failed(e)
    ELSE Replace(e, 2, LAMBDA x : <<[i \in DOMAIN x[1] |-> Op(x[1][i], x[2][i])]>>)

op_and(e) == ByteByByte(e, LAMBDA a, b : a & b)

op_or(e) == ByteByByte(e, LAMBDA a, b : a | b)

op_xor(e) == ByteByByte(e, LAMBDA a, b : a ^^ b)

(***************************************************************************)
(* Signatures and locks.                                                   *)
(***************************************************************************)
op_checksig(e) ==
    LET n == Len(e.stack)
        counted == [e EXCEPT !.sig = @ + 1]
    IN  IF n < 2 \/ ~IsKey(e.stack[n]) \/ ~IsSig(e.stack[n - 1]) THEN Failed(counted)
        ELSE Replace(counted, 2, LAMBDA x : <<Bool(Verifies(x[2], x[1]))>>)

op_checksigverify(e) == Verified(op_checksig(e))

\* op_checkmultisig: keys, their number above them; signatures, their number
\* above them; a dummy below.  A count that is an empty item makes it panic.
\* The result counts the signatures that one of the keys verifies.
op_checkmultisig(e) ==
    LET counted == [e EXCEPT !.sig = @ + 1]
        n == Len(e.stack)
        keys == Top(e)[1]
        at == n - 1 - keys             \* where the number of signatures stands
        sigs == e.stack[at][1]
        K == {e.stack[i] : i \in at + 1..n - 1}
        S == at - sigs..at - 1
        good == {i \in S : \E k \in K : Verifies(k, e.stack[i])}
    IN  CASE n = 0 -> Failed(counted)
          [] n > 0 /\ Top(e) = <<>> -> [counted EXCEPT !.state = "panicked"]
          [] n > 0 /\ Top(e) # <<>> /\ at < 1 -> Failed(counted)
          [] n > 0 /\ Top(e) # <<>> /\ at >= 1 ->
              CASE e.stack[at] = <<>> -> [counted EXCEPT !.state = "panicked"]
                [] e.stack[at] # <<>> /\ at - sigs <= 1 -> Failed(counted)
                [] e.stack[at] # <<>> /\ at - sigs > 1 ->
                    IF sigs > 0 /\ keys > 0
                       /\ \E i \in S :
                            \/ ~IsSig(e.stack[i])
                            \/ \E j \in at + 1..n - 1 :
                                /\ ~IsKey(e.stack[j])
                                /\ \A m \in j + 1..n - 1 : ~Verifies(e.stack[m], e.stack[i])
                    THEN Failed(counted)
                    ELSE [counted EXCEPT !.stack =
                             Append(SubSeq(e.stack, 1, at - sigs - 2),
                                    Bool({i \in S : i \notin good} = {}))]

op_checkmultisigverify(e) ==
    LET r == op_checkmultisig(e) IN IF r.state = "running" THEN op_verify(r) ELSE r

\* op_checklocktimeverify takes the lock time off the stack and compares it
\* with the transaction's and with the height, or with 60 seconds a block.
op_checklocktimeverify(e) ==
    IF \/ e.stack = <<>>
       \/ Len(Top(e)) > 4
       \/ ScLockTime = 0
       \/ Number(Top(e)) > ScLockTime
       \/ (IF Number(Top(e)) < ScLockThreshold THEN ScHeight ELSE 60 * ScHeight) < Number(Top(e))
    THEN Failed(e)
    ELSE op_drop(e)

\* op_checksequenceverify: a final input, or an absolute operand, passes.
op_checksequenceverify(e) ==
    IF \/ e.stack = <<>>
       \/ Len(Top(e)) > 4
       \/ /\ ~ScSequence.final
          /\ ~(Len(Top(e)) = 4 /\ Top(e)[4] >= 128)
          /\ ScSequence.value % 65536 < Number(Top(e)) % 65536
    THEN Failed(e)
    ELSE op_drop(e)

(***************************************************************************)
(* Conditionals.                                                           *)
(***************************************************************************)
should_skip(e) == e.skip > 0

\* op_if and op_notif of a running branch; with nothing on the stack the
\* condition is false.
Conditional(e, holds) ==
    [e EXCEPT !.stack = IF @ = <<>> THEN @ ELSE Below(e, 1),
              !.control = Append(@, holds),
              !.skip = IF holds THEN 0 ELSE 1]

op_if(e) == Conditional(e, e.stack # <<>> /\ ~is_false(Top(e)))

op_notif(e) == Conditional(e, e.stack # <<>> /\ is_false(Top(e)))

\* A fault: the branch after OP_ELSE runs as well.
ElseKeepsRunning(e) == IF e.control = <<>> THEN Failed(e) ELSE e

op_else(e) ==
    IF e.control = <<>> THEN Failed(e)
    ELSE LET holds == ~e.control[Len(e.control)]
         IN  [e EXCEPT !.control[Len(e.control)] = holds, !.skip = IF holds THEN 0 ELSE 1]

op_endif(e) ==
    IF e.control = <<>> THEN Failed(e)
    ELSE [e EXCEPT !.control = SubSeq(@, 1, Len(@) - 1)]

\* A byte met while skipping: only the depth moves.  The control stack keeps the
\* entry of a conditional that ends while it is skipped.
Skipped(e, op) ==
    CASE op \in {"OpIf", "OpNotIf"} -> [e EXCEPT !.skip = @ + 1]
      [] op = "OpElse" -> [e EXCEPT !.skip = IF @ = 1 THEN 0 ELSE @]
      [] op = "OpEndIf" -> [e EXCEPT !.skip = @ - 1]
      [] OTHER -> e

(***************************************************************************)
(* Execution.                                                              *)
(***************************************************************************)
Pushes == {"OpPushdata1", "OpPushdata2", "OpPushdata4"}

\* The match of execute, for a byte that is not skipped.
Run(e, b, data) ==
    LET op == Opcode(b)
    IN  CASE op = "Op0" -> push_data(e, <<>>)
          [] op \in Pushes -> push_data(e, data)
          [] op = "OpN" -> push_data(e, <<b - 80>>)
          [] op \in {"OpNop", "OpCodeSeparator"} -> e
          [] op = "OpDup" -> op_dup(e) [] op = "OpDrop" -> op_drop(e)
          [] op = "OpNip" -> op_nip(e) [] op = "OpOver" -> op_over(e)
          [] op = "OpPick" -> op_pick(e) [] op = "OpRoll" -> op_roll(e)
          [] op = "OpRot" -> op_rot(e) [] op = "OpSwap" -> op_swap(e)
          [] op = "OpTuck" -> op_tuck(e) [] op = "Op2Drop" -> op_2drop(e)
          [] op = "Op2Dup" -> op_2dup(e) [] op = "Op3Dup" -> op_3dup(e)
          [] op = "Op2Over" -> op_2over(e) [] op = "Op2Rot" -> op_2rot(e)
          [] op = "Op2Swap" -> op_2swap(e) [] op = "OpCat" -> op_cat(e)
          [] op = "OpSubStr" -> op_substr(e) [] op = "OpLeft" -> op_left(e)
          [] op = "OpRight" -> op_right(e) [] op = "OpSize" -> op_size(e)
          [] op = "OpInvert" -> op_invert(e) [] op = "OpAnd" -> op_and(e)
          [] op = "OpOr" -> op_or(e) [] op = "OpXor" -> op_xor(e)
          [] op = "OpEqual" -> op_equal(e) [] op = "OpEqualverify" -> op_equal_verify(e)
          [] op = "OpVerify" -> op_verify(e) [] op = "OpRipemd160" -> op_ripemd160(e)
          [] op = "OpSha1" -> op_sha1(e) [] op = "OpSha256" -> op_sha256(e)
          [] op = "OpHash160" -> op_hash160(e) [] op = "OpHash256" -> op_hash256(e)
          [] op = "OpCheckSig" -> op_checksig(e)
          [] op = "OpCheckSigVerify" -> op_checksigverify(e)
          [] op = "OpCheckMultiSig" -> op_checkmultisig(e)
          [] op = "OpCheckMultiSigVerify" -> op_checkmultisigverify(e)
          [] op = "OpCheckLockTimeVerify" -> op_checklocktimeverify(e)
          [] op = "OpCheckSequenceVerify" -> op_checksequenceverify(e)
          [] op = "OpIf" -> op_if(e) [] op = "OpNotIf" -> op_notif(e)
          [] op = "OpElse" -> op_else(e) [] op = "OpEndIf" -> op_endif(e)
          [] op = "OpToAltStack" -> op_toaltstack(e)
          [] op = "OpFromAltStack" -> op_fromaltstack(e)
          [] OTHER -> Failed(e)

\* One turn of execute's loop.
Turn(e, b, data) ==
    LET counted == [e EXCEPT !.count = @ + 1]
        after == IF should_skip(e) THEN Skipped(counted, Opcode(b)) ELSE Run(counted, b, data)
    IN  IF e.count >= MaxOpcodeCount \/ (~should_skip(e) /\ Len(after.stack) > MaxStackDepth)
        THEN Failed(e) ELSE after

\* The conditionals as a script means them: of nested conditionals the inner
\* one runs only inside a running branch of the outer one.
RefRuns == \A i \in DOMAIN scBranch : scBranch[i].runs

Reference(op, holds) ==
    LET n == Len(scBranch)
        odd == \/ op \in {"OpElse", "OpEndIf"} /\ n = 0
               \/ op = "OpElse" /\ n > 0 /\ scBranch[n].else
               \/ op \in Pushes /\ ~RefRuns
               \/ op \in {"OpIf", "OpNotIf"} /\ RefRuns /\ sc.stack = <<>>
    IN  /\ scBranch' =
              CASE op \in {"OpIf", "OpNotIf"} ->
                       Append(scBranch, [runs |-> RefRuns /\ (holds <=> op = "OpIf"), else |-> FALSE])
                [] op = "OpElse" /\ n > 0 ->
                       [scBranch EXCEPT ![n] = [runs |-> ~@.runs, else |-> TRUE]]
                [] op = "OpEndIf" /\ n > 0 -> SubSeq(scBranch, 1, n - 1)
                [] OTHER -> scBranch
        /\ scShape' = CASE scShape = "odd" \/ odd -> "odd"
                        [] scShape = "flat" /\ n > 0 /\ op \in {"OpIf", "OpNotIf"} -> "nested"
                        [] OTHER -> scShape

\* The next byte of the script, and the data that follows it if it is a push.
ExecuteByte(b, data) ==
    /\ sc.state = "running"
    /\ sc' = Turn(sc, b, data)
    /\ Reference(Opcode(b), sc.stack # <<>> /\ ~is_false(Top(sc)))
    /\ UNCHANGED <<scStart, scProgram>>

\* A push whose data reaches past the end of the script (read_bytes).
PushPastEnd(b) ==
    /\ sc.state = "running" /\ ~should_skip(sc) /\ Opcode(b) \in Pushes
    /\ sc' = Failed(sc)
    /\ UNCHANGED <<scStart, scBranch, scShape, scProgram>>

\* The end of the script: one true item must be left
\* (verify_script_with_sig_op_count).
EndOfScript ==
    /\ sc.state = "running"
    /\ sc' = [sc EXCEPT !.state =
                 IF sc.sig <= MaxSigOps /\ Len(sc.stack) = 1 /\ ~is_false(Top(sc))
                 THEN "accepted" ELSE "failed"]
    /\ UNCHANGED <<scStart, scBranch, scShape, scProgram>>

\* The script that pays to the hash of key k, its push written with OP_PUSHDATA1:
\* OP_DUP OP_HASH160 hash OP_EQUALVERIFY OP_CHECKSIG.
KeyHashScript(k) ==
    <<[byte |-> 118, data |-> <<>>], [byte |-> 169, data |-> <<>>],
      [byte |-> 76, data |-> Digest("hash160", Key(k))],
      [byte |-> 136, data |-> <<>>], [byte |-> 172, data |-> <<>>]>>

\* That script, byte by byte, and its end.
KeyHashStep(k) ==
    LET script == KeyHashScript(k)
    IN  \/ /\ sc.count < Len(script)
           /\ ExecuteByte(script[sc.count + 1].byte, script[sc.count + 1].data)
        \/ sc.count = Len(script) /\ EndOfScript

ScInit(program, stacks) ==
    /\ scProgram = program
    /\ scStart \in stacks
    /\ sc = NewEngine(scStart)
    /\ scBranch = <<>>
    /\ scShape = "flat"

(***************************************************************************)
(* Properties.                                                             *)
(***************************************************************************)

\* The engine runs exactly the bytes that the conditionals let run, as long as
\* they are not nested and well formed: each finds its condition on the stack and
\* has one OP_ELSE at most, and no push stands in a skipped branch (op_if, op_else, op_endif, and the
\* skipping of execute).
FlatBranchesRun ==
    sc.state = "running" /\ scShape = "flat" => (should_skip(sc) <=> ~RefRuns)

\* The same for nested conditionals: control_stack "Tracks whether we're in a
\* true/false branch" and skip_depth "Tracks nested skip levels"
\* (script_engine.rs:60-61).
NestedBranchesRun ==
    sc.state = "running" /\ scShape # "odd" => (should_skip(sc) <=> ~RefRuns)

\* A script that pays to the hash of key 1 accepts the signature of this input
\* by that key, followed by the key, and nothing else (op_dup, op_hash160,
\* op_equal_verify, op_checksig and the final check of the stack).
KeyHashSpends ==
    scProgram = "keyhash" /\ sc.state # "running" =>
        (sc.state = "accepted" <=> scStart = <<Sig(1, ScMessage), Key(1)>>)
=============================================================================
