----------------------------- MODULE Disassembly -----------------------------
(***************************************************************************)
(* The disassembler (dmdism): a proc's bytecode, a vector of words, is cut *)
(* into instructions one after another.  What an instruction's operands    *)
(* are depends on its opcode, and, for the instructions that name a        *)
(* variable, on the words themselves.  Reading past the end yields RET for *)
(* a peek and END for a take, and never moves.                             *)
(*                                                                         *)
(* The words are the numbers the code gives them (opcodes_table.inl,       *)
(* opcodes.h, byond_constants.h).  Comments and mnemonics are left out.    *)
(***************************************************************************)
EXTENDS Integers, SequencesExt

CONSTANTS
    Compiled,        \* the instructions a compiler writes: their words, the bytes,
                     \* base and chain their disassembly shows, all they jump to,
                     \* what of that it does not show, and whether they name
                     \* only strings and procs that exist
    MaxInstructions, \* bound: instructions in one bytecode
    StringIds,       \* BYOND's string table
    ProcIds          \* the indices of procs_by_id

VARIABLES
    written,        \* the instructions the bytecode was compiled from
    buffer,         \* Context::buffer_
    current_offset, \* Context::current_offset_
    instructions,   \* what disassemble() has collected
    failed          \* disassemble() ended without a result

codeVars == <<written, buffer, current_offset, instructions, failed>>

-----------------------------------------------------------------------------
(* The words that decide how others are read.                              *)

END == 0
RET == 18
NUMBER == 42
SUBVAR == 65500
CACHE == 65496
INITIAL == 65511

Procs == 65501..65504           \* SRC_PROC_SPEC, SRC_PROC, PROC, PROC_NO_RET

Numbered == 65497..65499        \* ARG, LOCAL, GLOBAL: a number follows

Plain == {65486, 65509, CACHE, 65488} \* SRC, WORLD, CACHE, DOT: nothing follows

(* The opcodes that disassemble alike; those of no set take no operands.   *)
OneOperand ==
    {1, 26, 37, 43, 80, 94, 108, 114, 115, 132, 133, 165, 166, 167, 169, 181,
     200, 205, 222, 251, 278, 279, 284, 298, 299, 314}
TwoOperands == {2, 4, 48, 82}
ThreeOperands == {193, 253}
Jumps == 15..17 \cup 178..179 \cup 248..250 \cup {317}
Variables ==
    51..53 \cup 69..78 \cup 98..103 \cup 225..227 \cup 273..274 \cup {261, 277, 281}
OneAndVariable == {223, 262, 272}   \* the icon procs
Calls == {41, 42}                   \* CALL CALLNR
PUSHVAL == 96
SWITCH == 120
PICK_SWITCH == 121

-----------------------------------------------------------------------------
(* Context: the reader of the instruction in progress.  An instruction     *)
(* that names no variable has no base.                                     *)

Readers == [at : Nat, bytes : Seq(Nat), jumps : Seq(Nat), base : Seq(Nat),
            chain : Seq(Nat)]

Fresh == [at |-> current_offset, bytes |-> <<>>, jumps |-> <<>>,
          base |-> <<>>, chain |-> <<>>]

Peek(r) == IF r.at < Len(buffer) THEN buffer[r.at + 1] ELSE RET

Value(r) == IF r.at < Len(buffer) THEN buffer[r.at + 1] ELSE END

\* Mutant: the reader moves on past the end of the bytecode.
TakeBeyond(r) == [r EXCEPT !.at = r.at + 1]

Take(r) == [r EXCEPT !.at = IF r.at < Len(buffer) THEN r.at + 1 ELSE r.at]

Eat(r) == [Take(r) EXCEPT !.bytes = Append(r.bytes, Value(r))]

Repeat(read, n, r) == FoldLeft(LAMBDA s, i : read[s], r, [i \in 1..n |-> i])

EatJump(r) == [Eat(r) EXCEPT !.jumps = Append(r.jumps, Value(r) % 65536)]

TakeJump(r) == [Take(r) EXCEPT !.jumps = Append(r.jumps, Value(r) % 65536)]

-----------------------------------------------------------------------------
(* The operands.                                                           *)

Name(r) == [Eat(r) EXCEPT !.chain = Append(r.chain, Value(r))]

(* .a.b.c is SUBVAR a SUBVAR b c; a call on .b ends the names before PROC. *)
Follow == [r \in Readers |->
             IF Peek(r) \in {SUBVAR, CACHE} THEN Name(Eat(r)) ELSE r]

disassemble_subvar_follows(r) ==
    LET last == Repeat(Follow, Len(buffer) - r.at, r)
    IN  IF Peek(last) \in Procs THEN last ELSE Name(last)

\* Mutant: the base of a chain is read as a word alone, its number left over.
WithBaseAlone(r) ==
    LET base == Eat(r)
    IN  disassemble_subvar_follows([base EXCEPT !.base = <<Value(r), 0>>])

WithBase(r) ==
    LET mod == Value(r)
        base == Eat(r)
    IN  IF mod \in {65501, 65503} THEN [base EXCEPT !.base = <<0, 0>>]
        ELSE disassemble_subvar_follows(
               IF mod \in Plain THEN [base EXCEPT !.base = <<mod, 0>>]
               ELSE [Eat(base) EXCEPT !.base = <<mod, Value(base)>>])

disassemble_var(r) ==
    CASE Peek(r) = SUBVAR             -> WithBase(Eat(r))
      [] Peek(r) \in Numbered         -> Eat(Eat(r))
      [] Peek(r) = INITIAL            -> Eat(Eat(r))
      [] Peek(r) \in Procs            -> r
      [] OTHER                        -> Eat(r)

disassemble_proc(r) == IF Peek(r) \in Procs THEN Eat(Eat(Eat(r))) ELSE r

(* A case of a switch: a number takes two words, its jump is recorded.     *)
Case == [r \in Readers |-> IF Value(r) = NUMBER THEN TakeJump(Take(Take(Take(r))))
                           ELSE Take(Take(Take(r)))]

PickCase == [r \in Readers |-> TakeJump(Take(r))]

Switch(r) == TakeJump(Repeat(Case, Value(r), Eat(r)))

PickSwitch(r) == TakeJump(Repeat(PickCase, Value(r), Eat(r)))

PushVal(r) == IF Value(r) = NUMBER THEN Eat(Eat(Eat(r))) ELSE Eat(Eat(r))

(* get_disassemble_callback and the callbacks, opcode by opcode.           *)
Operands(op, r) ==
    CASE op \in OneOperand     -> Eat(r)
      [] op \in TwoOperands    -> Eat(Eat(r))
      [] op \in ThreeOperands  -> Eat(Eat(Eat(r)))
      [] op \in Jumps          -> EatJump(r)
      [] op \in Variables      -> disassemble_var(r)
      [] op \in OneAndVariable -> disassemble_var(Eat(r))
      [] op \in Calls          -> disassemble_proc(disassemble_var(r))
      [] op = PUSHVAL          -> PushVal(r)
      [] op = SWITCH           -> Switch(r)
      [] op = PICK_SWITCH      -> PickSwitch(r)
      [] OTHER                 -> r

(* The comments of an access chain and of a call: GetStringFromId takes the *)
(* text of an entry that is null for an unknown string, and get_proc throws *)
(* for an unknown proc, which nothing on the way catches.                   *)
Unnamed(r) == \E i \in DOMAIN r.chain : r.chain[i] \notin StringIds

UnknownProc(r) == Peek(r) \in {65503, 65504} /\ Value(Eat(r)) \notin ProcIds

Fails(op, r) ==
    \/ Unnamed(Operands(op, r))
    \/ op \in Calls /\ UnknownProc(disassemble_var(r))

-----------------------------------------------------------------------------
Words(program) == FlattenSeq([i \in DOMAIN program |-> program[i].words])

Start == current_offset = 0 /\ instructions = <<>> /\ failed = FALSE

(* Bytecode is a compiled program, or one cut short in its last            *)
(* instruction (get_bytecode_length is whatever the table of lengths says).*)
CodeInit ==
    /\ written \in UNION {[1..n -> Compiled] : n \in 1..MaxInstructions}
    /\ \E cut \in 0..(Len(Last(written).words) - 1) :
         buffer = SubSeq(Words(written), 1, Len(Words(written)) - cut)
    /\ Start

(* One round of disassemble(): an instruction is read and kept, or ends it. *)
disassemble_next ==
    LET op == Value(Fresh)
        r  == Operands(op, Eat(Fresh))
    IN  /\ ~ failed /\ current_offset < Len(buffer)
        /\ IF Fails(op, Eat(Fresh))
           THEN failed' = TRUE /\ UNCHANGED <<instructions, current_offset>>
           ELSE /\ instructions' = Append(instructions,
                     [offset |-> current_offset, bytes |-> r.bytes, jumps |-> r.jumps,
                      base |-> r.base, chain |-> r.chain])
                /\ current_offset' = r.at
                /\ UNCHANGED failed
        /\ UNCHANGED <<written, buffer>>

CodeSpec == CodeInit /\ [][disassemble_next]_codeVars

-----------------------------------------------------------------------------
(* Disassembly: what is done with the instructions.                        *)

(* next_from_offset: the position after the first instruction at or above  *)
(* an offset, of 16 bits, found by bisection; 0 when there is none.        *)
Halved(offset) == [p \in Nat \X Nat |->
    LET first == p[1]
        count == p[2]
        step == count \div 2
    IN  IF count = 0 THEN p
        ELSE IF instructions[first + step].offset < offset
             THEN <<first + step + 1, count - step - 1>>
             ELSE <<first, step>>]

local_lower_bound(offset) ==
    LET n == Len(instructions)
    IN  Repeat(Halved(offset), n, <<1, n>>)[1]

next_from_offset(offset) ==
    LET it == local_lower_bound(offset % 65536)
    IN  IF it >= Len(instructions) THEN 0 ELSE it + 1

-----------------------------------------------------------------------------
Uncut == buffer = Words(written)

(* Reading keeps step with the compiler: whatever the operands' words look *)
(* like, and however an access chain ends, the instructions found so far   *)
(* are the ones the bytecode was compiled from, each at its offset and     *)
(* with its words, except the last one of a bytecode that was cut short;   *)
(* what ends disassemble() early is a name that does not exist.  Of the    *)
(* rest the code collects a part, and that one is right: the jumps, but    *)
(* not those of a switch's cases that are no numbers                       *)
(* (dis_custom_switch), and the base and names of a chain; a variable      *)
(* named without one has no base.                                          *)
InstructionsAsWritten ==
    LET n == Len(instructions)
        whole == IF Uncut THEN Len(written) ELSE Len(written) - 1
    IN  /\ n <= Len(written)
        /\ Uncut => current_offset = Len(Words(SubSeq(written, 1, n)))
        /\ \A i \in 1..Min({n, whole}) :
             /\ written[i].known
             /\ instructions[i] =
                  [offset |-> Len(Words(SubSeq(written, 1, i - 1))),
                   bytes  |-> written[i].bytes,
                   jumps  |-> SelectSeq(written[i].jumps,
                                LAMBDA j : j \notin written[i].unseen),
                   base   |-> written[i].base, chain |-> written[i].chain]
        /\ failed /\ n < whole => ~ written[n + 1].known

(* However a bytecode ends, the reader never leaves it, and from each      *)
(* instruction found next_from_offset leads to the one after it, from the  *)
(* last nowhere.                                                           *)
ShortCodeIsSafe ==
    /\ current_offset <= Len(buffer)
    /\ \A i \in DOMAIN instructions :
         next_from_offset(instructions[i].offset) =
           IF i < Len(instructions) THEN i + 1 ELSE 0
=============================================================================
