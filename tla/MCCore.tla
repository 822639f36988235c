------------------------------- MODULE MCCore -------------------------------
(* The core with its hooks, opcodes and topic filter, the core's message    *)
(* stream and the disassembler, which share nothing: a behaviour is one of  *)
(* them, chosen in the initial state.  Small instances: the modules whose   *)
(* hooks or opcodes meet, two worlds, a local and a remote address; a       *)
(* message of one byte, one of two, and one that is no JSON; each way to    *)
(* read an instruction's operands.                                          *)
EXTENDS TopicFilter, JsonStream, Disassembly

VARIABLE part

SomeModules == {"debugger", "tffi"}

BanLists == {{}, {"remote"}}

TextSize == [m \in Messages |-> IF m = "a" THEN 1 ELSE 2]

Instr(words, jumps, base, chain) ==
    [words |-> words, bytes |-> words, jumps |-> jumps, unseen |-> {},
     base |-> base, chain |-> chain, known |-> TRUE]

Simple(words) == Instr(words, <<>>, <<>>, <<>>)

(* A switch shows only its opcode and the number of its cases, and not all *)
(* of its jumps.                                                           *)
Cases(words, jumps, unseen) ==
    [words |-> words, bytes |-> SubSeq(words, 1, 2), jumps |-> jumps,
     unseen |-> unseen, base |-> <<>>, chain |-> <<>>, known |-> TRUE]

(* It names what does not exist.                                           *)
Unknown(words) == [Simple(words) EXCEPT !.known = FALSE]

(* Each way to read operands, some of which look like something else.  The *)
(* base is what the code notes: nothing for the local variable 1 of        *)
(* <<51, 65498, 1>>.  The switch jumps to 5 for a number, to 9 for a       *)
(* string, which it does not show, and else to 11.                         *)
SomeInstructions ==
    { Simple(<<0>>), Simple(<<80, 7>>), Simple(<<2, 65500, 42>>),
      Simple(<<253, 96, 65500, 0>>),
      Instr(<<15, 3>>, <<3>>, <<>>, <<>>),
      Simple(<<51, 65498, 1>>), Simple(<<52, 65488>>),
      Simple(<<51, 65511, 9>>), Simple(<<42, 65503, 7, 2>>),
      Simple(<<272, 1, 65487>>),
      Instr(<<51, 65500, 65486, 9>>, <<>>, <<65486, 0>>, <<9>>),
      Instr(<<52, 65500, 65498, 1, 65500, 8, 65500, 9, 10>>, <<>>,
            <<65498, 1>>, <<8, 9, 10>>),
      Instr(<<41, 65500, 65509, 65500, 8, 65502, 7, 2>>, <<>>,
            <<65509, 0>>, <<8>>),
      Instr(<<41, 65500, 65501, 65502, 7, 2>>, <<>>, <<0, 0>>, <<>>),
      Simple(<<96, 42, 65500, 120>>), Simple(<<96, 6, 42>>),
      Cases(<<120, 2, 42, 1, 2, 5, 6, 42, 9, 11>>, <<5, 9, 11>>, {9}),
      Cases(<<121, 2, 50, 4, 100, 5, 6>>, <<4, 5, 6>>, {}),
      Unknown(<<52, 65500, 65486, 65500, 8, 99>>),
      Unknown(<<41, 65500, 65509, 65500, 8, 65503, 99, 2>>) }

CoreServicesInit ==
    /\ part \in {"core", "stream", "disassembler"}
    /\ Init /\ FilterInit
    /\ StreamInit
    /\ IF part = "disassembler" THEN CodeInit
       ELSE /\ written = <<Simple(<<0>>)>> /\ buffer = <<0>>
            /\ current_offset = 0 /\ instructions = <<>> /\ failed = FALSE

CoreStep == part = "core" /\ Next /\ UNCHANGED <<part, streamVars, codeVars>>

StreamStep == part = "stream" /\ StreamNext /\ UNCHANGED <<part, vars, codeVars>>

StreamReader == part = "stream" /\ Reader /\ UNCHANGED <<part, vars, codeVars>>

DisassemblerStep ==
    part = "disassembler" /\ disassemble_next /\ UNCHANGED <<part, vars, streamVars>>

allVars == <<part, vars, streamVars, codeVars>>

CoreServicesSpec ==
    /\ CoreServicesInit
    /\ [][CoreStep \/ StreamStep \/ DisassemblerStep]_allVars
    /\ WF_allVars(StreamReader)
=============================================================================
