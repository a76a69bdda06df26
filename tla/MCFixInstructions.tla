-------------------------- MODULE MCFixInstructions --------------------------
(* Instruction sets and addresses for FixInstructions. *)
EXTENDS FixInstructions

Ins(op, off, size, lsb) == [op |-> op, off |-> off, size |-> size, lsb |-> lsb]

(* Targets in the window, next to it and beyond a conditional branch.       *)
MixedInstructions ==
  {Ins("b", off, 1, 0) : off \in {-1, 2, 100}}
    \cup {Ins("bl", off, 1, 0) : off \in {1, -100}}
    \cup {Ins("b.c", off, 1, 0) : off \in {-1, 1, 2, 100}}
    \cup {Ins("tbz", off, 1, 0) : off \in {1, 8000}}
    \cup {Ins("ldr", 1, 1, 0), Ins("ldr", 101, 1, 0), Ins("ldr", 100, 2, 0),
          Ins("ldrv", 102, 4, 0), Ins("ldrsw", 100, 2, 0), Ins("prfm", 100, 1, 0)}
    \cup {Ins("adr", off, 1, 0) : off \in {-1, 1, 100}}
    \cup {Ins("adrp", off, 1, 0) : off \in {0, 1, 9}}
    \cup {Ins("other", 0, 1, 0)}

(* Next to the function, out of a condition's reach, out of a branch's,     *)
(* below the function; each in both alignments a trampoline can have.       *)
Function == 2 ^ 28 + 2 * 1024 - 1
Places == {d + a : d \in {2 ^ 28 + 4096, 2 ^ 28 + 2 ^ 20, 2 ^ 28 + 2 ^ 27, 2 ^ 28 - 4096},
                  a \in {0, 2}}
Alias == 2 ^ 26
=============================================================================
