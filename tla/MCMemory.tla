------------------------------- MODULE MCMemory -------------------------------
(***************************************************************************)
(* Instances for TLC of the memory modules (the frame allocator over a     *)
(* memory map, and the address spaces that exec, fork, mmap, brk and page  *)
(* faults build) and of the console (the terminal's output over the        *)
(* framebuffer, and its line discipline).  They share no variable; `focus' *)
(* says which one a behaviour is about, and the others stay in an initial  *)
(* state.                                                                  *)
(***************************************************************************)
EXTENDS FrameAlloc, AddressSpace, Terminal, TtyInput

VARIABLE focus

(* Memory maps of the loader, with reserved regions and holes.             *)
Region(first, len, usable) == [first |-> first, len |-> len, usable |-> usable]
MCMemMaps ==
    {<<Region(0, 1, FALSE), Region(1, 4, TRUE), Region(5, 2, FALSE), Region(7, 5, TRUE)>>,
     <<Region(0, 1, TRUE), Region(2, 3, TRUE), Region(5, 4, TRUE)>>}

(* A program whose text and data share a page, and one that is refused.    *)
Phdr(type, vaddr, memsz, offset, filesz, perm) ==
    [type |-> type, vaddr |-> vaddr, memsz |-> memsz, offset |-> offset,
     filesz |-> filesz, perm |-> perm]
MCProgram == <<Phdr("phdr", 2, 1, 0, 1, {"r"}), Phdr("load", 2, 2, 0, 2, {"r", "x"}),
               Phdr("load", 3, 5, 1, 3, {"r", "w"})>>
MCBadPrograms == {<<Phdr("load", 3, 2, 0, 2, {"r"})>>}

(* Text, control characters, and control sequences, some cut in two.       *)
MCWrites ==
    {<<120>>, <<97, 32, 98>>, <<10>>, <<8>>, <<7>>, <<13, 10>>, <<27, 91>>, <<27>>, <<72>>,
     <<50, 59, 50, 72>>, <<27, 91, 75>>, <<27, 91, 49, 74>>, <<27, 91, 50, 74>>,
     <<27, 91, 55, 109>>, <<27, 91, 63, 50, 53, 108>>, <<27, 91, 63, 50, 53, 104>>,
     <<27, 91, 65>>, <<27, 91, 67>>, <<226>>, <<150, 136>>,
     <<27, 91, 51, 56, 59, 53, 59, 57, 109>>}
MCPrints == {<<120, 10>>, <<97, 98, 99, 100>>}

(* Keys: text, space, both line ends, and the editing and signal keys.     *)
MCKeyWords == {<<65>>, <<32>>, <<10>>, <<13>>, <<4>>, <<8>>, <<23>>, <<3>>, <<27>>, <<91>>}
MCModes == {Cooked, [Cooked EXCEPT !.icanon = FALSE, !.vmin = 2],
            [icanon |-> FALSE, isig |-> FALSE, icrnl |-> FALSE, raw |-> TRUE,
             vmin |-> 0, vtime |-> 1]}

ReaderSymmetry == Permutations(Readers)

MemoryInit ==
    /\ focus \in {"frames", "space", "output", "input"}
    /\ FrameInit /\ MemInit /\ TermInit /\ TtyInit
    /\ focus # "frames" => fmap = CHOOSE m \in MemMaps : TRUE

MemoryNext ==
    /\ focus' = focus
    /\ \/ focus = "frames" /\ FrameNext /\ UNCHANGED <<mvars, termVars, ttyVars>>
       \/ focus = "space" /\ MemNext /\ UNCHANGED <<fvars, termVars, ttyVars>>
       \/ focus = "output" /\ TermNext /\ UNCHANGED <<fvars, mvars, ttyVars>>
       \/ focus = "input" /\ TtyNext /\ UNCHANGED <<fvars, mvars, termVars>>
===============================================================================
