---------------------------- MODULE MCRefinement ----------------------------
(***************************************************************************)
(* Packages for Refinement: one item that runs inner machines, three items *)
(* that export between them more segments than a report may have, and one  *)
(* package for each way the computation fails.                             *)
(***************************************************************************)
EXTENDS Refinement

Item(code, limit, exportCount, imports, extrinsics, calls) ==
    [code |-> code, limit |-> limit, exportCount |-> exportCount, imports |-> imports,
     extrinsics |-> extrinsics, calls |-> calls]

Hosting(limit, calls) == Item("good", limit, 0, "none", FALSE, calls)
Exporting(n) == Item("good", 3, n, "none", FALSE, {"export"})
Failing(code, n) == Item(code, 1, n, "none", FALSE, {"export"})
Package(items) == [auth |-> "good", items |-> items]

MCPackages ==
    { Package(<<Hosting(4, {"machine", "invoke"})>>),
      Package(<<Hosting(3, {"machine", "invoke", "peek", "poke", "pages", "expunge"})>>),
      Package(<<Hosting(2, {"gas", "fetch", "lookup", "other"}), Hosting(0, {"gas"})>>),
      Package(<<Exporting(1), Exporting(2), Exporting(1)>>),
      Package(<<Failing("missing", 1), Exporting(0), Failing("oversized", 2), Exporting(1)>>),
      Package(<<Failing("broken", 2), Exporting(2), Failing("unstartable", 1)>>),
      Package(<<Item("good", 1, 0, "none", TRUE, {"fetch"})>>),
      Package(<<Item("good", 1, 0, "byRoot", FALSE, {"fetch"})>>),
      Package(<<Item("good", 1, 0, "byPackage", FALSE, {})>>) }
    \cup { [auth |-> how, items |-> <<Exporting(1)>>] : how \in {"missing", "empty", "oversized"} }

MCRegisters(a, b) == [r \in 0..NRegs - 1 |-> CASE r = 0 -> a [] r = 1 -> b [] OTHER -> 6]

Program(code, opcodes) ==
    [len |-> Len(code), c |-> [i \in 0..Len(code) - 1 |-> code[i + 1]],
     k |-> [i \in 0..Len(code) - 1 |-> IF i \in opcodes THEN 1 ELSE 0], j |-> <<>>]

MCCodes ==
    { \* a countdown: add -1 to register 0 and go back until it is 0
      Program(<<149, 0, 1, 82, 0, 1, 0, 1, 1, 0>>, {0, 3, 9}),
      \* the heap grows by register 0; register 1 is stored there, and loaded
      Program(<<101, 2, 120, 33, 0, 1, 1, 124, 33, 0, 1, 40, 1, 0, 1>>, {0, 2, 7, 11}),
      \* a host call, then a move and a trap
      Program(<<10, 1, 100, 2, 0>>, {0, 2, 4}),
      \* no instruction at 0
      Program(<<255, 0>>, {0, 1}) }

MCStartPcs == {0, 2}
MCInputs == {MCRegisters(2, 7), MCRegisters(5, 0)}
MCProbes == {<<0, 1>>, <<8, 2>>}
=============================================================================
