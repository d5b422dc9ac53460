-------------------------- MODULE PvmLockstepProofs --------------------------
(***************************************************************************)
(* The two interpreters side by side, for every program and every machine  *)
(* they may start from.                                                    *)
(*                                                                         *)
(* The inductive invariant, BothInv: both machines are machines and the    *)
(* second is sound, its caches among it: a length it has found or a block  *)
(* it has marked is right; and while both have done the same they have the *)
(* same. A turn is taken apart from its end: what an instruction does to   *)
(* each machine (WasmStepped, JsStepped), and that two machines that have  *)
(* the same do the same or differ where KnownDifference says (StepsAgree). *)
(***************************************************************************)
EXTENDS PvmStepProofs

-----------------------------------------------------------------------------
(***************************************************************************)
(* The second interpreter: its caches are right, and its jumps land.       *)
(***************************************************************************)

(* The caches of the second interpreter say what is so, or nothing yet.    *)
SkipsAreRight(m, p) ==
  /\ m.skips = [i \in Positions(p) |-> m.skips[i]]
  /\ \A i \in Positions(p) : m.skips[i] \in {0, NextOpcode(p, i) - i}

BeginningsAreRight(m, p) ==
  /\ m.blockBeginnings = [i \in Positions(p) |-> m.blockBeginnings[i]]
  /\ m.blockBeginnings[0] = 1
  /\ \A i \in Positions(p) :
       /\ m.blockBeginnings[i] \in {0, 1, 2}
       /\ m.blockBeginnings[i] = 1 => i \in BlockStarts(p)
       /\ m.blockBeginnings[i] = 2 => i \notin BlockStarts(p)

IsWasm(m, p) ==
  /\ IsMachine(m)
  /\ {"hostCall", "skips", "blockBeginnings"} \subseteq DOMAIN m
  /\ SkipsAreRight(m, p)
  /\ BeginningsAreRight(m, p)

\* n is the wasm machine m but for these parts, and the caches.
WasmBut(n, m, p, changed) ==
  /\ IsWasm(n, p)
  /\ But(n, m, changed \cup {"skips", "blockBeginnings", "hostCall"})

LEMMA SkipFound ==
  ASSUME NEW p, IsProgram(p), NEW pc \in Positions(p), NEW ends,
         ends = {n \in pc + 1 .. p.len : n = p.len \/ p.k[n] # 0}
  PROVE  (CHOOSE n \in ends : \A e \in ends : n <= e) = NextOpcode(p, pc)
<1>1. p.len \in Nat /\ pc \in Nat /\ pc < p.len /\ \A i \in Positions(p) : p.k[i] \in {0, 1}
  BY ProgramIs DEF Positions
<1>2. ends \in SUBSET Nat /\ p.len \in ends
  BY <1>1
<1>3. PICK n \in ends : n = (CHOOSE g \in ends : \A e \in ends : g <= e) /\ \A e \in ends : n <= e
  <2>1. \E n \in ends : \A e \in ends : n <= e
    BY <1>2, LeastElement
  <2>. QED
    BY <2>1
<1>4. n \in pc + 1 .. p.len
  OBVIOUS
<1>5. \A i \in pc + 1 .. n - 1 : p.k[i] = 0
  <2>. SUFFICES ASSUME NEW i \in pc + 1 .. n - 1 PROVE p.k[i] = 0
    OBVIOUS
  <2>1. i \in pc + 1 .. p.len /\ i < n /\ i \in Positions(p)
    BY <1>1, <1>4 DEF Positions
  <2>2. i \notin ends
    BY <1>1, <1>2, <1>3, <1>4, <2>1
  <2>. QED
    BY <1>1, <2>1, <2>2
<1>6. n < p.len => p.k[n] = 1
  <2>. SUFFICES ASSUME n < p.len PROVE p.k[n] = 1
    OBVIOUS
  <2>1. n \in Positions(p)
    BY <1>1, <1>4 DEF Positions
  <2>2. p.k[n] # 0
    BY <1>1, <1>4
  <2>. QED
    BY <1>1, <2>1, <2>2
<1>. QED
  BY <1>3, <1>4, <1>5, <1>6, NextOpcodeOnly

LEMMA WithSkipIs ==
  ASSUME NEW p, IsProgram(p), NEW m, IsWasm(m, p), NEW pc \in Positions(p), NEW n, n = WithSkip(m, p, pc)
  PROVE  WasmBut(n, m, p, {}) /\ n.skips[pc] = NextOpcode(p, pc) - pc
<1>1. CASE m.skips[pc] # 0
  <2>1. n = m
    BY <1>1 DEF WithSkip
  <2>2. m.skips[pc] = NextOpcode(p, pc) - pc
    BY <1>1 DEF IsWasm, SkipsAreRight
  <2>. QED
    BY <2>1, <2>2 DEF WasmBut, IsWasm, But
<1>2. CASE m.skips[pc] = 0
  <2>1. PICK ends : ends = {e \in pc + 1 .. p.len : e = p.len \/ p.k[e] # 0}
    OBVIOUS
  <2>2. n = [m EXCEPT !.skips[pc] = (CHOOSE e \in ends : \A f \in ends : e <= f) - pc]
    BY <1>2, <2>1, Zenon DEF WithSkip
  <2>3. PICK v : v = NextOpcode(p, pc) - pc /\ n = [m EXCEPT !.skips[pc] = v]
    <3>1. (CHOOSE e \in ends : \A f \in ends : e <= f) = NextOpcode(p, pc)
      BY <2>1, SkipFound
    <3>2. n = [m EXCEPT !.skips[pc] = NextOpcode(p, pc) - pc]
      BY <2>2, <3>1, Zenon
    <3>. QED
      BY <3>2
  <2>4. /\ But(n, m, {"skips"}) /\ n.skips = [m.skips EXCEPT ![pc] = v]
        /\ n.blockBeginnings = m.blockBeginnings
    BY <2>3 DEF IsWasm, But, IsMachine, Parts
  <2>5. SkipsAreRight(n, p) /\ n.skips[pc] = v
    BY <2>3, <2>4 DEF IsWasm, SkipsAreRight
  <2>6. BeginningsAreRight(n, p)
    BY <2>4 DEF IsWasm, BeginningsAreRight
  <2>. QED
    BY <2>3, <2>4, <2>5, <2>6 DEF WasmBut, IsWasm, But
<1>. QED
  BY <1>1, <1>2

(* Only one instruction is the last before a position.                     *)
LEMMA LastOpcode ==
  ASSUME NEW p, IsProgram(p), NEW pc \in Positions(p), NEW t \in 0 .. pc - 1, p.k[t] = 1, NextOpcode(p, t) = pc,
         NEW last \in 0 .. pc - 1, last = 0 \/ p.k[last] = 1,
         \A q \in last + 1 .. pc - 1 : p.k[q] = 0
  PROVE  t = last
<1>1. p.len \in Nat /\ pc \in Nat /\ pc < p.len /\ t \in Positions(p) /\ last \in Positions(p) /\ p.k[0] = 1
  BY ProgramIs DEF Positions
<1>2. \A i \in t + 1 .. pc - 1 : p.k[i] = 0
  BY <1>1, NextOpcodeIs
<1>3. ~(last < t)
  <2>. SUFFICES ASSUME last < t PROVE FALSE
    OBVIOUS
  <2>1. t \in last + 1 .. pc - 1
    BY <1>1
  <2>. QED
    BY <2>1
<1>4. ~(t < last)
  <2>. SUFFICES ASSUME t < last PROVE FALSE
    OBVIOUS
  <2>1. last \in t + 1 .. pc - 1
    BY <1>1
  <2>. QED
    BY <1>1, <1>2, <2>1
<1>. QED
  BY <1>1, <1>3, <1>4

(* A position is the beginning of a block iff what ends there ends a block. *)
LEMMA BlockStartIs ==
  ASSUME NEW p, IsProgram(p), NEW pc \in Positions(p), pc # 0, p.k[pc] = 1,
         NEW last \in 0 .. pc - 1, last = 0 \/ p.k[last] = 1,
         \A q \in last + 1 .. pc - 1 : p.k[q] = 0
  PROVE  pc \in BlockStarts(p) <=> p.c[last] \in BlockTerminators
<1>1. ASSUME p.c[last] \in BlockTerminators PROVE pc \in BlockStarts(p)
  BY <1>1, BlockBeginnings
<1>2. ASSUME pc \in BlockStarts(p) PROVE p.c[last] \in BlockTerminators
  <2>1. PICK t \in 0 .. pc - 1 : p.k[t] = 1 /\ p.c[t] \in BlockTerminators /\ NextOpcode(p, t) = pc
    BY <1>2 DEF BlockStarts
  <2>2. t = last
    BY <2>1, LastOpcode
  <2>. QED
    BY <2>1, <2>2
<1>. QED
  BY <1>1, <1>2

LEMMA WithBlockBeginningIs ==
  ASSUME NEW p, IsProgram(p), NEW m, IsWasm(m, p), NEW pc \in Positions(p),
         NEW n, n = WithBlockBeginning(m, p, pc)
  PROVE  WasmBut(n, m, p, {}) /\ (n.blockBeginnings[pc] = 1 <=> pc \in BlockStarts(p))
<1>1. CASE m.blockBeginnings[pc] # 0 \/ p.k[pc] = 0
  <2>1. n = m
    BY <1>1 DEF WithBlockBeginning
  <2>2. m.blockBeginnings[pc] = 1 <=> pc \in BlockStarts(p)
    BY <1>1 DEF IsWasm, BeginningsAreRight, BlockStarts
  <2>. QED
    BY <2>1, <2>2 DEF WasmBut, IsWasm, But
<1>2. CASE m.blockBeginnings[pc] = 0 /\ p.k[pc] # 0
  <2>1. pc # 0 /\ p.k[pc] = 1 /\ \A i \in Positions(p) : p.k[i] \in {0, 1}
    BY <1>2, ProgramIs DEF IsWasm, BeginningsAreRight
  <2>. DEFINE IsLast(q) == (q = 0 \/ p.k[q] # 0) /\ \A r \in q + 1 .. pc - 1 : p.k[r] = 0
  <2>2. PICK last : last = CHOOSE q \in 0 .. pc - 1 : IsLast(q)
    OBVIOUS
  <2>3. last \in 0 .. pc - 1 /\ IsLast(last)
    <3>1. \E q \in 0 .. pc - 1 : IsLast(q)
      BY <2>1, EarlierOpcode
    <3>. HIDE DEF IsLast
    <3>. QED
      BY <2>2, <3>1
  <2>4. last = 0 \/ p.k[last] = 1
    BY <2>1, <2>3, ProgramIs DEF Positions
  <2>5. pc \in BlockStarts(p) <=> p.c[last] \in BlockTerminators
    BY <2>1, <2>3, <2>4, BlockStartIs
  <2>6. PICK v : v = IF p.c[last] \in BlockTerminators THEN 1 ELSE 2
    OBVIOUS
  <2>7. n = [m EXCEPT !.blockBeginnings[pc] = v]
    BY <1>2, <2>2, <2>6, Zenon DEF WithBlockBeginning
  <2>. HIDE DEF IsLast
  <2>8. /\ But(n, m, {"blockBeginnings"}) /\ n.blockBeginnings = [m.blockBeginnings EXCEPT ![pc] = v]
        /\ n.skips = m.skips
    BY <2>7 DEF IsWasm, But, IsMachine, Parts
  <2>9. BeginningsAreRight(n, p) /\ n.blockBeginnings[pc] = v
    BY <2>1, <2>5, <2>6, <2>8 DEF IsWasm, BeginningsAreRight
  <2>10. SkipsAreRight(n, p)
    BY <2>8 DEF IsWasm, SkipsAreRight
  <2>. QED
    BY <2>5, <2>6, <2>8, <2>9, <2>10 DEF WasmBut, IsWasm, But
<1>3. m.blockBeginnings[pc] = 0 \/ m.blockBeginnings[pc] # 0
  OBVIOUS
<1>. QED
  BY <1>1, <1>2

LEMMA ButWasm ==
  ASSUME NEW p, NEW m, IsWasm(m, p), NEW n, NEW s, But(n, m, s),
         "skips" \notin s, "blockBeginnings" \notin s
  PROVE  WasmBut(n, m, p, s)
<1>1. /\ IsMachine(n) /\ DOMAIN n = DOMAIN m /\ {"hostCall", "skips", "blockBeginnings"} \subseteq DOMAIN m
      /\ \A f \in DOMAIN m \ s : n[f] = m[f]
  BY DEF But, IsWasm
<1>2. n.skips = m.skips /\ n.blockBeginnings = m.blockBeginnings
  BY <1>1
<1>3. IsWasm(n, p)
  BY <1>1, <1>2 DEF IsWasm, SkipsAreRight, BeginningsAreRight
<1>. QED
  BY <1>1, <1>3 DEF WasmBut, But

LEMMA WasmThen ==
  ASSUME NEW p, NEW m, NEW n, NEW o, NEW s, NEW t, WasmBut(n, m, p, s), WasmBut(o, n, p, t)
  PROVE  WasmBut(o, m, p, s \cup t)
BY DEF WasmBut, But

LEMMA WasmParts ==
  ASSUME NEW p, NEW m, NEW n, NEW s, WasmBut(n, m, p, s), IsMachine(m)
  PROVE  /\ IsWasm(n, p) /\ IsMachine(n)
         /\ "pc" \notin s => n.pc = m.pc
         /\ "gas" \notin s => n.gas = m.gas
         /\ "w" \notin s => n.w = m.w
         /\ "acl" \notin s => n.acl = m.acl
         /\ "mem" \notin s => n.mem = m.mem
         /\ "heap" \notin s => n.heap = m.heap
         /\ "exit" \notin s => n.exit = m.exit
BY ButParts DEF WasmBut, But

LEMMA WasmLeaves ==
  ASSUME NEW p, NEW m, IsWasm(m, p), NEW exit
  PROVE  WasmBut(Leave(m, exit), m, p, {"exit"}) /\ Leave(m, exit).exit = exit
<1>1. IsMachine(m)
  BY DEF IsWasm
<1>. QED
  BY <1>1, LeaveIs, ButWasm

LEMMA WasmMoves ==
  ASSUME NEW p, NEW m, IsWasm(m, p), NEW pc
  PROVE  WasmBut([m EXCEPT !.pc = pc], m, p, {"pc"}) /\ [m EXCEPT !.pc = pc].pc = pc
<1>1. IsMachine(m)
  BY DEF IsWasm
<1>. QED
  BY <1>1, ButPc, ButWasm

LEMMA WasmPuts ==
  ASSUME NEW p, NEW m, IsWasm(m, p), NEW r \in RegisterNumbers, NEW v
  PROVE  LET n == [m EXCEPT !.w[r] = v]
         IN  WasmBut(n, m, p, {"w"}) /\ n.w = [m.w EXCEPT ![r] = v]
<1>0. PICK n : n = [m EXCEPT !.w[r] = v]
  OBVIOUS
<1>1. IsMachine(m)
  BY DEF IsWasm
<1>2. But(n, m, {"w"}) /\ n.w = [m.w EXCEPT ![r] = v]
  BY ONLY <1>0, <1>1, r \in RegisterNumbers, ButRegister
<1>3. WasmBut(n, m, p, {"w"})
  BY <1>2, ButWasm
<1>. QED
  BY <1>0, <1>2, <1>3

(* Where a jump of the second interpreter ends.                            *)
Landed(n, m, p, pc) ==
  \/ pc >= p.len /\ WasmBut(n, m, p, {"exit"}) /\ n.exit = Abort
  \/ pc \in BlockStarts(p) /\ WasmBut(n, m, p, {"pc"}) /\ n.pc = pc
  \/ pc < p.len /\ pc \notin BlockStarts(p) /\ WasmBut(n, m, p, {"exit"}) /\ n.exit = Panic

LEMMA LandIs ==
  ASSUME NEW p, IsProgram(p), NEW m, IsWasm(m, p), NEW pc \in Nat, NEW n, n = Land(m, p, pc)
  PROVE  Landed(n, m, p, pc)
<1>0. p.len \in Nat /\ IsMachine(m)
  BY ProgramIs DEF IsWasm
<1>1. CASE pc >= p.len
  <2>1. n = Leave(m, Abort)
    BY <1>1 DEF Land
  <2>. QED
    BY <1>1, <2>1, WasmLeaves DEF Landed
<1>2. CASE ~(pc >= p.len)
  <2>1. PICK known : known = WithBlockBeginning(m, p, pc)
    OBVIOUS
  <2>2. pc \in Positions(p) /\ pc < p.len
    BY <1>0, <1>2 DEF Positions
  <2>3. n = IF known.blockBeginnings[pc] = 1 THEN [known EXCEPT !.pc = pc] ELSE Leave(known, Panic)
    BY <1>2, <2>1 DEF Land
  <2>4. WasmBut(known, m, p, {}) /\ (known.blockBeginnings[pc] = 1 <=> pc \in BlockStarts(p))
    BY <2>1, <2>2, WithBlockBeginningIs
  <2>5. IsWasm(known, p)
    BY <2>4 DEF WasmBut
  <2>6. CASE pc \in BlockStarts(p)
    <3>1. n = [known EXCEPT !.pc = pc]
      BY <2>3, <2>4, <2>6
    <3>2. WasmBut(n, known, p, {"pc"}) /\ n.pc = pc
      BY <2>5, <3>1, WasmMoves
    <3>3. WasmBut(n, m, p, {} \cup {"pc"})
      BY <2>4, <3>2, WasmThen
    <3>. QED
      BY <2>6, <3>2, <3>3 DEF Landed
  <2>7. CASE pc \notin BlockStarts(p)
    <3>1. n = Leave(known, Panic)
      BY <2>3, <2>4, <2>7
    <3>2. WasmBut(n, known, p, {"exit"}) /\ n.exit = Panic
      BY <2>5, <3>1, WasmLeaves
    <3>3. WasmBut(n, m, p, {} \cup {"exit"})
      BY <2>4, <3>2, WasmThen
    <3>. QED
      BY <2>2, <2>7, <3>2, <3>3 DEF Landed
  <2>. QED
    BY <2>6, <2>7
<1>. QED
  BY <1>1, <1>2

LEMMA WasmBranchIs ==
  ASSUME NEW p, IsProgram(p), NEW m, IsWasm(m, p), NEW pc \in Nat, NEW condition \in BOOLEAN, NEW skip,
         NEW n, n = WasmBranch(m, p, pc, condition, skip)
  PROVE  IF condition THEN Landed(n, m, p, pc)
         ELSE WasmBut(n, m, p, {"pc"}) /\ n.pc = u32(m.pc + skip)
<1>1. CASE condition
  BY <1>1, LandIs DEF WasmBranch
<1>2. CASE ~condition
  <2>1. n = [m EXCEPT !.pc = u32(m.pc + skip)]
    BY <1>2 DEF WasmBranch
  <2>. QED
    BY <1>2, <2>1, WasmMoves
<1>. QED
  BY <1>1, <1>2

\* The indices of the jump table.
Entry(p, a) == a # HaltAddress /\ a \in 1 .. Len(p.j) * 2 /\ a % 2 = 0

LEMMA EntryIs ==
  ASSUME NEW p, IsProgram(p), NEW a \in Nat, Entry(p, a)
  PROVE  a \div 2 \in 1 .. Len(p.j) /\ p.j[a \div 2] \in Nat
<1>1. PICK l \in Nat : l = Len(p.j)
  BY ProgramIs
<1>2. a \in 1 .. l * 2 /\ a % 2 = 0
  BY <1>1 DEF Entry
<1>3. a \div 2 \in 1 .. l
  BY <1>2
<1>. QED
  BY <1>1, <1>3, ProgramIs

LEMMA WasmDjumpIs ==
  ASSUME NEW p, IsProgram(p), NEW m, IsWasm(m, p), NEW a \in Nat, NEW n, n = WasmDjump(m, p, a)
  PROVE  /\ a = HaltAddress => WasmBut(n, m, p, {"exit"}) /\ n.exit = Exit("halt", 0)
         /\ a # HaltAddress /\ ~Entry(p, a) => WasmBut(n, m, p, {"exit"}) /\ n.exit = Panic
         /\ Entry(p, a) => Landed(n, m, p, p.j[a \div 2])
<1>1. CASE a = HaltAddress
  <2>1. n = Leave(m, Exit("halt", 0))
    BY <1>1 DEF WasmDjump, HaltAddress
  <2>. QED
    BY <1>1, <2>1, WasmLeaves DEF Entry
<1>2. CASE a # HaltAddress /\ ~Entry(p, a)
  <2>1. PICK l \in Nat : l = Len(p.j)
    BY ProgramIs
  <2>2. ~(a \in 1 .. l * 2 /\ a % 2 = 0)
    BY <1>2, <2>1 DEF Entry
  <2>3. a = 0 \/ a > l * 2 \/ a % 2 # 0
    BY <2>2
  <2>4. n = Leave(m, Panic)
    BY <1>2, <2>1, <2>3 DEF WasmDjump, HaltAddress
  <2>. QED
    BY <1>2, <2>4, WasmLeaves
<1>3. CASE Entry(p, a)
  <2>1. PICK l \in Nat : l = Len(p.j)
    BY ProgramIs
  <2>2. a # HaltAddress /\ a \in 1 .. l * 2 /\ a % 2 = 0
    BY <1>3, <2>1 DEF Entry
  <2>3. ~(a = 0 \/ a > l * 2 \/ a % 2 # 0)
    BY <2>2
  <2>4. n = Land(m, p, p.j[a \div 2])
    BY <2>1, <2>2, <2>3 DEF WasmDjump, HaltAddress
  <2>. QED
    BY <1>3, <2>2, <2>4, EntryIs, LandIs
<1>. QED
  BY <1>1, <1>2, <1>3

-----------------------------------------------------------------------------
(***************************************************************************)
(* Its memory: loads, stores and sbrk leave a sound machine.               *)
(***************************************************************************)

LEMMA OneTurn ==
  ASSUME NEW w \in Nat \ {0}, NEW a \in Nat, a < 2 * w
  PROVE  a % w = IF a < w THEN a ELSE a - w
<1>1. CASE a < w
  BY <1>1, SmallRest
<1>2. CASE ~(a < w)
  <2>1. a - w \in 0 .. w - 1
    BY <1>2
  <2>2. (a - w) % w = a - w
    BY <2>1, SmallRest
  <2>3. (a - w) % w = a % w
    <3>. a \in Int
      OBVIOUS
    <3>. QED
      BY OneMore
  <2>. QED
    BY <1>2, <2>2, <2>3
<1>. QED
  BY <1>1, <1>2

(* No access ends at the beginning of a page it touches.                   *)
LEMMA NoWayAround ==
  ASSUME NEW address \in Addresses, NEW length \in {1, 2, 4, 8}, NEW rights, NEW acl, NEW v,
         Forbidden(rights, acl, address, length, v)
  PROVE  v # u32(address + length)
<1>1. PICK k \in 0 .. length - 1 : v = Zp * PageOf(address, k)
  BY DEF Forbidden
<1>2. PICK w \in Nat \ {0} : w = Pow(4)
  BY WordBits
<1>3. PICK z \in Nat \ {0} : z = Zp /\ z + 8 <= w
  BY <1>2, PagesDivide, WidthsAssumption
<1>4. address \in Nat /\ address < w /\ address + k < 2 * w /\ address + length < 2 * w /\ k < length
  BY <1>2, <1>3 DEF Addresses
<1>5. PICK a \in Nat, b \in Nat : a = address + k /\ b = address + length /\ a < 2 * w /\ b < 2 * w
  BY <1>4
<1>6. PICK x, y : x = a % w /\ y = b % w
  OBVIOUS
<1>11. x = (IF a < w THEN a ELSE a - w) /\ y = (IF b < w THEN b ELSE b - w) /\ x \in Nat /\ y \in Nat
  BY <1>5, <1>6, OneTurn
<1>7. PICK r \in 0 .. z - 1 : x = z * (x \div z) + r
  <2>1. x \in Int
    BY <1>11
  <2>2. x % z \in 0 .. z - 1 /\ x = z * (x \div z) + (x % z)
    BY <2>1, Rest
  <2>. QED
    BY <2>2
<1>8. v = z * (x \div z)
  BY <1>1, <1>2, <1>3, <1>5, <1>6 DEF PageOf
<1>9. PICK t \in Int : t = z * (x \div z)
  <2>1. x \div z \in Int
    BY <1>11, Rest
  <2>2. z * (x \div z) \in Int
    BY <2>1
  <2>. QED
    BY <2>2
<1>10. t # y
  <2>. address \in Int /\ k \in Int /\ length \in Int /\ k < length /\ length <= 8
    BY <1>4
  <2>1. x = t + r
    BY <1>7, <1>9
  <2>. QED
    BY ONLY <1>3, <1>5, <1>11, <2>1, t \in Int, r \in 0 .. z - 1, z \in Nat, w \in Nat,
            address \in Int, k \in Int, length \in Int, k < length, length <= 8, a \in Nat, b \in Nat
<1>. QED
  <2>1. y = (address + length) % Pow(4)
    BY <1>2, <1>5, <1>6
  <2>. QED
    BY <1>8, <1>9, <1>10, <2>1 DEF u32

LEMMA NotBoth ==
  ASSUME NEW rights, NEW acl, NEW address, NEW length, NEW v,
         Allowed(rights, acl, address, length), Forbidden(rights, acl, address, length, v)
  PROVE  FALSE
BY DEF Allowed, Forbidden

(* The first page that may not be used, in the two interpreters.           *)
LEMMA SameFault ==
  ASSUME NEW address \in Addresses, NEW length \in Nat \ {0}, NEW acl, DOMAIN acl = Pages, NEW rights
  PROVE  FirstAbsent(acl, address, length, rights) =
            IF FirstWithout(rights, acl, address, length) = None THEN u32(address + length)
            ELSE FirstWithout(rights, acl, address, length)
<1>1. PICK wrong : wrong = Wrong(rights, acl, address, length)
  OBVIOUS
<1>2. CASE wrong = {}
  BY <1>1, <1>2 DEF FirstAbsent, FirstWithout, Wrong
<1>3. CASE wrong # {}
  <2>1. PICK i : i = CHOOSE g \in wrong : \A j \in wrong : g <= j
    OBVIOUS
  <2>2. PICK v : v = Zp * PagesInRange(address, length)[i]
    OBVIOUS
  <2>3. v \in Nat
    BY <1>1, <1>3, <2>1, <2>2, WrongPages
  <2>4. FirstAbsent(acl, address, length, rights) = v
    BY <1>1, <1>3, <2>1, <2>2 DEF FirstAbsent, Wrong
  <2>5. FirstWithout(rights, acl, address, length) = v
    BY <1>1, <1>3, <2>1, <2>2 DEF FirstWithout, Wrong
  <2>. QED
    BY <2>3, <2>4, <2>5 DEF None
<1>. QED
  BY <1>2, <1>3

LEMMA WasmReads ==
  ASSUME NEW p, NEW m, IsWasm(m, p), MemoryIsSound(m), NEW address \in Addresses, NEW length \in {1, 2, 4, 8},
         NEW r \in RegisterNumbers, NEW value, NEW n, n = ReadSafe(m, address, length, r, value)
  PROVE  \/ /\ CanRead(m.acl, address, length)
            /\ WasmBut(n, m, p, {"w"}) /\ n.w = [m.w EXCEPT ![r] = value]
         \/ \E v : /\ Forbidden({"read", "write"}, m.acl, address, length, v)
                   /\ WasmBut(n, m, p, {"exit"}) /\ n.exit = Exit("pageFault", v)
<1>. DEFINE rights == {"read", "write"}
<1>1. DOMAIN m.acl = Pages /\ length \in Nat \ {0}
  BY DEF MemoryIsSound
<1>2. PICK bad : bad = FirstAbsent(m.acl, address, length, rights)
  OBVIOUS
<1>3. PICK first : first = FirstWithout(rights, m.acl, address, length)
  OBVIOUS
<1>4. bad = IF first = None THEN u32(address + length) ELSE first
  BY <1>1, <1>2, <1>3, SameFault
<1>5. CASE bad # u32(address + length)
  <2>1. n = Leave(m, Exit("pageFault", bad))
    BY <1>2, <1>5 DEF ReadSafe
  <2>2. WasmBut(n, m, p, {"exit"}) /\ n.exit = Exit("pageFault", bad)
    BY <2>1, WasmLeaves
  <2>3. Forbidden(rights, m.acl, address, length, bad)
    BY <1>1, <1>2, <1>5, FirstAbsentIs
  <2>. QED
    BY <2>2, <2>3
<1>6. CASE bad = u32(address + length)
  <2>1. n = [m EXCEPT !.w[r] = value]
    BY <1>2, <1>6 DEF ReadSafe
  <2>2. WasmBut(n, m, p, {"w"}) /\ n.w = [m.w EXCEPT ![r] = value]
    BY ONLY IsWasm(m, p), r \in RegisterNumbers, <2>1, WasmPuts
  <2>3. first = None
    <3>. SUFFICES ASSUME first # None PROVE FALSE
      OBVIOUS
    <3>1. Forbidden(rights, m.acl, address, length, first)
      BY <1>1, <1>3, FirstWithoutIs
    <3>. QED
      BY <1>4, <1>6, <3>1, NoWayAround
  <2>. QED
    BY <1>3, <2>2, <2>3 DEF CanRead, FirstUnreadable
<1>. QED
  BY <1>5, <1>6

\* The store begins again somewhere with bytes that differ from those it should write.
Again(value, address, length) ==
  \E i \in 0 .. length - 1 : ByteOf(value, SourceIndex(address, i)) # ByteOf(value, i)

LEMMA SourceIndexIs ==
  ASSUME NEW address \in Addresses, NEW i \in Nat
  PROVE  SourceIndex(address, i) \in Nat
<1>1. PICK room \in Nat : room = Zp - (address % Zp)
  <2>1. address \in Int /\ Zp \in Nat \ {0}
    BY PagesDivide, WordBits DEF Addresses
  <2>2. PICK offset : offset = address % Zp
    OBVIOUS
  <2>3. offset \in 0 .. Zp - 1
    BY <2>1, <2>2, Rest
  <2>. QED
    BY <2>1, <2>2, <2>3
<1>2. CASE i < room
  BY <1>1, <1>2 DEF SourceIndex
<1>3. CASE ~(i < room)
  <2>1. PICK d \in Nat : d = i - room
    BY <1>1, <1>3
  <2>2. Zp \in Nat \ {0} /\ d \in Int
    BY PagesDivide
  <2>3. d % Zp \in 0 .. Zp - 1
    BY <2>2, Rest
  <2>4. SourceIndex(address, i) = d % Zp
    BY <1>1, <1>3, <2>1 DEF SourceIndex
  <2>. QED
    BY <2>3, <2>4
<1>. QED
  BY <1>2, <1>3

\* What the second interpreter writes are bytes, ...
LEMMA WasmWrittenBytes ==
  ASSUME NEW mem \in [Addresses -> Byte], NEW address \in Addresses, NEW n, NEW value \in Int
  PROVE  WasmWriteAt(mem, address, n, value) \in [Addresses -> Byte]
<1>1. ASSUME NEW a \in Addresses
      PROVE  ByteOf(value, SourceIndex(address, (a - address) % Pow(4))) \in Byte
  <2>1. a - address \in Int
    BY WordBits DEF Addresses
  <2>2. (a - address) % Pow(4) \in Addresses
    BY <2>1, AddressIs
  <2>3. PICK i \in Nat : i = (a - address) % Pow(4)
    BY <2>2, WordBits DEF Addresses
  <2>4. PICK k \in Nat : k = SourceIndex(address, i)
    BY SourceIndexIs
  <2>. QED
    BY <2>3, <2>4, ByteOfIs
<1>. QED
  BY <1>1 DEF WasmWriteAt

\* ... and those of the first, unless the bytes it begins with again differ.
LEMMA WritesAgree ==
  ASSUME NEW mem, NEW address \in Addresses, NEW length \in Nat, NEW value, ~Again(value, address, length)
  PROVE  WasmWriteAt(mem, address, length, value) = WriteAt(mem, address, length, value)
<1>1. ASSUME NEW a \in Addresses, (a - address) % Pow(4) < length
      PROVE  ByteOf(value, SourceIndex(address, (a - address) % Pow(4))) = ByteOf(value, (a - address) % Pow(4))
  <2>1. a - address \in Int
    BY WordBits DEF Addresses
  <2>2. (a - address) % Pow(4) \in Addresses
    BY <2>1, AddressIs
  <2>3. PICK i \in Nat : i = (a - address) % Pow(4)
    BY <2>2, WordBits DEF Addresses
  <2>4. i \in 0 .. length - 1
    BY <1>1, <2>3
  <2>. QED
    BY <2>3, <2>4 DEF Again
<1>. QED
  BY <1>1 DEF WasmWriteAt, WriteAt

LEMMA WasmWrites ==
  ASSUME NEW p, NEW m, IsWasm(m, p), MemoryIsSound(m), NEW address \in Addresses, NEW length \in {1, 2, 4, 8},
         NEW value, NEW n, n = WriteSafe(m, address, length, value)
  PROVE  \/ /\ CanWrite(m.acl, address, length)
            /\ WasmBut(n, m, p, {"mem"}) /\ n.mem = WasmWriteAt(m.mem, address, length, value)
         \/ \E v : /\ v = FirstUnwriteable(m.acl, address, length) /\ ~CanWrite(m.acl, address, length)
                   /\ Forbidden({"write"}, m.acl, address, length, v)
                   /\ WasmBut(n, m, p, {"exit"}) /\ n.exit = Exit("pageFault", v)
<1>. DEFINE rights == {"write"}
<1>0. IsMachine(m)
  BY DEF IsWasm
<1>1. DOMAIN m.acl = Pages /\ length \in Nat \ {0}
  BY DEF MemoryIsSound
<1>2. PICK bad : bad = FirstAbsent(m.acl, address, length, rights)
  OBVIOUS
<1>3. PICK first : first = FirstWithout(rights, m.acl, address, length)
  OBVIOUS
<1>4. bad = IF first = None THEN u32(address + length) ELSE first
  BY <1>1, <1>2, <1>3, SameFault
<1>5. CASE bad # u32(address + length)
  <2>1. n = Leave(m, Exit("pageFault", bad))
    BY <1>2, <1>5 DEF WriteSafe
  <2>2. WasmBut(n, m, p, {"exit"}) /\ n.exit = Exit("pageFault", bad)
    BY <2>1, WasmLeaves
  <2>3. Forbidden(rights, m.acl, address, length, bad)
    BY <1>1, <1>2, <1>5, FirstAbsentIs
  <2>4. first # None /\ bad = first
    BY <1>4, <1>5
  <2>. QED
    BY <1>3, <2>2, <2>3, <2>4 DEF CanWrite, FirstUnwriteable
<1>6. CASE bad = u32(address + length)
  <2>0. PICK mem : mem = WasmWriteAt(m.mem, address, length, value)
    OBVIOUS
  <2>1. n = [m EXCEPT !.mem = mem]
    BY <1>2, <1>6, <2>0 DEF WriteSafe
  <2>2. WasmBut(n, m, p, {"mem"}) /\ n.mem = mem
    BY <1>0, <2>1, ButMem, ButWasm
  <2>3. first = None
    <3>. SUFFICES ASSUME first # None PROVE FALSE
      OBVIOUS
    <3>1. Forbidden(rights, m.acl, address, length, first)
      BY <1>1, <1>3, FirstWithoutIs
    <3>. QED
      BY <1>4, <1>6, <3>1, NoWayAround
  <2>. QED
    BY <1>3, <2>0, <2>2, <2>3 DEF CanWrite, FirstUnwriteable
<1>. QED
  BY <1>5, <1>6

LEMMA NarrowIs ==
  ASSUME NEW n \in {1, 2, 4}, NEW x \in Width(n)
  PROVE  /\ Extend(n, x) = X_fn(n, x)
         /\ x % Pow(n) = x
<1>1. n \in 1 .. 8 /\ n \in Nat
  OBVIOUS
<1>2. Extend(n, x) = X_fn(n, x)
  BY <1>1, ExtendIs
<1>3. Pow(n) \in Nat \ {0} /\ x \in 0 .. Pow(n) - 1
  BY <1>1, PowIs DEF Width
<1>. QED
  BY <1>2, <1>3, SmallRest

LEMMA SignedReads ==
  ASSUME NEW n \in {1, 2, 4}, NEW x \in Width(n)
  PROVE  /\ n = 1 => u64(i8(x)) = Z_inv(8, Z(n, x))
         /\ n = 2 => u64(i16(x)) = Z_inv(8, Z(n, x))
         /\ n = 4 => u64(i32(x)) = Z_inv(8, Z(n, x))
<1>1. n \in Nat /\ x % Pow(n) = x
  BY NarrowIs
<1>2. x \in Int
  BY <1>1, PowIs DEF Width
<1>3. Z(n, x) \in Int
  BY <1>1, <1>2, ZIs
<1>4. u64(Z(n, x)) = Z_inv(8, Z(n, x))
  BY <1>3, WrapIs
<1>5. /\ n = 1 => i8(x) = Z(n, x)
      /\ n = 2 => i16(x) = Z(n, x)
      /\ n = 4 => i32(x) = Z(n, x)
  BY <1>1 DEF i8, i16, i32, u8, u16, u32
<1>. QED
  BY <1>4, <1>5

(* Both interpreters load the same, from the same place.                   *)
LEMMA WasmLoadIs ==
  ASSUME NEW m, WordsAreSound(m), NEW o, OperandsFit(o), NEW op \in Loads,
         NEW n, n = WasmMemory(op, m, o), NEW j, j.w = m.w, j.mem = m.mem
  PROVE  \E address \in Addresses, value \in Register :
            /\ address = (Base(op, m, o) + o.vX) % Pow(4)
            /\ n = ReadSafe(m, address, BytesMoved(op), o.rA, value)
            /\ EvaluateMemory(op, j, o) = LoadAt(j, address, BytesMoved(op), o.rA, value)
<1>1. o.rB \in RegisterNumbers /\ o.vX \in Int
  BY RegisterIs DEF OperandsFit
<1>2. PICK k \in {1, 2, 4, 8} : k = BytesMoved(op)
  BY BytesMovedAre
<1>3. m.w[o.rB] \in Int
  BY <1>1, RegisterIs DEF WordsAreSound
<1>4. m.mem \in [Addresses -> Byte]
  BY DEF WordsAreSound, MemoryIsSound
<1>5. CASE op \in 52 .. 58
  <2>1. PICK address \in Addresses : address = o.vX % Pow(4)
    BY <1>1, AddressIs
  <2>2. PICK read : read = ReadInto(m.mem, address, k)
    OBVIOUS
  <2>3. read \in Width(k) /\ read \in Register
    <3>1. address \in Int
      BY WordBits DEF Addresses
    <3>. QED
      BY <1>4, <2>2, <3>1, ReadIntoWidth
  <2>4. PICK value : value = IF op \in {53, 55, 57} THEN X_fn(k, read) ELSE read
    OBVIOUS
  <2>5. op \in {53, 55, 57} => k \in {1, 2, 4}
    BY <1>2 DEF BytesMoved
  <2>6. value \in Register
    BY <2>3, <2>4, <2>5, SignedRead
  <2>7. address = (Base(op, m, o) + o.vX) % Pow(4)
    <3>1. Base(op, m, o) = 0
      BY <1>5 DEF Base
    <3>2. 0 + o.vX = o.vX
      BY <1>1
    <3>. QED
      BY <2>1, <3>1, <3>2
  <2>8. EvaluateMemory(op, j, o) = LoadAt(j, address, k, o.rA, value)
    <3>1. EvaluateMemory(op, j, o) = LoadImm(op, j, o)
      BY <1>5 DEF EvaluateMemory
    <3>. QED
      BY <1>2, <2>1, <2>2, <2>4, <3>1 DEF LoadImm
  <2>9. n = ReadSafe(m, address, k, o.rA, value)
    <3>1. n = WasmLoadImm(op, m, o)
      BY <1>5 DEF WasmMemory
    <3>2. value = IF op \in {53, 55, 57} THEN Extend(k, read) ELSE read
      BY <2>3, <2>4, <2>5, NarrowIs
    <3>. QED
      BY <1>2, <2>1, <2>2, <3>1, <3>2 DEF WasmLoadImm, u32
  <2>. QED
    BY <1>2, <2>6, <2>7, <2>8, <2>9
<1>6. CASE op \in 124 .. 130
  <2>0. m.w[o.rB] + o.vX \in Int
    BY <1>1, <1>3
  <2>1. PICK address \in Addresses : address = (m.w[o.rB] + o.vX) % Pow(4)
    BY <2>0, AddressIs
  <2>2. PICK read : read = ReadInto(m.mem, address, k)
    OBVIOUS
  <2>3. read \in Width(k) /\ read \in Register
    <3>1. address \in Int
      BY WordBits DEF Addresses
    <3>. QED
      BY <1>4, <2>2, <3>1, ReadIntoWidth
  <2>4. PICK value : value = IF op \in {125, 127, 129} THEN Z_inv(8, Z(k, read)) ELSE read
    OBVIOUS
  <2>5. /\ op = 125 => k = 1
        /\ op = 127 => k = 2
        /\ op = 129 => k = 4
    BY <1>2 DEF BytesMoved
  <2>6. value \in Register
    BY <2>3, <2>4, <2>5, SignedRead
  <2>7. Base(op, m, o) = m.w[o.rB]
    BY <1>6 DEF Base
  <2>8. EvaluateMemory(op, j, o) = LoadAt(j, address, k, o.rA, value)
    <3>1. EvaluateMemory(op, j, o) = LoadInd(op, j, o)
      BY <1>6 DEF EvaluateMemory
    <3>. QED
      BY <1>2, <2>1, <2>2, <2>4, <3>1 DEF LoadInd
  <2>9. n = ReadSafe(m, address, k, o.rA, value)
    <3>1. n = WasmLoadInd(op, m, o)
      BY <1>6 DEF WasmMemory
    <3>2. value = CASE op = 125 -> u64(i8(read))
                    [] op = 127 -> u64(i16(read))
                    [] op = 129 -> u64(i32(read))
                    [] OTHER -> read
      BY <2>3, <2>4, <2>5, SignedReads
    <3>. QED
      BY <1>2, <2>1, <2>2, <3>1, <3>2, Zenon DEF WasmLoadInd, u32
  <2>. QED
    BY <1>2, <2>1, <2>6, <2>7, <2>8, <2>9
<1>. QED
  BY <1>5, <1>6 DEF Loads

(* Both store the same in the same place, but for two kinds of stores.     *)
LEMMA WasmStoreIs ==
  ASSUME NEW m, WordsAreSound(m), NEW o, OperandsFit(o), NEW op \in Stores,
         NEW n, n = WasmMemory(op, m, o), NEW j, j.w = m.w
  PROVE  \E address \in Addresses, value \in Int :
            /\ address = (Base(op, m, o) + o.vX) % Pow(4)
            /\ n = WriteSafe(m, address, BytesMoved(op), value)
            /\ value = StoredValue(op, m, o)
            /\ \/ op = 70
               \/ op \in 30 .. 33 /\ o.vX >= Pow(4)
               \/ EvaluateMemory(op, j, o) = StoreSafe(j, address, BytesMoved(op), value)
<1>1. /\ o.rA \in RegisterNumbers /\ o.rB \in RegisterNumbers
      /\ o.vX \in Int /\ o.vY \in Int /\ 0 + o.vX = o.vX /\ o.vX \in Nat
  BY RegisterIs DEF OperandsFit
<1>2. PICK k \in {1, 2, 4, 8} : k = BytesMoved(op)
  BY BytesMovedAre
<1>3. PICK limit \in Nat \ {0} : limit = Pow(BytesMoved(op))
  <2>1. k \in Nat
    OBVIOUS
  <2>. QED
    BY <1>2, <2>1, PowIs
<1>4. m.w[o.rA] \in Int /\ m.w[o.rB] \in Int
  BY <1>1, RegisterIs DEF WordsAreSound
<1>5. ASSUME NEW a \in Int PROVE a % limit \in Int
  <2>. a % limit \in 0 .. limit - 1
    BY Rest
  <2>. QED
    OBVIOUS
<1>6. PICK address : address = (Base(op, m, o) + o.vX) % Pow(4)
  OBVIOUS
<1>7. CASE op \in 30 .. 33
  <2>1. Base(op, m, o) = 0
    BY <1>7 DEF Base
  <2>2. address = o.vX % Pow(4) /\ address \in Addresses
    BY <1>1, <1>6, <2>1, AddressIs
  <2>3. n = WriteSafe(m, address, BytesMoved(op), o.vY % limit)
    BY <1>3, <1>7, <2>2 DEF WasmMemory, WasmStoreImm, u32
  <2>4. ASSUME ~(o.vX >= Pow(4)) PROVE EvaluateMemory(op, j, o) = StoreSafe(j, address, BytesMoved(op), o.vY % limit)
    <3>1. PICK x \in Nat, w \in Nat \ {0} : x = o.vX /\ w = Pow(4) /\ x < w
      BY <1>1, <2>4, WordBits
    <3>2. x % w = x
      BY <3>1, SmallRest
    <3>3. 2^FloatBits \in Nat /\ w <= 2^FloatBits
      BY <3>1, WordBits, WidthsAssumption, WordsAssumption, PowersGrow, Doubling
    <3>4. Float(x) = x
      <4>1. x \in Register /\ x < 2^FloatBits
        BY <3>1, <3>3 DEF OperandsFit
      <4>. QED
        BY <4>1, FloatIs
    <3>5. address = Float(o.vX)
      BY <2>2, <3>1, <3>2, <3>4
    <3>6. EvaluateMemory(op, j, o) = StoreImm(op, j, o)
      BY <1>7 DEF EvaluateMemory
    <3>. QED
      BY <1>3, <3>5, <3>6 DEF StoreImm
  <2>5. StoredValue(op, m, o) = o.vY % limit
    BY <1>3, <1>7 DEF StoredValue
  <2>. QED
    BY <1>1, <1>5, <1>6, <1>7, <2>2, <2>3, <2>4, <2>5
<1>8. CASE op \in 59 .. 62
  <2>1. Base(op, m, o) = 0
    BY <1>8 DEF Base
  <2>2. address = o.vX % Pow(4) /\ address \in Addresses
    BY <1>1, <1>6, <2>1, AddressIs
  <2>3. n = WriteSafe(m, address, BytesMoved(op), m.w[o.rA] % limit)
    BY <1>3, <1>8, <2>2 DEF WasmMemory, WasmStoreReg, u32
  <2>4. EvaluateMemory(op, j, o) = StoreSafe(j, address, BytesMoved(op), m.w[o.rA] % limit)
    BY <1>3, <1>8, <2>2 DEF EvaluateMemory, StoreReg
  <2>5. StoredValue(op, m, o) = m.w[o.rA] % limit
    BY <1>3, <1>8 DEF StoredValue
  <2>. QED
    BY <1>4, <1>5, <1>6, <2>2, <2>3, <2>4, <2>5
<1>9. CASE op \in 70 .. 73
  <2>1. Base(op, m, o) = m.w[o.rA]
    BY <1>9 DEF Base
  <2>2. address = (m.w[o.rA] + o.vX) % Pow(4) /\ address \in Addresses
    <3>1. m.w[o.rA] + o.vX \in Int
      BY <1>1, <1>4
    <3>. QED
      BY <1>6, <2>1, <3>1, AddressIs
  <2>3. n = WriteSafe(m, address, BytesMoved(op), o.vY % limit)
    BY <1>3, <1>9, <2>2 DEF WasmMemory, WasmStoreImmInd, u32
  <2>4. ASSUME op # 70 PROVE EvaluateMemory(op, j, o) = StoreSafe(j, address, BytesMoved(op), o.vY % limit)
    BY <1>3, <1>9, <2>2, <2>4 DEF EvaluateMemory, StoreImmInd
  <2>5. StoredValue(op, m, o) = o.vY % limit
    BY <1>3, <1>9 DEF StoredValue
  <2>. QED
    BY <1>1, <1>5, <1>6, <2>2, <2>3, <2>4, <2>5
<1>10. CASE op \in 120 .. 123
  <2>1. Base(op, m, o) = m.w[o.rB]
    BY <1>10 DEF Base
  <2>2. address = (m.w[o.rB] + o.vX) % Pow(4) /\ address \in Addresses
    <3>1. m.w[o.rB] + o.vX \in Int
      BY <1>1, <1>4
    <3>. QED
      BY <1>6, <2>1, <3>1, AddressIs
  <2>3. n = WriteSafe(m, address, BytesMoved(op), m.w[o.rA] % limit)
    BY <1>3, <1>10, <2>2 DEF WasmMemory, WasmStoreInd, u32
  <2>4. EvaluateMemory(op, j, o) = StoreSafe(j, address, BytesMoved(op), m.w[o.rA] % limit)
    BY <1>3, <1>10, <2>2 DEF EvaluateMemory, StoreInd
  <2>5. StoredValue(op, m, o) = m.w[o.rA] % limit
    BY <1>3, <1>10 DEF StoredValue
  <2>. QED
    BY <1>4, <1>5, <1>6, <2>2, <2>3, <2>4, <2>5
<1>. QED
  BY <1>7, <1>8, <1>9, <1>10 DEF Stores

(* What both interpreters keep of a machine: words and bytes, a right for  *)
(* every page, a heap that ends with a page.                               *)
Sound(m) ==
  /\ WordsAreSound(m)
  /\ m.acl = [page \in Pages |-> m.acl[page]]
  /\ m.heap = [end |-> m.heap.end, pointer |-> m.heap.pointer]
  /\ m.heap.end \in Nat /\ m.heap.pointer \in Nat
  /\ m.heap.end % Zp = 0

LEMMA WasmSbrkIs ==
  ASSUME NEW p, NEW m, IsWasm(m, p), NEW o, OperandsFit(o), NEW n, n = WasmSbrk(m, o),
         NEW size, size = u32(m.w[o.rA]),
         NEW cnt, cnt = IF u32(m.heap.pointer + size) >= m.heap.end THEN (size + Zp - 1) \div Zp ELSE 0
  PROVE  /\ WasmBut(n, m, p, {"acl", "mem", "heap", "w"})
         /\ Taken(n, m, TakenPages(m, cnt))
         /\ n.heap = [end |-> u32(m.heap.end + cnt * Zp), pointer |-> u32(m.heap.pointer + size)]
         /\ n.w = [m.w EXCEPT ![o.rD] = m.heap.pointer]
<1>0. IsMachine(m) /\ o.rD \in RegisterNumbers
  BY DEF IsWasm, OperandsFit
<1>1. PICK new : new = TakenPages(m, cnt)
  OBVIOUS
<1>2. PICK acl : acl = [page \in Pages |-> IF page \in new THEN "write" ELSE m.acl[page]]
  OBVIOUS
<1>3. PICK mem : mem = [a \in Addresses |-> IF a \div Zp \in new THEN 0 ELSE m.mem[a]]
  OBVIOUS
<1>4. PICK heap : heap = [end |-> u32(m.heap.end + cnt * Zp), pointer |-> u32(m.heap.pointer + size)]
  OBVIOUS
<1>10. PICK v : v = m.heap.pointer
  OBVIOUS
<1>5. PICK r \in RegisterNumbers : r = o.rD /\ v = m.heap.pointer
  BY <1>0, <1>10
<1>6. n = [m EXCEPT !.acl = acl, !.mem = mem, !.heap = heap, !.w[r] = v]
  BY <1>1, <1>2, <1>3, <1>4, <1>5, Zenon DEF WasmSbrk, TakenPages
<1>7. /\ But(n, m, {"acl", "mem", "heap", "w"})
      /\ n.acl = acl /\ n.mem = mem /\ n.heap = heap /\ n.w = [m.w EXCEPT ![r] = v]
  <2>1. PICK m1 : m1 = [m EXCEPT !.acl = acl, !.mem = mem, !.heap = heap]
    OBVIOUS
  <2>2. But(m1, m, {"acl", "mem", "heap"}) /\ m1.acl = acl /\ m1.mem = mem /\ m1.heap = heap /\ m1.w = m.w
    BY ONLY <1>0, <2>1 DEF But, IsMachine, Parts
  <2>3. n = [m1 EXCEPT !.w[r] = v]
    BY <1>6, <2>1
  <2>4. IsMachine(m1)
    BY <2>2 DEF But
  <2>5. But(n, m1, {"w"}) /\ n.w = [m1.w EXCEPT ![r] = v]
    BY ONLY <2>3, <2>4, r \in RegisterNumbers, ButRegister
  <2>6. n.acl = m1.acl /\ n.mem = m1.mem /\ n.heap = m1.heap
    BY <2>4, <2>5, ButParts
  <2>7. But(n, m, {"acl", "mem", "heap"} \cup {"w"})
    BY <2>2, <2>5, ButThen
  <2>8. But(n, m, {"acl", "mem", "heap", "w"})
    BY <2>7 DEF But
  <2>. QED
    BY <2>2, <2>5, <2>6, <2>8
<1>8. WasmBut(n, m, p, {"acl", "mem", "heap", "w"})
  BY <1>7, ButWasm
<1>. QED
  BY <1>1, <1>2, <1>3, <1>4, <1>5, <1>7, <1>8 DEF Taken

LEMMA TakenIsSound ==
  ASSUME NEW m, Sound(m), NEW n, NEW new, Taken(n, m, new)
  PROVE  MemoryIsSound(n) /\ n.acl = [page \in Pages |-> n.acl[page]]
<1>1. 0 \in Byte
  <2>1. 1 \in Nat
    OBVIOUS
  <2>2. Pow(1) \in Nat \ {0}
    BY <2>1, PowIs
  <2>. QED
    BY <2>2 DEF Byte, Width
<1>2. n.mem \in [Addresses -> Byte]
  BY <1>1 DEF Sound, WordsAreSound, MemoryIsSound, Taken
<1>3. DOMAIN n.acl = Pages /\ n.acl = [page \in Pages |-> n.acl[page]]
  BY DEF Taken
<1>. QED
  BY <1>2, <1>3 DEF MemoryIsSound

(* How many pages a size needs, and how many bytes these have.             *)
LEMMA PagesNeeded ==
  ASSUME NEW size \in Nat, NEW cnt, cnt = (size + Zp - 1) \div Zp
  PROVE  cnt \in Nat /\ cnt * Zp \in Nat /\ size <= cnt * Zp /\ cnt * Zp = Zp * cnt
         /\ (size = 0 => cnt = 0)
<1>1. PICK z \in Nat \ {0} : z = Zp
  BY PagesDivide
<1>2. PICK a \in Nat : a = size + z - 1
  OBVIOUS
<1>3. PICK q \in Nat : q = a \div z
  <2>1. a \div z \in 0 .. a
    BY QuotientAtMost
  <2>. QED
    BY <2>1
<1>4. PICK r \in 0 .. z - 1 : a = z * q + r
  <2>1. a \in Int
    OBVIOUS
  <2>2. a % z \in 0 .. z - 1 /\ a = z * (a \div z) + (a % z)
    BY <2>1, Rest
  <2>. QED
    BY <1>3, <2>2
<1>5. z * q \in Nat /\ q * z \in Nat /\ z * q = q * z
  BY Products
<1>6. PICK t \in Nat : t = z * q
  BY <1>5
<1>7. size <= t
  BY ONLY <1>2, <1>4, <1>6, t \in Nat, r \in 0 .. z - 1, z \in Nat, size \in Nat, a \in Nat
<1>8. size = 0 => q = 0
  <2>. SUFFICES ASSUME size = 0 PROVE q = 0
    OBVIOUS
  <2>1. a \in 0 .. z - 1
    BY <1>2
  <2>. QED
    BY <1>3, <2>1, SmallRest
<1>. QED
  BY <1>1, <1>2, <1>3, <1>5, <1>6, <1>7, <1>8

LEMMA EndsWithPage ==
  ASSUME NEW end \in Nat, end % Zp = 0, NEW cnt \in Nat
  PROVE  /\ end + cnt * Zp \in Nat
         /\ (end + cnt * Zp) % Zp = 0
         /\ u32(end + cnt * Zp) % Zp = 0
<1>1. PICK z \in Nat \ {0}, w \in Nat \ {0} : z = Zp /\ w = Pow(4) /\ w % z = 0
  BY PagesDivide, PagesAssumption
<1>2. PICK t \in Nat : t = end + z * cnt /\ t = end + cnt * z
  <2>1. z * cnt \in Nat /\ z * cnt = cnt * z
    BY Products
  <2>. QED
    BY <2>1
<1>3. end \in Int /\ cnt \in Int /\ t \in Int
  OBVIOUS
<1>4. (end + z * cnt) % z = end % z
  BY <1>3, RestOfSum
<1>5. t % z = 0
  BY <1>1, <1>2, <1>4
<1>6. (t % w) % z = 0
  BY <1>1, <1>3, <1>5, RestByDivisor
<1>. QED
  BY <1>1, <1>2, <1>5, <1>6 DEF u32

(* A word put into a register.                                             *)
LEMMA WordsStay ==
  ASSUME NEW m, IsMachine(m), NEW n, NEW r \in RegisterNumbers, NEW v \in Register,
         \A i \in RegisterNumbers : m.w[i] \in Register, n.w = [m.w EXCEPT ![r] = v]
  PROVE  \A i \in RegisterNumbers : n.w[i] \in Register
BY DEF IsMachine

(* The heap is within the addresses, as its words of 4 bytes say.          *)
WithinWords(m) == m.heap.end <= Pow(4) /\ m.heap.pointer < Pow(4)

WasmSound(m, p) ==
  /\ IsWasm(m, p) /\ Sound(m) /\ WithinWords(m)
  /\ m.pc \in Nat /\ m.gas \in Nat

\* The rights a load or a store asks for.
Needed(op) == IF op \in Loads THEN {"read", "write"} ELSE {"write"}

\* The operand's address, which the instruction reduces to a word.
Address(op, m, o) == (Base(op, m, o) + o.vX) % Pow(4)

\* The run ends with a fault at a page the instruction touches and may not use.
Faulted(n, m, op, o) ==
  \E v : /\ n.exit = Exit("pageFault", v)
         /\ Forbidden(Needed(op), m.acl, Address(op, m, o), BytesMoved(op), v)

LEMMA SoundWithRegister ==
  ASSUME NEW m, IsMachine(m), Sound(m), NEW n, But(n, m, {"w"}), NEW r \in RegisterNumbers, NEW v \in Register,
         n.w = [m.w EXCEPT ![r] = v]
  PROVE  Sound(n)
<1>1. n.acl = m.acl /\ n.mem = m.mem /\ n.heap = m.heap
  BY ButParts
<1>2. \A i \in RegisterNumbers : n.w[i] \in Register
  BY WordsStay DEF Sound, WordsAreSound
<1>. QED
  BY <1>1, <1>2 DEF Sound, WordsAreSound, MemoryIsSound

LEMMA SoundWithBytes ==
  ASSUME NEW m, IsMachine(m), Sound(m), NEW n, But(n, m, {"mem"}), NEW address \in Int, NEW length, NEW v \in Int,
         n.mem = WriteAt(m.mem, address, length, v)
  PROVE  Sound(n)
<1>1. n.acl = m.acl /\ n.w = m.w /\ n.heap = m.heap
  BY ButParts
<1>2. n.mem \in [Addresses -> Byte]
  <2>1. PICK mem \in [Addresses -> Byte] : mem = m.mem
    BY DEF Sound, WordsAreSound, MemoryIsSound
  <2>2. 0 \in Addresses
    BY PagesDivide DEF Addresses
  <2>3. WriteAt(mem, address, length, v) \in [Addresses -> Byte]
    BY <2>2, WrittenBytes
  <2>. QED
    BY <2>1, <2>3
<1>. QED
  BY <1>1, <1>2 DEF Sound, WordsAreSound, MemoryIsSound

LEMMA SoundElsewhere ==
  ASSUME NEW m, IsMachine(m), Sound(m), NEW n, NEW s, But(n, m, s),
         s \cap {"w", "acl", "mem", "heap"} = {}
  PROVE  Sound(n) /\ n.heap = m.heap
<1>1. n.acl = m.acl /\ n.w = m.w /\ n.heap = m.heap /\ n.mem = m.mem
  BY ButParts
<1>. QED
  BY <1>1 DEF Sound, WordsAreSound, MemoryIsSound

LEMMA WasmSbrkSound ==
  ASSUME NEW p, NEW m, WasmSound(m, p), NEW o, OperandsFit(o), NEW n, n = WasmSbrk(m, o)
  PROVE  /\ WasmBut(n, m, p, {"acl", "mem", "heap", "w"})
         /\ Sound(n) /\ WithinWords(n)
<1>1. IsMachine(m) /\ IsWasm(m, p) /\ Sound(m)
  BY DEF WasmSound, IsWasm
<1>2. PICK size \in Nat : size = u32(m.w[o.rA])
  <2>1. m.w[o.rA] \in Int
    BY <1>1, RegisterIs DEF Sound, WordsAreSound, OperandsFit
  <2>2. u32(m.w[o.rA]) \in Nat
    BY <2>1, RestWidth DEF u32
  <2>. QED
    BY <2>2
<1>3. PICK needed \in Nat : needed = (size + Zp - 1) \div Zp
  BY PagesNeeded
<1>4. PICK cnt \in Nat : cnt = IF u32(m.heap.pointer + size) >= m.heap.end THEN needed ELSE 0
  OBVIOUS
<1>5. /\ WasmBut(n, m, p, {"acl", "mem", "heap", "w"})
      /\ Taken(n, m, TakenPages(m, cnt))
      /\ n.heap = [end |-> u32(m.heap.end + cnt * Zp), pointer |-> u32(m.heap.pointer + size)]
      /\ n.w = [m.w EXCEPT ![o.rD] = m.heap.pointer]
  <2>1. size = u32(m.w[o.rA])
    BY <1>2
  <2>2. cnt = IF u32(m.heap.pointer + size) >= m.heap.end THEN (size + Zp - 1) \div Zp ELSE 0
    BY <1>3, <1>4
  <2>. QED
    BY <1>1, <2>1, <2>2, WasmSbrkIs
<1>6. PICK end \in Nat, pointer \in Nat : end = m.heap.end /\ pointer = m.heap.pointer /\ end % Zp = 0
  BY <1>1 DEF Sound
<1>7. end + cnt * Zp \in Nat /\ u32(end + cnt * Zp) % Zp = 0
  BY <1>6, EndsWithPage
<1>8. PICK a \in Nat, b \in Nat : a = u32(end + cnt * Zp) /\ b = u32(pointer + size) /\ a < Pow(4) /\ b < Pow(4)
  <2>1. pointer + size \in Int /\ end + cnt * Zp \in Int
    BY <1>7
  <2>2. u32(end + cnt * Zp) \in Addresses /\ u32(pointer + size) \in Addresses
    BY <2>1, AddressIs DEF u32
  <2>. QED
    BY <2>2, WordBits DEF Addresses
<1>9. n.heap.end = a /\ n.heap.pointer = b /\ a % Zp = 0 /\ n.heap = [end |-> a, pointer |-> b]
  BY <1>5, <1>6, <1>7, <1>8
<1>10. MemoryIsSound(n) /\ n.acl = [page \in Pages |-> n.acl[page]]
  BY <1>1, <1>5, TakenIsSound
<1>11. \A i \in RegisterNumbers : n.w[i] \in Register
  <2>1. m.heap.pointer \in Register
    <3>1. pointer < Pow(4)
      BY <1>6 DEF WasmSound, WithinWords
    <3>. QED
      BY <1>6, <3>1, WordBits DEF Register, Width
  <2>2. o.rD \in RegisterNumbers
    BY DEF OperandsFit
  <2>3. \A i \in RegisterNumbers : m.w[i] \in Register
    BY <1>1 DEF Sound, WordsAreSound
  <2>. QED
    BY <1>1, <1>5, <2>1, <2>2, <2>3, WordsStay
<1>12. Sound(n)
  BY <1>9, <1>10, <1>11 DEF Sound, WordsAreSound
<1>13. WithinWords(n)
  BY <1>8, <1>9, WordBits DEF WithinWords
<1>. QED
  BY <1>5, <1>12, <1>13

LEMMA WasmMemoryIs ==
  ASSUME NEW p, NEW m, WasmSound(m, p), NEW o, OperandsFit(o), NEW op \in MemoryOpcodes,
         NEW n, n = WasmMemory(op, m, o)
  PROVE  \/ /\ WasmBut(n, m, p, {"acl", "mem", "heap", "w"})
            /\ Sound(n) /\ WithinWords(n)
         \/ /\ WasmBut(n, m, p, {"exit"})
            /\ op \in Loads \cup Stores
            /\ Faulted(n, m, op, o)
<1>1. IsMachine(m) /\ IsWasm(m, p) /\ Sound(m) /\ WordsAreSound(m) /\ MemoryIsSound(m) /\ WithinWords(m)
  BY DEF WasmSound, IsWasm, Sound, WordsAreSound
<1>2. CASE op \in Loads
  <2>1. PICK address \in Addresses, value \in Register :
           /\ address = Address(op, m, o)
           /\ n = ReadSafe(m, address, BytesMoved(op), o.rA, value)
    <3>. m.w = m.w /\ m.mem = m.mem
      OBVIOUS
    <3>. QED
      BY <1>1, <1>2, WasmLoadIs DEF Address
  <2>2. BytesMoved(op) \in {1, 2, 4, 8} /\ o.rA \in RegisterNumbers
    BY <1>2, BytesMovedAre DEF OperandsFit
  <2>3. \/ WasmBut(n, m, p, {"w"}) /\ n.w = [m.w EXCEPT ![o.rA] = value]
        \/ \E v : /\ Forbidden({"read", "write"}, m.acl, address, BytesMoved(op), v)
                  /\ WasmBut(n, m, p, {"exit"}) /\ n.exit = Exit("pageFault", v)
    BY <1>1, <2>1, <2>2, WasmReads
  <2>4. CASE WasmBut(n, m, p, {"w"}) /\ n.w = [m.w EXCEPT ![o.rA] = value]
    <3>1. /\ IsMachine(n) /\ n.acl = m.acl /\ n.mem = m.mem /\ n.heap = m.heap
      BY <1>1, <2>4, WasmParts
    <3>2. \A i \in RegisterNumbers : n.w[i] \in Register
      BY <1>1, <2>2, <2>4, WordsStay DEF WordsAreSound
    <3>3. Sound(n) /\ WithinWords(n)
      BY <1>1, <3>1, <3>2 DEF Sound, WordsAreSound, MemoryIsSound, WithinWords
    <3>. QED
      BY <2>4, <3>3 DEF WasmBut, But
  <2>5. ASSUME NEW v, Forbidden({"read", "write"}, m.acl, address, BytesMoved(op), v),
               WasmBut(n, m, p, {"exit"}), n.exit = Exit("pageFault", v)
        PROVE  WasmBut(n, m, p, {"exit"}) /\ op \in Loads \cup Stores /\ Faulted(n, m, op, o)
    BY <1>2, <2>1, <2>5 DEF Faulted, Needed
  <2>. QED
    BY <2>3, <2>4, <2>5
<1>3. CASE op \in Stores
  <2>1. PICK address \in Addresses, value \in Int :
           /\ address = Address(op, m, o)
           /\ n = WriteSafe(m, address, BytesMoved(op), value)
    <3>. m.w = m.w
      OBVIOUS
    <3>. QED
      BY <1>1, <1>3, WasmStoreIs DEF Address
  <2>2. BytesMoved(op) \in {1, 2, 4, 8}
    BY <1>3, BytesMovedAre
  <2>3. \/ WasmBut(n, m, p, {"mem"}) /\ n.mem = WasmWriteAt(m.mem, address, BytesMoved(op), value)
        \/ \E v : /\ Forbidden({"write"}, m.acl, address, BytesMoved(op), v)
                  /\ WasmBut(n, m, p, {"exit"}) /\ n.exit = Exit("pageFault", v)
    BY <1>1, <2>1, <2>2, WasmWrites
  <2>4. CASE WasmBut(n, m, p, {"mem"}) /\ n.mem = WasmWriteAt(m.mem, address, BytesMoved(op), value)
    <3>1. /\ IsMachine(n) /\ n.acl = m.acl /\ n.w = m.w /\ n.heap = m.heap
      BY <1>1, <2>4, WasmParts
    <3>2. n.mem \in [Addresses -> Byte]
      <4>1. m.mem \in [Addresses -> Byte]
        BY <1>1 DEF MemoryIsSound
      <4>. QED
        BY <2>4, <4>1, WasmWrittenBytes
    <3>3. Sound(n) /\ WithinWords(n)
      BY <1>1, <3>1, <3>2 DEF Sound, WordsAreSound, MemoryIsSound, WithinWords
    <3>. QED
      BY <2>4, <3>3 DEF WasmBut, But
  <2>5. ASSUME NEW v, Forbidden({"write"}, m.acl, address, BytesMoved(op), v),
               WasmBut(n, m, p, {"exit"}), n.exit = Exit("pageFault", v)
        PROVE  WasmBut(n, m, p, {"exit"}) /\ op \in Loads \cup Stores /\ Faulted(n, m, op, o)
    <3>1. op \notin Loads
      BY <1>3 DEF Loads, Stores
    <3>. QED
      BY <1>3, <2>1, <2>5, <3>1 DEF Faulted, Needed
  <2>. QED
    BY <2>3, <2>4, <2>5
<1>4. CASE op = 101
  <2>1. n = WasmSbrk(m, o)
    BY <1>4 DEF WasmMemory
  <2>. QED
    BY <2>1, WasmSbrkSound
<1>. QED
  BY <1>2, <1>3, <1>4 DEF MemoryOpcodes

-----------------------------------------------------------------------------
(***************************************************************************)
(* Jumps of both agree.                                                    *)
(***************************************************************************)

(* The constructor of the first interpreter finds every beginning.         *)
LEMMA BeginningsFound ==
  ASSUME NEW p, IsProgram(p), NEW i
  PROVE  IsBlockBeginning(IxPointerCache(p), i) <=> i \in BlockStarts(p)
<1>. DEFINE opcodes == {x \in 0 .. p.len - 1 : p.k[x] = 1}
            Terminated(x) ==
              IF x = 0 THEN TRUE
              ELSE LET last == CHOOSE q \in 0 .. x - 1 :
                                  (q = 0 \/ p.k[q] = 1) /\ \A r \in q + 1 .. x - 1 : p.k[r] = 0
                   IN  p.c[last] \in BlockTerminators
            terminated == [x \in 0 .. p.len - 1 |-> Terminated(x)]
<1>. SUFFICES ASSUME i \in BlockStarts(p) PROVE IsBlockBeginning(IxPointerCache(p), i)
  BY Beginnings
<1>1. i \in opcodes /\ i \in Positions(p)
  BY DEF BlockStarts, Positions
<1>2. IxPointerCache(p) = [x \in opcodes |-> [opCode |-> p.c[x],
                                              skip |-> NextOpcode(p, x) - x - 1,
                                              isBlockBeginning |-> terminated[x]]]
  BY Zenon DEF IxPointerCache
<1>3. IxPointerCache(p)[i].isBlockBeginning = Terminated(i) /\ i \in DOMAIN IxPointerCache(p)
  <2>. HIDE DEF Terminated
  <2>1. terminated[i] = Terminated(i)
    BY <1>1 DEF Positions
  <2>. HIDE DEF opcodes, terminated
  <2>. QED
    BY <1>1, <1>2, <2>1
<1>4. Terminated(i)
  <2>1. CASE i = 0
    BY <2>1
  <2>2. CASE i # 0
    <3>. DEFINE IsLast(q) == (q = 0 \/ p.k[q] = 1) /\ \A r \in q + 1 .. i - 1 : p.k[r] = 0
    <3>1. PICK last : last = CHOOSE q \in 0 .. i - 1 : IsLast(q)
      OBVIOUS
    <3>2. last \in 0 .. i - 1 /\ IsLast(last)
      <4>1. \E q \in 0 .. i - 1 : IsLast(q)
        BY <1>1, <2>2, EarlierOpcode
      <4>. HIDE DEF IsLast
      <4>. QED
        BY <3>1, <4>1
    <3>3. p.c[last] \in BlockTerminators
      BY <1>1, <2>2, <3>2, BlockStartIs
    <3>. QED
      BY <2>2, <3>1, <3>3, Zenon
  <2>. QED
    BY <2>1, <2>2
<1>. HIDE DEF Terminated, terminated, opcodes
<1>. QED
  BY <1>3, <1>4 DEF IsBlockBeginning

(* Where a jump of the first interpreter ends.                             *)
LandedJs(n, m, p, pc) ==
  \/ pc \in BlockStarts(p) /\ But(n, m, {"pc"}) /\ n.pc = pc
  \/ pc \notin BlockStarts(p) /\ But(n, m, {"exit"}) /\ n.exit = Panic

LEMMA BranchLands ==
  ASSUME NEW p, IsProgram(p), NEW m, IsMachine(m), NEW address, NEW condition \in BOOLEAN, NEW skip,
         NEW n, n = Branch(m, IxPointerCache(p), address, condition, skip)
  PROVE  IF condition THEN LandedJs(n, m, p, address)
         ELSE But(n, m, {"pc"}) /\ n.pc = m.pc + skip
<1>1. CASE condition /\ address \in BlockStarts(p)
  <2>1. n = [m EXCEPT !.pc = address]
    BY <1>1, BeginningsFound DEF Branch
  <2>2. But(n, m, {"pc"}) /\ n.pc = address
    BY <2>1, ButPc
  <2>. QED
    BY <1>1, <2>2 DEF LandedJs
<1>2. CASE condition /\ address \notin BlockStarts(p)
  <2>1. n = Leave(m, Panic)
    BY <1>2, BeginningsFound DEF Branch
  <2>. QED
    BY <1>2, <2>1, LeaveIs DEF LandedJs
<1>3. CASE ~condition
  <2>1. n = [m EXCEPT !.pc = m.pc + skip]
    BY <1>3 DEF Branch
  <2>. QED
    BY <1>3, <2>1, ButPc
<1>. QED
  BY <1>1, <1>2, <1>3

LEMMA DjumpLands ==
  ASSUME NEW p, IsProgram(p), NEW m, IsMachine(m), NEW a, NEW n, n = Djump(m, p, IxPointerCache(p), a)
  PROVE  /\ a = HaltAddress => But(n, m, {"exit"}) /\ n.exit = Exit("halt", 0)
         /\ a # HaltAddress /\ ~Entry(p, a) => But(n, m, {"exit"}) /\ n.exit = Panic
         /\ Entry(p, a) => LandedJs(n, m, p, p.j[a \div 2])
<1>. DEFINE target == p.j[a \div 2]
<1>1. CASE a = HaltAddress
  <2>1. n = Leave(m, Exit("halt", 0))
    BY <1>1 DEF Djump
  <2>. QED
    BY <1>1, <2>1, LeaveIs DEF Entry
<1>2. CASE Entry(p, a) /\ target \in BlockStarts(p)
  <2>1. n = [m EXCEPT !.pc = target]
    BY <1>2, BeginningsFound DEF Djump, Entry, ZA
  <2>. QED
    BY ZenonT(30), <1>2, <2>1, ButPc DEF LandedJs, Entry
<1>3. CASE Entry(p, a) /\ target \notin BlockStarts(p)
  <2>1. n = Leave(m, Panic)
    BY <1>3, BeginningsFound DEF Djump, Entry, ZA
  <2>. QED
    BY <1>3, <2>1, LeaveIs DEF LandedJs, Entry
<1>4. CASE a # HaltAddress /\ ~Entry(p, a)
  <2>1. n = Leave(m, Panic)
    BY <1>4 DEF Djump, Entry, ZA
  <2>. QED
    BY <1>4, <2>1, LeaveIs
<1>. QED
  BY <1>1, <1>2, <1>3, <1>4

(* A jump of both interpreters, from m in the second to n, and to nj in    *)
(* the first.                                                              *)
Outcome(n, m, nj, p) ==
  /\ WasmBut(n, m, p, {"pc", "exit"})
  /\ n.pc \in {m.pc, NextOpcode(p, m.pc)} \cup BlockStarts(p)
  /\ n.exit = m.exit \/ n.exit.why \in {"abort", "panic", "halt"}
  /\ \/ n.exit = Abort
     \/ p.len > Half32
     \/ nj.pc = n.pc /\ nj.exit = n.exit

LEMMA ExitsAre ==
  /\ Panic.why = "panic" /\ Abort.why = "abort" /\ Exit("halt", 0).why = "halt" /\ Running.why = "running"
  /\ Panic # Abort /\ Running # Abort
BY DEF Panic, Abort, Exit, Running

LEMMA BothLand ==
  ASSUME NEW p, NEW m, IsMachine(m), NEW j, IsMachine(j), j.pc = m.pc, j.exit = m.exit,
         NEW u \in Nat, NEW t, NEW n, Landed(n, m, p, u), NEW nj, LandedJs(nj, j, p, t),
         IsProgram(p), u = t \/ u >= p.len \/ p.len > Half32
  PROVE  Outcome(n, m, nj, p)
<1>0. p.len \in Nat
  BY ProgramIs
<1>1. CASE u >= p.len /\ WasmBut(n, m, p, {"exit"}) /\ n.exit = Abort
  <2>1. n.pc = m.pc /\ WasmBut(n, m, p, {"pc", "exit"})
    BY <1>1, WasmParts DEF WasmBut, But
  <2>. QED
    BY <1>1, <2>1, ExitsAre DEF Outcome
<1>2. CASE u \in BlockStarts(p) /\ WasmBut(n, m, p, {"pc"}) /\ n.pc = u
  <2>1. n.exit = m.exit /\ WasmBut(n, m, p, {"pc", "exit"})
    BY <1>2, WasmParts DEF WasmBut, But
  <2>2. u = t \/ p.len > Half32
    <3>. SUFFICES ASSUME u >= p.len PROVE p.len > Half32
      OBVIOUS
    <3>1. u \in 0 .. p.len - 1
      BY <1>2 DEF BlockStarts
    <3>. QED
      BY <1>0, <3>1
  <2>3. u = t => nj.pc = n.pc /\ nj.exit = n.exit
    BY <1>2, <2>1, ButParts DEF LandedJs
  <2>. QED
    BY <1>2, <2>1, <2>2, <2>3 DEF Outcome
<1>3. CASE u < p.len /\ u \notin BlockStarts(p) /\ WasmBut(n, m, p, {"exit"}) /\ n.exit = Panic
  <2>1. n.pc = m.pc /\ WasmBut(n, m, p, {"pc", "exit"})
    BY <1>3, WasmParts DEF WasmBut, But
  <2>2. u = t => nj.pc = n.pc /\ nj.exit = n.exit
    BY <1>3, <2>1, ButParts DEF LandedJs
  <2>. QED
    BY <1>0, <1>3, <2>1, <2>2, ExitsAre DEF Outcome
<1>. QED
  BY <1>1, <1>2, <1>3 DEF Landed

(* An offset cannot lead around all addresses into a program that fills    *)
(* half of them at most.                                                   *)
LEMMA TargetIs ==
  ASSUME NEW p, IsProgram(p), NEW pc \in Positions(p), NEW z \in Offsets
  PROVE  /\ u32(pc + z) \in Nat
         /\ u32(pc + z) = pc + z \/ u32(pc + z) >= p.len \/ p.len > Half32
<1>1. PICK h \in Nat \ {0} : h = Half32 /\ Pow(4) = 2 * h
  BY HalfIs
<1>2. PICK w \in Nat \ {0} : w = Pow(4) /\ w = 2 * h
  BY <1>1
<1>3. p.len \in Nat /\ pc \in Nat /\ pc < p.len
  BY ProgramIs DEF Positions
<1>4. PICK t \in Int : t = pc + z /\ -h <= t /\ t < p.len + h
  BY <1>1, <1>3 DEF Offsets
<1>5. t % w \in 0 .. w - 1
  BY Rest
<1>6. CASE t < 0
  <2>1. t + w \in 0 .. w - 1
    BY <1>2, <1>4, <1>6
  <2>2. (t + w) % w = t + w
    BY <2>1, SmallRest
  <2>3. (t + w) % w = t % w
    BY OneMore
  <2>4. t % w >= h
    BY <1>2, <1>4, <2>2, <2>3
  <2>. QED
    BY <1>1, <1>2, <1>3, <1>4, <1>5, <2>4 DEF u32
<1>7. CASE 0 <= t /\ p.len <= h
  <2>1. t \in 0 .. w - 1
    BY <1>2, <1>3, <1>4, <1>7
  <2>2. t % w = t
    BY <2>1, SmallRest
  <2>. QED
    BY <1>2, <1>4, <1>5, <2>2 DEF u32
<1>8. CASE ~(p.len <= h)
  BY <1>1, <1>2, <1>3, <1>4, <1>5, <1>8 DEF u32
<1>. QED
  BY <1>6, <1>7, <1>8

\* The length of the instruction at pc.
SkipIs(skip, p, pc) == skip = NextOpcode(p, pc) - pc

LEMMA SkipInWords ==
  ASSUME NEW p, IsProgram(p), NEW pc \in Positions(p), NEW skip, skip = NextOpcode(p, pc) - pc
  PROVE  u32(pc + skip) = NextOpcode(p, pc) /\ pc + skip = NextOpcode(p, pc) /\ NextOpcode(p, pc) \in Nat
<1>1. pc + skip = NextOpcode(p, pc)
  BY Skipped
<1>2. PICK next \in Nat : next = NextOpcode(p, pc) /\ next <= p.len /\ p.len \in Nat /\ p.len < Pow(4)
  BY ProgramIs, NextOpcodeIs DEF Positions
<1>3. PICK w \in Nat \ {0} : w = Pow(4) /\ next < w
  BY <1>2, WordBits
<1>4. next % w = next
  BY <1>3, SmallRest
<1>. QED
  BY <1>1, <1>2, <1>3, <1>4 DEF u32

LEMMA BranchesAgree ==
  ASSUME NEW p, IsProgram(p), NEW m, IsWasm(m, p), m.pc \in Positions(p),
         NEW j, IsMachine(j), j.pc = m.pc, j.exit = m.exit,
         NEW u \in Nat, NEW t, u = t \/ u >= p.len \/ p.len > Half32,
         NEW condition \in BOOLEAN, NEW skip, SkipIs(skip, p, m.pc),
         NEW n, n = WasmBranch(m, p, u, condition, skip),
         NEW nj, nj = Branch(j, IxPointerCache(p), t, condition, skip)
  PROVE  Outcome(n, m, nj, p) /\ nj.w = j.w
<1>0. IsMachine(m)
  BY DEF IsWasm
<1>1. CASE condition
  <2>1. Landed(n, m, p, u)
    BY <1>1, WasmBranchIs
  <2>2. LandedJs(nj, j, p, t)
    BY <1>1, BranchLands
  <2>3. nj.w = j.w
    BY <2>2, ButParts DEF LandedJs
  <2>4. Outcome(n, m, nj, p)
    BY <1>0, <2>1, <2>2, BothLand
  <2>. QED
    BY <2>3, <2>4
<1>2. CASE ~condition
  <2>1. WasmBut(n, m, p, {"pc"}) /\ n.pc = u32(m.pc + skip)
    BY <1>2, WasmBranchIs
  <2>2. But(nj, j, {"pc"}) /\ nj.pc = j.pc + skip
    BY <1>2, BranchLands
  <2>3. n.pc = NextOpcode(p, m.pc) /\ nj.pc = n.pc
    BY <2>1, <2>2, SkipInWords DEF SkipIs
  <2>4. n.exit = m.exit /\ nj.exit = j.exit /\ nj.w = j.w /\ WasmBut(n, m, p, {"pc", "exit"})
    BY <1>0, <2>1, <2>2, ButParts, WasmParts DEF WasmBut, But
  <2>. QED
    BY <2>3, <2>4 DEF Outcome
<1>. QED
  BY <1>1, <1>2

LEMMA DjumpsAgree ==
  ASSUME NEW p, IsProgram(p), NEW m, IsWasm(m, p),
         NEW j, IsMachine(j), j.pc = m.pc, j.exit = m.exit,
         NEW a \in Nat, NEW n, n = WasmDjump(m, p, a),
         NEW nj, nj = Djump(j, p, IxPointerCache(p), a)
  PROVE  Outcome(n, m, nj, p) /\ nj.w = j.w
<1>0. IsMachine(m)
  BY DEF IsWasm
<1>1. ASSUME NEW exit, WasmBut(n, m, p, {"exit"}), n.exit = exit, But(nj, j, {"exit"}), nj.exit = exit,
             exit.why \in {"panic", "halt"}
      PROVE  Outcome(n, m, nj, p) /\ nj.w = j.w
  <2>1. n.pc = m.pc /\ nj.pc = j.pc /\ nj.w = j.w /\ WasmBut(n, m, p, {"pc", "exit"})
    BY <1>0, <1>1, ButParts, WasmParts DEF WasmBut, But
  <2>. QED
    BY <1>1, <2>1 DEF Outcome
<1>2. CASE a = HaltAddress
  <2>1. WasmBut(n, m, p, {"exit"}) /\ n.exit = Exit("halt", 0)
    BY <1>2, WasmDjumpIs
  <2>2. But(nj, j, {"exit"}) /\ nj.exit = Exit("halt", 0)
    BY <1>2, DjumpLands
  <2>. QED
    BY <1>1, <2>1, <2>2, ExitsAre
<1>3. CASE a # HaltAddress /\ ~Entry(p, a)
  <2>1. WasmBut(n, m, p, {"exit"}) /\ n.exit = Panic
    BY <1>3, WasmDjumpIs
  <2>2. But(nj, j, {"exit"}) /\ nj.exit = Panic
    BY <1>3, DjumpLands
  <2>. QED
    BY <1>1, <2>1, <2>2, ExitsAre
<1>4. CASE Entry(p, a)
  <2>1. PICK target \in Nat : target = p.j[a \div 2]
    BY <1>4, EntryIs
  <2>2. Landed(n, m, p, target)
    BY <1>4, <2>1, WasmDjumpIs
  <2>3. LandedJs(nj, j, p, target)
    BY <1>4, <2>1, DjumpLands
  <2>4. nj.w = j.w
    BY <2>3, ButParts DEF LandedJs
  <2>5. Outcome(n, m, nj, p)
    BY <1>0, <2>2, <2>3, BothLand
  <2>. QED
    BY <2>4, <2>5
<1>. QED
  BY <1>2, <1>3, <1>4

(* A jump changes the pointer and the register of the return address, or   *)
(* ends the run.                                                           *)
WasmJumped(n, m, p, o) ==
  /\ WasmBut(n, m, p, {"pc", "w", "exit"})
  /\ n.pc \in {m.pc, NextOpcode(p, m.pc)} \cup BlockStarts(p)
  /\ n.exit = m.exit \/ n.exit.why \in {"abort", "panic", "halt"}
  /\ n.w = m.w \/ n.w = [m.w EXCEPT ![o.rA] = o.vX]

SameJump(n, nj, p) ==
  \/ n.exit = Abort
  \/ p.len > Half32
  \/ nj.pc = n.pc /\ nj.exit = n.exit /\ nj.w = n.w

LEMMA OutcomeIs ==
  ASSUME NEW p, NEW m, IsMachine(m), NEW m1, IsMachine(m1), NEW n, NEW nj, NEW o, NEW nk,
         \/ m1 = m
         \/ WasmBut(m1, m, p, {"w"}) /\ m1.w = [m.w EXCEPT ![o.rA] = o.vX],
         Outcome(n, m1, nk, p), nj.pc = nk.pc, nj.exit = nk.exit, nj.w = m1.w
  PROVE  WasmJumped(n, m, p, o) /\ SameJump(n, nj, p)
<1>1. WasmBut(n, m1, p, {"pc", "exit"}) /\ n.w = m1.w
  BY WasmParts DEF Outcome
<1>2. WasmBut(n, m, p, {"pc", "w", "exit"}) /\ m1.pc = m.pc /\ m1.exit = m.exit
  <2>1. CASE m1 = m
    BY <1>1, <2>1 DEF WasmBut, But
  <2>2. CASE WasmBut(m1, m, p, {"w"})
    <3>1. WasmBut(n, m, p, {"w"} \cup {"pc", "exit"})
      BY <1>1, <2>2, WasmThen
    <3>2. {"w"} \cup {"pc", "exit"} = {"pc", "w", "exit"}
      OBVIOUS
    <3>3. m1.pc = m.pc /\ m1.exit = m.exit
      BY <2>2, WasmParts
    <3>. QED
      BY <3>1, <3>2, <3>3
  <2>. QED
    BY <2>1, <2>2
<1>3. n.w = m.w \/ n.w = [m.w EXCEPT ![o.rA] = o.vX]
  BY <1>1
<1>. QED
  BY <1>1, <1>2, <1>3 DEF Outcome, WasmJumped, SameJump

LEMMA WasmConditionsAre ==
  ASSUME NEW op, NEW a, NEW b
  PROVE  /\ op \in 81 .. 90 => WasmImmCondition(op, a, b) \in BOOLEAN
         /\ op \in 170 .. 175 => WasmRegCondition(op, a, b) \in BOOLEAN
<1>1. ASSUME op \in 81 .. 90 PROVE WasmImmCondition(op, a, b) \in BOOLEAN
  <2>1. CASE op = 81
    BY <2>1 DEF WasmImmCondition
  <2>2. CASE op = 82
    BY <2>2 DEF WasmImmCondition
  <2>3. CASE op = 83
    BY <2>3 DEF WasmImmCondition
  <2>4. CASE op = 84
    BY <2>4 DEF WasmImmCondition
  <2>5. CASE op = 85
    BY <2>5 DEF WasmImmCondition
  <2>6. CASE op = 86
    BY <2>6 DEF WasmImmCondition
  <2>7. CASE op = 87
    BY <2>7 DEF WasmImmCondition
  <2>8. CASE op = 88
    BY <2>8 DEF WasmImmCondition
  <2>9. CASE op = 89
    BY <2>9 DEF WasmImmCondition
  <2>10. CASE op = 90
    BY <2>10 DEF WasmImmCondition
  <2>. QED
    BY <1>1, <2>1, <2>2, <2>3, <2>4, <2>5, <2>6, <2>7, <2>8, <2>9, <2>10
<1>2. ASSUME op \in 170 .. 175 PROVE WasmRegCondition(op, a, b) \in BOOLEAN
  <2>1. CASE op = 170
    BY <2>1 DEF WasmRegCondition
  <2>2. CASE op = 171
    BY <2>2 DEF WasmRegCondition
  <2>3. CASE op = 172
    BY <2>3 DEF WasmRegCondition
  <2>4. CASE op = 173
    BY <2>4 DEF WasmRegCondition
  <2>5. CASE op = 174
    BY <2>5 DEF WasmRegCondition
  <2>6. CASE op = 175
    BY <2>6 DEF WasmRegCondition
  <2>. QED
    BY <1>2, <2>1, <2>2, <2>3, <2>4, <2>5, <2>6
<1>. QED
  BY <1>1, <1>2

\* Compared as numbers and not as words.
Imprecise(op, a, b) == op = 174 /\ (a >= 2^FloatBits \/ b >= 2^FloatBits)

LEMMA JumpsAgree ==
  ASSUME NEW p, IsProgram(p), NEW m, IsWasm(m, p), m.pc \in Positions(p),
         \A r \in RegisterNumbers : m.w[r] \in Register,
         NEW j, IsMachine(j), j.pc = m.pc, j.exit = m.exit, j.w = m.w,
         NEW o, OperandsFit(o), NEW op \in WasmJumps,
         NEW skip, SkipIs(skip, p, m.pc),
         NEW n, n = WasmJump(op, m, o, p, skip),
         NEW nj, nj = EvaluateJump(op, j, o, p, IxPointerCache(p), skip)
  PROVE  /\ WasmJumped(n, m, p, o)
         /\ Imprecise(op, m.w[o.rA], m.w[o.rB]) \/ SameJump(n, nj, p)
<1>. DEFINE cache == IxPointerCache(p)
            t == j.pc + o.offset
            u == u32(m.pc + o.offset)
<1>1. u \in Nat /\ (u = t \/ u >= p.len \/ p.len > Half32)
  BY TargetIs DEF OperandsFit
<1>. HIDE DEF t, u
<1>2. IsMachine(m) /\ o.rA \in RegisterNumbers /\ o.rB \in RegisterNumbers /\ o.vX \in Register /\ o.vY \in Register
  BY DEF IsWasm, OperandsFit
<1>3. PICK a \in Register, b \in Register : a = m.w[o.rA] /\ b = m.w[o.rB] /\ a = j.w[o.rA] /\ b = j.w[o.rB]
  BY <1>2
<1>4. ASSUME NEW mx, IsWasm(mx, p), mx.pc = m.pc, NEW jx, IsMachine(jx), jx.pc = mx.pc, jx.exit = mx.exit,
             NEW condition \in BOOLEAN, NEW nx, nx = WasmBranch(mx, p, u, condition, skip),
             NEW nk, nk = Branch(jx, cache, t, condition, skip)
      PROVE  Outcome(nx, mx, nk, p) /\ nk.w = jx.w
  <2>1. mx.pc \in Positions(p) /\ SkipIs(skip, p, mx.pc)
    BY <1>4
  <2>. QED
    BY <1>1, <1>4, <2>1, BranchesAgree
<1>41. ASSUME NEW condition \in BOOLEAN, NEW nk, n = WasmBranch(m, p, u, condition, skip),
             nk = Branch(j, cache, t, condition, skip)
      PROVE  WasmJumped(n, m, p, o) /\ SameJump(n, nk, p)
  <2>1. Outcome(n, m, nk, p) /\ nk.w = j.w
    BY <1>4, <1>41
  <2>. QED
    BY <1>2, <2>1, OutcomeIs
<1>5. ASSUME NEW z \in Int, NEW v PROVE z % Pow(4) = u32(z) /\ u32(z) \in Nat
  BY RestWidth DEF u32
<1>6. CASE op = 40
  <2>1. n = WasmBranch(m, p, u, TRUE, skip)
    BY <1>6 DEF WasmJump, u
  <2>2. nj = Branch(j, cache, t, TRUE, skip)
    BY <1>6 DEF EvaluateJump, t
  <2>. QED
    BY <1>41, <2>1, <2>2
<1>7. CASE op = 50
  <2>1. n = WasmDjump(m, p, u32(a + o.vX))
    BY <1>3, <1>7 DEF WasmJump
  <2>2. nj = Djump(j, p, cache, (a + o.vX) % Pow(4))
    BY <1>3, <1>7 DEF EvaluateJump
  <2>3. a + o.vX \in Int
    BY <1>2, RegisterIs
  <2>4. PICK y \in Nat : y = u32(a + o.vX) /\ y = (a + o.vX) % Pow(4)
    BY <1>5, <2>3
  <2>5. Outcome(n, m, nj, p) /\ nj.w = j.w
    BY <2>1, <2>2, <2>4, DjumpsAgree
  <2>. QED
    BY <1>2, <2>5, OutcomeIs
<1>8. PICK m1 : m1 = [m EXCEPT !.w[o.rA] = o.vX]
  OBVIOUS
<1>9. WasmBut(m1, m, p, {"w"}) /\ m1.w = [m.w EXCEPT ![o.rA] = o.vX]
  BY <1>2, <1>8, WasmPuts
<1>10. IsWasm(m1, p) /\ IsMachine(m1) /\ m1.pc = m.pc /\ m1.exit = m.exit
  BY <1>2, <1>9, WasmParts
<1>11. CASE op = 80
  <2>. PICK c \in BOOLEAN : c = TRUE
    OBVIOUS
  <2>1. n = WasmBranch(m1, p, u, c, skip)
    BY <1>8, <1>11 DEF WasmJump, u
  <2>2. PICK j1 : j1 = [j EXCEPT !.w[o.rA] = o.vX]
    OBVIOUS
  <2>3. nj = Branch(j1, cache, t, c, skip)
    BY <1>11, <2>2 DEF EvaluateJump, t
  <2>4. But(j1, j, {"w"}) /\ j1.w = [j.w EXCEPT ![o.rA] = o.vX]
    BY SMTT(20), <1>2, <2>2, ButRegister
  <2>5. IsMachine(j1) /\ j1.pc = m1.pc /\ j1.exit = m1.exit /\ j1.w = m1.w
    BY <1>9, <1>10, <2>4, ButParts DEF But
  <2>6. c \in BOOLEAN
    OBVIOUS
  <2>7. Outcome(n, m1, nj, p) /\ nj.w = j1.w
    BY ONLY <1>4, <1>10, <2>1, <2>3, <2>5, <2>6
  <2>. QED
    BY <1>2, <1>9, <1>10, <2>5, <2>7, OutcomeIs
<1>12. CASE op \in 81 .. 90
  <2>1. PICK c \in BOOLEAN : c = ImmCondition(op, a, o.vX)
    BY <1>12, ConditionsAre
  <2>2. WasmImmCondition(op, a, o.vX) = c
    BY <1>2, <1>12, <2>1, SameConditions
  <2>3. n = WasmBranch(m, p, u, c, skip)
    BY <1>3, <1>12, <2>2 DEF WasmJump, u
  <2>4. nj = Branch(j, cache, t, c, skip)
    BY SMTT(20), <1>3, <1>12, <2>1 DEF EvaluateJump, t
  <2>. QED
    BY <1>41, <2>3, <2>4
<1>13. CASE op \in 170 .. 175
  <2>1. PICK c \in BOOLEAN : c = WasmRegCondition(op, a, b)
    BY <1>13, WasmConditionsAre
  <2>2. PICK nk : nk = Branch(j, cache, t, c, skip)
    OBVIOUS
  <2>3. n = WasmBranch(m, p, u, c, skip)
    BY <1>3, <1>13, <2>1 DEF WasmJump, u
  <2>4. WasmJumped(n, m, p, o) /\ SameJump(n, nk, p)
    BY <1>41, <2>2, <2>3
  <2>5. Imprecise(op, a, b) \/ RegCondition(op, a, b) = c
    BY <1>13, <2>1, SameConditions DEF Imprecise
  <2>6. nj = Branch(j, cache, t, RegCondition(op, a, b), skip)
    BY <1>3, <1>13 DEF EvaluateJump, t
  <2>. QED
    BY <1>3, <2>2, <2>4, <2>5, <2>6
<1>14. CASE op = 180
  <2>1. n = WasmDjump(m1, p, u32(b + o.vY))
    BY <1>3, <1>8, <1>14 DEF WasmJump
  <2>2. PICK nk : nk = Djump(j, p, cache, (b + o.vY) % Pow(4))
    OBVIOUS
  <2>3. nj = [nk EXCEPT !.w[o.rA] = o.vX]
    BY <1>3, <1>14, <2>2 DEF EvaluateJump
  <2>4. b + o.vY \in Int
    BY <1>2, RegisterIs
  <2>5. PICK y \in Nat : y = u32(b + o.vY) /\ y = (b + o.vY) % Pow(4)
    BY <1>5, <2>4
  <2>6. Outcome(n, m1, nk, p) /\ nk.w = j.w
    BY <1>10, <2>1, <2>2, <2>5, DjumpsAgree
  <2>7. But(nk, j, {"pc", "exit"})
    BY <2>2, DjumpIs
  <2>8. IsMachine(nk)
    BY <2>7 DEF But
  <2>9. But(nj, nk, {"w"}) /\ nj.w = [nk.w EXCEPT ![o.rA] = o.vX]
    BY ONLY <1>2, <2>3, <2>8, ButRegister
  <2>10. nj.pc = nk.pc /\ nj.exit = nk.exit /\ nj.w = m1.w
    BY <1>9, <2>6, <2>8, <2>9, ButParts
  <2>. QED
    BY <1>2, <1>9, <1>10, <2>6, <2>10, OutcomeIs
<1>. QED
  BY <1>6, <1>7, <1>11, <1>12, <1>13, <1>14 DEF WasmJumps

-----------------------------------------------------------------------------
(***************************************************************************)
(* An instruction of both leaves the same, or differs as is known.         *)
(***************************************************************************)

PlainOpcodes ==
  {20, 51} \cup (100 .. 111 \ {101}) \cup (131 .. 146) \cup (147 .. 161)
    \cup (190 .. 199) \cup (200 .. 215) \cup (216 .. 230)

LEMMA PlainKnown ==
  ASSUME NEW op, DecoderOf(op) # "unknown", op \notin {0, 1, 10}, op \notin WasmJumps, op \notin MemoryOpcodes
  PROVE  op \in PlainOpcodes /\ op \notin JumpOpcodes
<1>1. op \in {0, 1} \cup {10} \cup {20} \cup (30 .. 33) \cup {40} \cup (50 .. 62) \cup (70 .. 73)
             \cup (80 .. 90) \cup (100 .. 111) \cup (120 .. 161) \cup (170 .. 175) \cup {180} \cup (190 .. 230)
  BY DEF DecoderOf
<1>2. op \in Nat
  BY <1>1
<1>. QED
  BY <1>1, <1>2 DEF PlainOpcodes, WasmJumps, MemoryOpcodes, Loads, Stores, JumpOpcodes

LEMMA WrittenIs ==
  ASSUME NEW op, NEW o, OperandsFit(o)
  PROVE  Written(op, o) \in RegisterNumbers
BY DEF Written, OperandsFit

\* Where the two interpreters compute something else.
Different(op, a, b) ==
  \/ op = 145
  \/ op = 193 /\ (a >= Half32 \/ b >= Half32)
  \/ op = 196 /\ Z(4, a % Pow(4)) = -Half32
  \/ op = 206 /\ Z(8, a) = -Half64
  \/ Signed(op, a, b)

LEMMA WrittenAgrees ==
  ASSUME NEW m, \A r \in RegisterNumbers : m.w[r] \in Register, NEW j, j.w = m.w,
         NEW o, OperandsFit(o), NEW op \in PlainOpcodes
  PROVE  /\ WasmWritten(op, m, o) \in Register
         /\ \/ Different(op, m.w[o.rA], m.w[o.rB])
            \/ WasmWritten(op, m, o) = WrittenValue(op, j, o)
<1>1. o.rA \in RegisterNumbers /\ o.rB \in RegisterNumbers /\ Written(op, o) \in RegisterNumbers /\ o.vX \in Register
  BY WrittenIs DEF OperandsFit
<1>2. PICK a \in Register, b \in Register, old \in Register :
        /\ a = m.w[o.rA] /\ b = m.w[o.rB] /\ old = m.w[Written(op, o)]
        /\ a = j.w[o.rA] /\ b = j.w[o.rB] /\ old = j.w[Written(op, o)]
  BY <1>1
<1>10. ASSUME op = 145 PROVE Different(op, m.w[o.rA], m.w[o.rB])
  BY <1>10 DEF Different
<1>3. CASE op \in {20, 51}
  <2>1. WasmWritten(op, m, o) = o.vX /\ WrittenValue(op, j, o) = o.vX
    BY <1>3 DEF WasmWritten, WrittenValue
  <2>. QED
    BY <1>1, <2>1
<1>4. CASE op \in 100 .. 111 \ {101}
  <2>1. WasmWritten(op, m, o) = WasmTwoReg(op, a) /\ WrittenValue(op, j, o) = TwoRegValue(op, a)
    BY <1>2, <1>4 DEF WasmWritten, WrittenValue
  <2>. QED
    BY <1>4, <2>1, SameTwoReg, TwoRegWidth
<1>5. CASE op \in 131 .. 146
  <2>1. WasmWritten(op, m, o) = WasmImm32(op, b, o.vX) /\ WrittenValue(op, j, o) = Imm32Value(op, b, o.vX)
    BY <1>2, <1>5 DEF WasmWritten, WrittenValue
  <2>. QED
    <3>1. op = 145 \/ WasmImm32(op, b, o.vX) = Imm32Value(op, b, o.vX)
      BY <1>1, <1>5, SameImm32
    <3>2. WasmImm32(op, b, o.vX) \in Register
      BY <1>1, <1>5, SameImm32
    <3>. QED
      BY <2>1, <3>1, <3>2, <1>10
<1>6. CASE op \in 147 .. 161
  <2>1. WasmWritten(op, m, o) = WasmImm64(op, b, o.vX, old) /\ WrittenValue(op, j, o) = Imm64Value(op, b, o.vX, old)
    BY <1>2, <1>6 DEF WasmWritten, WrittenValue
  <2>. QED
    <3>1. WasmImm64(op, b, o.vX, old) = Imm64Value(op, b, o.vX, old)
      BY <1>1, <1>6, SameImm64
    <3>2. Imm64Value(op, b, o.vX, old) \in Register
      BY <1>1, <1>6, Imm64Width
    <3>. QED
      BY <2>1, <3>1, <3>2
<1>7. CASE op \in 190 .. 199
  <2>1. WasmWritten(op, m, o) = WasmReg32(op, a, b) /\ WrittenValue(op, j, o) = Reg32Value(op, a, b)
    BY <1>2, <1>7 DEF WasmWritten, WrittenValue
  <2>2. /\ \/ op = 193 /\ (a >= Half32 \/ b >= Half32)
           \/ op = 196 /\ Z(4, a % Pow(4)) = -Half32
           \/ WasmReg32(op, a, b) = Reg32Value(op, a, b)
        /\ WasmReg32(op, a, b) \in Register
    BY <1>7, SameReg32
  <2>. QED
    BY <1>2, <2>1, <2>2 DEF Different
<1>8. CASE op \in 200 .. 215
  <2>1. WasmWritten(op, m, o) = WasmReg64(op, a, b) /\ WrittenValue(op, j, o) = Reg64Value(op, a, b)
    BY <1>2, <1>8 DEF WasmWritten, WrittenValue
  <2>2. /\ \/ op = 206 /\ Z(8, a) = -Half64
           \/ Signed(op, a, b)
           \/ WasmReg64(op, a, b) = Reg64Value(op, a, b)
        /\ WasmReg64(op, a, b) \in Register
    BY <1>8, SameReg64
  <2>. QED
    BY SMTT(20), <1>2, <2>1, <2>2 DEF Different
<1>9. CASE op \in 216 .. 230
  <2>1. WasmWritten(op, m, o) = WasmLogic(op, a, b, old) /\ WrittenValue(op, j, o) = RegLogicValue(op, a, b, old)
    BY <1>2, <1>9 DEF WasmWritten, WrittenValue
  <2>. QED
    <3>1. WasmLogic(op, a, b, old) = RegLogicValue(op, a, b, old)
      BY <1>9, SameLogic
    <3>2. RegLogicValue(op, a, b, old) \in Register
      BY <1>9, LogicValueWidth
    <3>. QED
      BY <2>1, <3>1, <3>2
<1>. QED
  BY <1>3, <1>4, <1>5, <1>6, <1>7, <1>8, <1>9 DEF PlainOpcodes

(* What the first interpreter writes fits a register.                      *)
LEMMA WrittenWidth ==
  ASSUME NEW m, \A r \in RegisterNumbers : m.w[r] \in Register, NEW o, OperandsFit(o), NEW op \in PlainOpcodes
  PROVE  WrittenValue(op, m, o) \in Register
<1>1. o.rA \in RegisterNumbers /\ o.rB \in RegisterNumbers /\ Written(op, o) \in RegisterNumbers /\ o.vX \in Register
  BY WrittenIs DEF OperandsFit
<1>2. PICK a \in Register, b \in Register, old \in Register :
        a = m.w[o.rA] /\ b = m.w[o.rB] /\ old = m.w[Written(op, o)]
  BY <1>1
<1>3. CASE op \in {20, 51}
  BY <1>1, <1>3 DEF WrittenValue
<1>4. CASE op \in 100 .. 111 \ {101}
  <2>1. WrittenValue(op, m, o) = TwoRegValue(op, a)
    BY <1>2, <1>4 DEF WrittenValue
  <2>. QED
    BY <1>4, <2>1, TwoRegWidth
<1>5. CASE op \in 131 .. 146
  <2>1. WrittenValue(op, m, o) = Imm32Value(op, b, o.vX)
    BY <1>2, <1>5 DEF WrittenValue
  <2>. QED
    BY <1>1, <1>5, <2>1, Imm32Width
<1>6. CASE op \in 147 .. 161
  <2>1. WrittenValue(op, m, o) = Imm64Value(op, b, o.vX, old)
    BY <1>2, <1>6 DEF WrittenValue
  <2>. QED
    BY <1>1, <1>6, <2>1, Imm64Width
<1>7. CASE op \in 190 .. 199
  <2>1. WrittenValue(op, m, o) = Reg32Value(op, a, b)
    BY <1>2, <1>7 DEF WrittenValue
  <2>. QED
    BY <1>7, <2>1, Reg32Width
<1>8. CASE op \in 200 .. 215
  <2>1. WrittenValue(op, m, o) = Reg64Value(op, a, b)
    BY <1>2, <1>8 DEF WrittenValue
  <2>. QED
    BY <1>8, <2>1, Reg64Width
<1>9. CASE op \in 216 .. 230
  <2>1. WrittenValue(op, m, o) = RegLogicValue(op, a, b, old)
    BY <1>2, <1>9 DEF WrittenValue
  <2>. QED
    BY <1>9, <2>1, LogicValueWidth
<1>. QED
  BY <1>3, <1>4, <1>5, <1>6, <1>7, <1>8, <1>9 DEF PlainOpcodes

(* The heap's pointer is not beyond its end.                               *)
PointerInside(m) == m.heap.pointer <= m.heap.end

LEMMA HeapGrows ==
  ASSUME NEW pointer \in Nat, NEW end \in Nat, pointer <= end, NEW size \in Nat
  PROVE  /\ PagesTaken(pointer, end, size) \in Nat
         /\ end + PagesTaken(pointer, end, size) * Zp \in Nat
         /\ pointer + size <= end + PagesTaken(pointer, end, size) * Zp
         /\ end <= end + PagesTaken(pointer, end, size) * Zp
         /\ size = 0 => PagesTaken(pointer, end, size) = 0
<1>1. PICK needed \in Nat, room \in Nat : needed = (size + Zp - 1) \div Zp /\ room = needed * Zp /\ size <= room
                                          /\ (size = 0 => needed = 0)
  BY PagesNeeded
<1>2. Zp \in Nat
  BY PagesDivide
<1>3. CASE pointer + size >= end
  BY <1>1, <1>3 DEF PagesTaken
<1>4. CASE ~(pointer + size >= end)
  BY <1>2, <1>4 DEF PagesTaken
<1>. QED
  BY <1>3, <1>4

LEMMA SmallWord ==
  ASSUME NEW x \in Nat, x < Pow(4)
  PROVE  u32(x) = x /\ x % Pow(4) = x
<1>1. PICK w \in Nat \ {0} : w = Pow(4) /\ x \in 0 .. w - 1
  BY WordBits
<1>2. x % w = x
  BY <1>1, SmallRest
<1>. QED
  BY <1>1, <1>2 DEF u32

LEMMA SmallFloat ==
  ASSUME NEW x \in Register, x < Pow(4)
  PROVE  Float(x) = x
<1>1. Bits32 \in Nat /\ FloatBits \in Nat /\ Bits32 <= FloatBits /\ Pow(4) = 2^Bits32
  BY WordBits, WidthsAssumption, WordsAssumption
<1>2. 2^Bits32 <= 2^FloatBits
  BY <1>1, PowersGrow
<1>3. PICK f \in Nat : f = 2^FloatBits
  BY <1>1, Doubling
<1>4. PICK w \in Nat : w = Pow(4) /\ w <= f /\ x < w /\ x \in Nat
  BY <1>1, <1>2, <1>3, WordBits, RegisterIs
<1>. QED
  BY <1>3, <1>4, FloatIs

\* n is j with cnt more pages of heap, and its register has the old pointer.
Grown(n, j, o, pointer, end, size, cnt) ==
  /\ Taken(n, j, TakenPages(j, cnt))
  /\ n.heap = [end |-> end + cnt * Zp, pointer |-> pointer + size]
  /\ n.w = [j.w EXCEPT ![o.rD] = pointer]

(* sbrk of the first interpreter, whatever its size.                       *)
LEMMA SbrkJsTakes ==
  ASSUME NEW j, IsMachine(j), NEW pointer \in Nat, NEW end \in Nat, pointer <= end,
         j.heap = [end |-> end, pointer |-> pointer],
         j.acl = [page \in Pages |-> j.acl[page]], j.mem = [a \in Addresses |-> j.mem[a]],
         NEW o, OperandsFit(o), NEW size \in Nat, size = Float(j.w[o.rA]),
         NEW cnt \in Nat, cnt = PagesTaken(pointer, end, size),
         NEW n, n = EvaluateMemory(101, j, o)
  PROVE  /\ But(n, j, {"acl", "mem", "heap", "w"})
         /\ Grown(n, j, o, pointer, end, size, cnt)
<1>1. PICK s : s = IF size = 0 THEN j ELSE Sbrk(j, size)
  OBVIOUS
<1>2. n = [s EXCEPT !.w[o.rD] = pointer]
  <2>1. n = SbrkJs(j, o)
    BY DEF EvaluateMemory
  <2>2. j.heap.pointer = pointer
    OBVIOUS
  <2>. QED
    BY <1>1, <2>1, <2>2 DEF SbrkJs
<1>3. /\ But(s, j, {"acl", "mem", "heap"})
      /\ Taken(s, j, TakenPages(j, cnt))
      /\ s.heap = [end |-> end + cnt * Zp, pointer |-> pointer + size]
  <2>1. CASE size = 0
    <3>1. cnt = 0 /\ s = j
      BY <1>1, <2>1, HeapGrows
    <3>2. TakenPages(j, cnt) = {}
      <4>1. PICK z \in Nat \ {0} : z = Zp
        BY PagesDivide
      <4>2. end \in Int
        OBVIOUS
      <4>3. end \div z \in Int
        BY <4>2, Rest
      <4>4. PICK q \in Int : q = j.heap.end \div Zp
        BY <4>1, <4>3
      <4>. QED
        BY <3>1, <4>4 DEF TakenPages
    <3>3. But(s, j, {"acl", "mem", "heap"})
      BY <3>1 DEF But
    <3>4. Taken(s, j, TakenPages(j, cnt))
      BY <3>1, <3>2 DEF Taken
    <3>5. end + cnt * Zp = end /\ pointer + size = pointer
      BY <2>1, <3>1, PagesDivide
    <3>. QED
      BY <3>1, <3>3, <3>4, <3>5
  <2>2. CASE size # 0
    <3>1. s = Sbrk(j, size)
      BY <1>1, <2>2
    <3>2. cnt = PagesTaken(j.heap.pointer, j.heap.end, size)
      OBVIOUS
    <3>. QED
      BY <3>1, <3>2, SbrkIs
  <2>. QED
    BY <2>1, <2>2
<1>4. IsMachine(s) /\ s.w = j.w
  BY <1>3, ButParts DEF But
<1>5. But(n, s, {"w"}) /\ n.w = [s.w EXCEPT ![o.rD] = pointer]
  <2>1. o.rD \in RegisterNumbers
    BY DEF OperandsFit
  <2>. QED
    BY ONLY <1>2, <1>4, <2>1, ButRegister
<1>6. n.acl = s.acl /\ n.mem = s.mem /\ n.heap = s.heap
  BY <1>4, <1>5, ButParts
<1>7. But(n, j, {"acl", "mem", "heap", "w"})
  <2>1. But(n, j, {"acl", "mem", "heap"} \cup {"w"})
    BY <1>3, <1>5, ButThen
  <2>2. {"acl", "mem", "heap"} \cup {"w"} = {"acl", "mem", "heap", "w"}
    OBVIOUS
  <2>. QED
    BY <2>1, <2>2
<1>. QED
  BY <1>3, <1>4, <1>5, <1>6, <1>7 DEF Taken, Grown

(* Both take the same, unless the heap passes the last address.            *)
LEMMA SbrksAgree ==
  ASSUME NEW p, NEW m, WasmSound(m, p), PointerInside(m), NEW o, OperandsFit(o), NEW n, n = WasmSbrk(m, o),
         NEW j, IsMachine(j), j.w = m.w, j.acl = m.acl, j.mem = m.mem, j.heap = m.heap,
         NEW nj, nj = EvaluateMemory(101, j, o),
         ~(Sbrk(j, j.w[o.rA]).heap.end >= Pow(4))
  PROVE  nj.w = n.w /\ nj.acl = n.acl /\ nj.mem = n.mem /\ nj.heap = n.heap
<1>1. IsMachine(m) /\ IsWasm(m, p) /\ Sound(m)
  BY DEF WasmSound, IsWasm
<1>2. PICK end \in Nat, pointer \in Nat : end = m.heap.end /\ pointer = m.heap.pointer /\ pointer <= end
                                         /\ m.heap = [end |-> end, pointer |-> pointer]
  BY <1>1 DEF Sound, PointerInside
<1>3. PICK size \in Register : size = m.w[o.rA] /\ size = j.w[o.rA] /\ size \in Nat
  BY <1>1, RegisterIs DEF Sound, WordsAreSound, OperandsFit
<1>4. PICK cnt \in Nat, last \in Nat :
        cnt = PagesTaken(pointer, end, size) /\ last = end + cnt * Zp /\ pointer + size <= last /\ end <= last
  <2>1. PagesTaken(pointer, end, size) \in Nat
    BY <1>2, <1>3, HeapGrows
  <2>2. PICK cnt \in Nat : cnt = PagesTaken(pointer, end, size)
    BY <2>1
  <2>3. end + cnt * Zp \in Nat /\ pointer + size <= end + cnt * Zp /\ end <= end + cnt * Zp
    BY <1>2, <1>3, <2>2, HeapGrows
  <2>. QED
    BY <2>2, <2>3
<1>5. last < Pow(4)
  <2>0. PICK s : s = Sbrk(j, size)
    OBVIOUS
  <2>1. s.heap = [end |-> j.heap.end + PagesTaken(j.heap.pointer, j.heap.end, size) * Zp, pointer |-> j.heap.pointer + size]
    BY <2>0, SbrkIs
  <2>2. Sbrk(j, size).heap = [end |-> last, pointer |-> pointer + size]
    BY <1>2, <1>4, <2>0, <2>1
  <2>3. ~(last >= Pow(4))
    BY <1>3, <2>2
  <2>. QED
    BY <2>3, WordBits
<1>6. PICK w \in Nat : w = Pow(4)
  BY WordBits
<1>7. pointer + size \in Nat /\ pointer + size < w /\ size < w
  BY <1>3, <1>4, <1>5, <1>6
<1>8. u32(size) = size /\ u32(pointer + size) = pointer + size /\ u32(last) = last /\ Float(size) = size
  BY <1>3, <1>5, <1>6, <1>7, SmallWord, SmallFloat
<1>9. /\ Taken(n, m, TakenPages(m, cnt))
      /\ n.heap = [end |-> last, pointer |-> pointer + size]
      /\ n.w = [m.w EXCEPT ![o.rD] = pointer]
  <2>1. cnt = IF u32(m.heap.pointer + size) >= m.heap.end THEN (size + Zp - 1) \div Zp ELSE 0
    BY <1>2, <1>4, <1>8 DEF PagesTaken
  <2>2. /\ Taken(n, m, TakenPages(m, cnt))
        /\ n.heap = [end |-> u32(m.heap.end + cnt * Zp), pointer |-> u32(m.heap.pointer + size)]
        /\ n.w = [m.w EXCEPT ![o.rD] = m.heap.pointer]
    <3>1. size = u32(m.w[o.rA])
      BY <1>3, <1>8
    <3>. QED
      BY <1>1, <2>1, <3>1, WasmSbrkIs
  <2>. QED
    BY <1>2, <1>4, <1>8, <2>2
<1>10. /\ Taken(nj, j, TakenPages(j, cnt))
       /\ nj.heap = [end |-> last, pointer |-> pointer + size]
       /\ nj.w = [j.w EXCEPT ![o.rD] = pointer]
  <2>1. j.acl = [page \in Pages |-> j.acl[page]]
    BY <1>1 DEF Sound
  <2>2. j.mem = [a \in Addresses |-> j.mem[a]]
    BY <1>1 DEF Sound, WordsAreSound, MemoryIsSound
  <2>3. j.heap = [end |-> end, pointer |-> pointer]
    BY <1>2
  <2>4. size = Float(j.w[o.rA])
    BY <1>3, <1>8
  <2>. QED
    <3>1. pointer <= end /\ cnt = PagesTaken(pointer, end, size) /\ size \in Nat
      BY <1>2, <1>3, <1>4
    <3>2. Grown(nj, j, o, pointer, end, size, cnt)
      BY <2>1, <2>2, <2>3, <2>4, <3>1, SbrkJsTakes
    <3>. QED
      BY <1>4, <3>2 DEF Grown
<1>11. TakenPages(j, cnt) = TakenPages(m, cnt)
  BY DEF TakenPages
<1>. QED
  BY <1>9, <1>10, <1>11 DEF Taken

\* The same registers, memory and heap.
SameData(n, m) == n.w = m.w /\ n.acl = m.acl /\ n.mem = m.mem /\ n.heap = m.heap

LEMMA SoundToo ==
  ASSUME NEW m, NEW n, SameData(n, m), Sound(m)
  PROVE  Sound(n) /\ (WithinWords(m) => WithinWords(n)) /\ (PointerInside(m) => PointerInside(n))
BY DEF SameData, Sound, WordsAreSound, MemoryIsSound, WithinWords, PointerInside

Advanced(n, done, p, pc) ==
  /\ WasmBut(n, done, p, {"pc"})
  /\ SameData(n, done) /\ n.exit = done.exit /\ n.gas = done.gas
  /\ n.pc = IF done.exit = Running THEN NextOpcode(p, pc) ELSE pc

(* The loop adds skip to the pointer when the run goes on.                 *)
LEMMA Advances ==
  ASSUME NEW p, IsProgram(p), NEW m, m.pc \in Positions(p), NEW skip, SkipIs(skip, p, m.pc),
         NEW done, IsWasm(done, p), done.pc = m.pc,
         NEW n, n = IF done.exit = Running THEN [done EXCEPT !.pc = u32(@ + skip)] ELSE done
  PROVE  Advanced(n, done, p, m.pc)
<1>1. IsMachine(done)
  BY DEF IsWasm
<1>2. u32(done.pc + skip) = NextOpcode(p, m.pc)
  BY SkipInWords DEF SkipIs
<1>3. WasmBut(n, done, p, {"pc"}) /\ n.pc = IF done.exit = Running THEN NextOpcode(p, m.pc) ELSE m.pc
  <2>1. CASE done.exit = Running
    <3>1. PICK next : next = NextOpcode(p, m.pc)
      OBVIOUS
    <3>2. n = [done EXCEPT !.pc = next]
      BY <1>2, <2>1, <3>1
    <3>3. WasmBut(n, done, p, {"pc"}) /\ n.pc = next
      BY ONLY <3>2, IsWasm(done, p), WasmMoves
    <3>. QED
      BY <2>1, <3>1, <3>3
  <2>2. CASE done.exit # Running
    <3>1. n = done
      BY <2>2
    <3>2. WasmBut(done, done, p, {"pc"})
      BY <1>1 DEF WasmBut, But
    <3>. QED
      BY <2>2, <3>1, <3>2
  <2>. QED
    BY <2>1, <2>2
<1>. QED
  BY <1>1, <1>3, WasmParts DEF SameData, Advanced

(* What one turn changes in the second interpreter: the machine stays      *)
(* sound, and a page fault changes nothing but the exit.                   *)
WasmExecuted(n, m, p, op, o) ==
  /\ WasmBut(n, m, p, {"pc", "w", "acl", "mem", "heap", "exit"})
  /\ Sound(n) /\ WithinWords(n)
  /\ n.pc \in {m.pc, NextOpcode(p, m.pc)} \cup BlockStarts(p)
  /\ n.exit = Running \/ n.exit.why \in {"abort", "panic", "halt", "pageFault"}
  /\ n.exit.why = "pageFault" =>
       /\ op \in Loads \cup Stores
       /\ SameData(n, m) /\ n.pc = m.pc
       /\ Faulted(n, m, op, o)

LEMMA MoreParts ==
  ASSUME NEW p, NEW m, NEW n, NEW s, NEW t, WasmBut(n, m, p, s), s \subseteq t
  PROVE  WasmBut(n, m, p, t)
BY DEF WasmBut, But

LEMMA WasmJumpExecuted ==
  ASSUME NEW p, NEW m, WasmSound(m, p), m.exit = Running, NEW o, OperandsFit(o), NEW n, NEW op, WasmJumped(n, m, p, o)
  PROVE  WasmExecuted(n, m, p, op, o)
<1>1. IsWasm(m, p) /\ IsMachine(m) /\ Sound(m) /\ WithinWords(m)
  BY DEF WasmSound, IsWasm
<1>2. WasmBut(n, m, p, {"pc", "w", "acl", "mem", "heap", "exit"})
  BY MoreParts DEF WasmJumped
<1>3. n.acl = m.acl /\ n.mem = m.mem /\ n.heap = m.heap
  BY <1>1, WasmParts DEF WasmJumped
<1>4. \A r \in RegisterNumbers : n.w[r] \in Register
  <2>1. \A r \in RegisterNumbers : m.w[r] \in Register
    BY <1>1 DEF Sound, WordsAreSound
  <2>2. CASE n.w = m.w
    BY <2>1, <2>2
  <2>3. CASE n.w = [m.w EXCEPT ![o.rA] = o.vX]
    <3>1. o.rA \in RegisterNumbers /\ o.vX \in Register
      BY DEF OperandsFit
    <3>. QED
      BY <1>1, <2>1, <2>3, <3>1, WordsStay
  <2>. QED
    BY <2>2, <2>3 DEF WasmJumped
<1>5. Sound(n) /\ WithinWords(n)
  BY <1>1, <1>3, <1>4 DEF Sound, WordsAreSound, MemoryIsSound, WithinWords
<1>6. n.exit.why # "pageFault" /\ (n.exit = Running \/ n.exit.why \in {"abort", "panic", "halt", "pageFault"})
  BY ExitsAre DEF WasmJumped
<1>. QED
  BY <1>2, <1>5, <1>6 DEF WasmExecuted, WasmJumped

LEMMA WasmExecuteIs ==
  ASSUME NEW p, IsProgram(p), NEW m, WasmSound(m, p), m.pc \in Positions(p), m.exit = Running,
         NEW o, OperandsFit(o), NEW op, DecoderOf(op) # "unknown", op # 0,
         NEW skip, SkipIs(skip, p, m.pc), NEW n, n = WasmExecute(op, m, o, p, skip)
  PROVE  WasmExecuted(n, m, p, op, o)
<1>1. IsWasm(m, p) /\ IsMachine(m) /\ Sound(m) /\ WithinWords(m)
  BY DEF WasmSound, IsWasm
<1>2. \A r \in RegisterNumbers : m.w[r] \in Register
  BY <1>1 DEF Sound, WordsAreSound
<1>3. CASE op \in WasmJumps
  <2>1. n = WasmJump(op, m, o, p, skip)
    BY <1>3 DEF WasmExecute
  <2>2. PICK nj : nj = EvaluateJump(op, m, o, p, IxPointerCache(p), skip)
    OBVIOUS
  <2>3. WasmJumped(n, m, p, o)
    BY <1>1, <1>2, <1>3, <2>1, <2>2, JumpsAgree
  <2>. QED
    BY <2>3, WasmJumpExecuted
<1>4. ASSUME NEW done, n = IF done.exit = Running THEN [done EXCEPT !.pc = u32(@ + skip)] ELSE done,
             NEW s \in SUBSET {"w", "acl", "mem", "heap"}, WasmBut(done, m, p, s), Sound(done), WithinWords(done)
      PROVE  WasmExecuted(n, m, p, op, o)
  <2>1. IsWasm(done, p) /\ done.pc = m.pc /\ done.exit = Running
    BY <1>1, <1>4, WasmParts
  <2>2. WasmBut(n, done, p, {"pc"}) /\ SameData(n, done) /\ n.exit = Running /\ n.pc = NextOpcode(p, m.pc)
    <3>1. Advanced(n, done, p, m.pc)
      BY <1>4, <2>1, Advances
    <3>. QED
      BY <2>1, <3>1 DEF Advanced
  <2>3. WasmBut(n, m, p, s \cup {"pc"})
    BY <1>4, <2>2, WasmThen
  <2>4. s \cup {"pc"} \subseteq {"pc", "w", "acl", "mem", "heap", "exit"}
    OBVIOUS
  <2>5. WasmBut(n, m, p, {"pc", "w", "acl", "mem", "heap", "exit"})
    BY ZenonT(30), <2>3, <2>4, MoreParts
  <2>6. Sound(n) /\ WithinWords(n)
    BY <1>4, <2>2, SoundToo
  <2>. QED
    BY <2>2, <2>5, <2>6, ExitsAre DEF WasmExecuted
<1>5. CASE op \in {1, 10}
  <2>1. PICK done : done = IF op = 1 THEN m ELSE [m EXCEPT !.hostCall = u8(o.vX)]
    OBVIOUS
  <2>2. op \notin WasmJumps
    BY <1>5 DEF WasmJumps
  <2>3. n = IF done.exit = Running THEN [done EXCEPT !.pc = u32(@ + skip)] ELSE done
    BY <1>5, <2>1, <2>2, Zenon DEF WasmExecute
  <2>4. WasmBut(done, m, p, {}) /\ SameData(done, m)
    <3>1. CASE op = 1
      <4>1. done = m
        BY <2>1, <3>1
      <4>. QED
        BY <1>1, <4>1 DEF WasmBut, But, SameData
    <3>2. CASE op = 10
      <4>1. PICK c : c = u8(o.vX)
        OBVIOUS
      <4>2. done = [m EXCEPT !.hostCall = c]
        BY <2>1, <3>2, <4>1
      <4>3. IsMachine(done) /\ SameData(done, m)
        BY <1>1, <4>2 DEF IsMachine, Parts, SameData
      <4>4. But(done, m, {"hostCall"})
        BY <1>1, <4>2, <4>3 DEF But
      <4>5. IsWasm(done, p)
        BY <1>1, <4>2, <4>3 DEF IsWasm, SkipsAreRight, BeginningsAreRight
      <4>. QED
        BY <4>3, <4>4, <4>5 DEF WasmBut, But
    <3>. QED
      BY <1>5, <3>1, <3>2
  <2>5. Sound(done) /\ WithinWords(done)
    BY <1>1, <2>4, SoundToo
  <2>. QED
    BY <1>4, <2>3, <2>4, <2>5
<1>6. CASE op \in MemoryOpcodes
  <2>1. PICK done : done = WasmMemory(op, m, o)
    OBVIOUS
  <2>2. op \notin WasmJumps /\ op # 1 /\ op # 10
    BY <1>6 DEF WasmJumps, MemoryOpcodes, Loads, Stores
  <2>3. n = IF done.exit = Running THEN [done EXCEPT !.pc = u32(@ + skip)] ELSE done
    BY <1>6, <2>1, <2>2, Zenon DEF WasmExecute, MemoryOpcodes
  <2>4. CASE WasmBut(done, m, p, {"acl", "mem", "heap", "w"}) /\ Sound(done) /\ WithinWords(done)
    BY <1>4, <2>3, <2>4
  <2>5. CASE WasmBut(done, m, p, {"exit"}) /\ op \in Loads \cup Stores /\ Faulted(done, m, op, o)
    <3>1. done.exit.why = "pageFault"
      BY <2>5 DEF Faulted, Exit
    <3>2. n = done
      BY <2>3, <3>1, ExitsAre
    <3>3. SameData(n, m) /\ n.pc = m.pc
      BY <1>1, <2>5, <3>2, WasmParts DEF SameData
    <3>4. Sound(n) /\ WithinWords(n)
      BY <1>1, <3>3, SoundToo
    <3>5. WasmBut(n, m, p, {"pc", "w", "acl", "mem", "heap", "exit"})
      BY <2>5, <3>2, MoreParts
    <3>. QED
      BY <2>5, <3>1, <3>2, <3>3, <3>4, <3>5 DEF WasmExecuted
  <2>. QED
    BY <1>6, <2>1, <2>4, <2>5, WasmMemoryIs
<1>7. CASE op \notin WasmJumps /\ op \notin {1, 10} /\ op \notin MemoryOpcodes
  <2>1. op \in PlainOpcodes
    BY <1>7, PlainKnown
  <2>2. PICK r \in RegisterNumbers, v \in Register : r = Written(op, o) /\ v = WasmWritten(op, m, o)
    BY <1>2, <2>1, WrittenIs, WrittenAgrees
  <2>3. PICK done : done = [m EXCEPT !.w[r] = v]
    OBVIOUS
  <2>4. n = IF done.exit = Running THEN [done EXCEPT !.pc = u32(@ + skip)] ELSE done
    BY <1>7, <2>2, <2>3, Zenon DEF WasmExecute, MemoryOpcodes
  <2>5. WasmBut(done, m, p, {"w"}) /\ done.w = [m.w EXCEPT ![r] = v]
    BY ONLY <1>1, <2>2, <2>3, WasmPuts
  <2>6. Sound(done)
    <3>1. done.acl = m.acl /\ done.mem = m.mem /\ done.heap = m.heap
      BY <1>1, <2>5, WasmParts
    <3>2. \A i \in RegisterNumbers : done.w[i] \in Register
      BY <1>1, <1>2, <2>5, WordsStay
    <3>. QED
      BY <1>1, <3>1, <3>2 DEF Sound, WordsAreSound, MemoryIsSound
  <2>7. WithinWords(done)
    BY <1>1, <2>5, WasmParts DEF WithinWords
  <2>. QED
    BY <1>4, <2>4, <2>5, <2>6, <2>7
<1>. QED
  BY <1>3, <1>5, <1>6, <1>7

\* Two machines in the same state.
SameState(j, m) == SameData(j, m) /\ j.pc = m.pc /\ j.exit = m.exit

\* A store that begins again with other bytes than it should write.
Repeats(op, o, j) == Again(StoredValue(op, j, o), (Base(op, j, o) + o.vX) % Pow(4), BytesMoved(op))

\* The differences that KnownDifference allows in an instruction that both
\* execute: from j in the first, to n in the second.
KnownAt(op, o, skip, j, n) ==
  \/ op = 10
  \/ op = 1 /\ skip # 1
  \/ n.exit = Abort
  \/ op \in Loads /\ n.exit.why = "pageFault"
  \/ op \in 30 .. 33 /\ o.vX >= Pow(4)
  \/ n.exit = Running /\ op \in Stores /\ Repeats(op, o, j)
  \/ op = 70
  \/ op = 101 /\ Sbrk(j, j.w[o.rA]).heap.end >= Pow(4)
  \/ Imprecise(op, j.w[o.rA], j.w[o.rB])
  \/ Different(op, j.w[o.rA], j.w[o.rB])

\* What the first interpreter evaluated, before it advances, and the second after it has.
Agree(nj, n, op, skip) ==
  /\ SameData(nj, n) /\ nj.exit = n.exit
  /\ n.pc = IF HandlesPointer(op) \/ nj.exit.why = "pageFault" THEN nj.pc ELSE nj.pc + skip

LEMMA AgreeAfter ==
  ASSUME NEW p, IsProgram(p), NEW pc \in Positions(p), NEW skip, SkipIs(skip, p, pc), NEW op, ~HandlesPointer(op),
         NEW done, NEW nj, SameData(nj, done), nj.exit = done.exit, nj.pc = pc,
         done.exit = Running \/ done.exit.why = "pageFault",
         NEW n, Advanced(n, done, p, pc)
  PROVE  Agree(nj, n, op, skip)
<1>1. pc + skip = NextOpcode(p, pc)
  BY SkipInWords DEF SkipIs
<1>2. n.exit = done.exit /\ SameData(nj, n)
  BY DEF Advanced, SameData
<1>3. CASE done.exit = Running
  <2>1. n.pc = NextOpcode(p, pc) /\ nj.exit.why # "pageFault"
    BY <1>3, ExitsAre DEF Advanced
  <2>. QED
    BY <1>1, <1>2, <2>1 DEF Agree
<1>4. CASE done.exit.why = "pageFault"
  <2>1. n.pc = pc
    BY <1>4, ExitsAre DEF Advanced
  <2>. QED
    BY <1>2, <1>4, <2>1 DEF Agree
<1>. QED
  BY <1>3, <1>4

LEMMA JumpsAgreeToo ==
  ASSUME NEW p, IsProgram(p), ~(p.len > Half32), NEW m, WasmSound(m, p), m.pc \in Positions(p),
         NEW j, IsMachine(j), SameState(j, m),
         NEW o, OperandsFit(o), NEW op \in WasmJumps,
         NEW skip, SkipIs(skip, p, m.pc), NEW n, n = WasmJump(op, m, o, p, skip),
         NEW nj, nj = Evaluate(op, j, o, p, IxPointerCache(p), skip)
  PROVE  KnownAt(op, o, skip, j, n) \/ Agree(nj, n, op, skip)
<1>1. IsWasm(m, p) /\ IsMachine(m) /\ \A r \in RegisterNumbers : m.w[r] \in Register
  BY DEF WasmSound, IsWasm, Sound, WordsAreSound
<1>2. j.w = m.w /\ j.pc = m.pc /\ j.exit = m.exit /\ j.acl = m.acl /\ j.mem = m.mem /\ j.heap = m.heap
  BY DEF SameState, SameData
<1>3. op \in JumpOpcodes /\ op \in KnownJumps /\ HandlesPointer(op)
  BY DEF WasmJumps, JumpOpcodes, KnownJumps, HandlesPointer
<1>4. nj = EvaluateJump(op, j, o, p, IxPointerCache(p), skip)
  BY <1>3 DEF Evaluate
<1>5. WasmJumped(n, m, p, o) /\ (Imprecise(op, m.w[o.rA], m.w[o.rB]) \/ SameJump(n, nj, p))
  BY <1>1, <1>2, <1>4, JumpsAgree
<1>6. But(nj, j, {"pc", "w", "exit"})
  BY <1>3, <1>4, EvaluateJumpIs
<1>7. nj.acl = j.acl /\ nj.mem = j.mem /\ nj.heap = j.heap
  BY <1>6, ButParts
<1>8. n.acl = m.acl /\ n.mem = m.mem /\ n.heap = m.heap
  BY <1>1, <1>5, WasmParts DEF WasmJumped
<1>9. CASE Imprecise(op, m.w[o.rA], m.w[o.rB])
  BY <1>2, <1>9 DEF KnownAt
<1>10. CASE n.exit = Abort
  BY <1>10 DEF KnownAt
<1>11. CASE nj.pc = n.pc /\ nj.exit = n.exit /\ nj.w = n.w
  BY <1>2, <1>3, <1>7, <1>8, <1>11 DEF Agree, SameData
<1>. QED
  BY <1>5, <1>9, <1>10, <1>11 DEF SameJump

LEMMA LoadsAgree ==
  ASSUME NEW p, NEW m, WasmSound(m, p), NEW j, IsMachine(j), SameState(j, m), m.exit = Running,
         NEW o, OperandsFit(o), NEW op \in Loads,
         NEW done, done = WasmMemory(op, m, o), NEW nj, nj = EvaluateMemory(op, j, o)
  PROVE  \/ done.exit.why = "pageFault"
         \/ SameData(nj, done) /\ nj.exit = done.exit /\ nj.pc = j.pc /\ done.exit = Running /\ done.pc = m.pc
<1>1. IsWasm(m, p) /\ IsMachine(m) /\ WordsAreSound(m) /\ MemoryIsSound(m)
  BY DEF WasmSound, IsWasm, Sound, WordsAreSound
<1>2. j.w = m.w /\ j.pc = m.pc /\ j.exit = m.exit /\ j.acl = m.acl /\ j.mem = m.mem /\ j.heap = m.heap
  BY DEF SameState, SameData
<1>3. BytesMoved(op) \in {1, 2, 4, 8} /\ o.rA \in RegisterNumbers
  BY BytesMovedAre DEF OperandsFit
<1>4. PICK address \in Addresses, value \in Register :
        /\ done = ReadSafe(m, address, BytesMoved(op), o.rA, value)
        /\ nj = LoadAt(j, address, BytesMoved(op), o.rA, value)
  BY <1>1, <1>2, WasmLoadIs
<1>5. CASE /\ CanRead(m.acl, address, BytesMoved(op))
           /\ WasmBut(done, m, p, {"w"}) /\ done.w = [m.w EXCEPT ![o.rA] = value]
  <2>1. nj = [j EXCEPT !.w[o.rA] = value]
    BY <1>2, <1>4, <1>5 DEF LoadAt
  <2>2. But(nj, j, {"w"}) /\ nj.w = [j.w EXCEPT ![o.rA] = value]
    BY ONLY IsMachine(j), <1>3, <2>1, ButRegister
  <2>3. nj.pc = j.pc /\ nj.exit = j.exit /\ nj.acl = j.acl /\ nj.mem = j.mem /\ nj.heap = j.heap
    BY <2>2, ButParts
  <2>4. done.pc = m.pc /\ done.exit = m.exit /\ done.acl = m.acl /\ done.mem = m.mem /\ done.heap = m.heap
    BY <1>1, <1>5, WasmParts
  <2>. QED
    BY <1>2, <1>5, <2>2, <2>3, <2>4 DEF SameData
<1>6. CASE \E v : done.exit = Exit("pageFault", v)
  BY <1>6 DEF Exit
<1>. QED
  BY <1>1, <1>3, <1>4, <1>5, <1>6, WasmReads

LEMMA StoresAgree ==
  ASSUME NEW p, NEW m, WasmSound(m, p), NEW j, IsMachine(j), SameState(j, m), m.exit = Running,
         NEW o, OperandsFit(o), NEW op \in Stores, op # 70, ~(op \in 30 .. 33 /\ o.vX >= Pow(4)),
         NEW done, done = WasmMemory(op, m, o), NEW nj, nj = EvaluateMemory(op, j, o)
  PROVE  \/ done.exit = Running /\ Repeats(op, o, j)
         \/ /\ SameData(nj, done) /\ nj.exit = done.exit /\ nj.pc = j.pc /\ done.pc = m.pc
            /\ done.exit = Running \/ done.exit.why = "pageFault"
<1>1. IsWasm(m, p) /\ IsMachine(m) /\ WordsAreSound(m) /\ MemoryIsSound(m)
  BY DEF WasmSound, IsWasm, Sound, WordsAreSound
<1>2. j.w = m.w /\ j.pc = m.pc /\ j.exit = m.exit /\ j.acl = m.acl /\ j.mem = m.mem /\ j.heap = m.heap
  BY DEF SameState, SameData
<1>3. PICK length \in {1, 2, 4, 8} : length = BytesMoved(op)
  BY BytesMovedAre
<1>4. PICK address \in Addresses, value \in Int :
        /\ address = (Base(op, j, o) + o.vX) % Pow(4)
        /\ value = StoredValue(op, j, o)
        /\ done = WriteSafe(m, address, length, value)
        /\ nj = StoreSafe(j, address, length, value)
  <2>1. Base(op, j, o) = Base(op, m, o) /\ StoredValue(op, j, o) = StoredValue(op, m, o)
    BY <1>2 DEF Base, StoredValue
  <2>. QED
    BY <1>1, <1>2, <1>3, <2>1, WasmStoreIs
<1>5. \/ /\ But(nj, j, {"mem"}) /\ CanWrite(j.acl, address, length)
         /\ nj.mem = WriteAt(j.mem, address, length, value)
      \/ /\ But(nj, j, {"exit"}) /\ ~CanWrite(j.acl, address, length)
         /\ nj.exit = Exit("pageFault", FirstUnwriteable(j.acl, address, length))
  BY <1>4, StoreSafeIs
<1>6. CASE /\ CanWrite(m.acl, address, length)
           /\ WasmBut(done, m, p, {"mem"}) /\ done.mem = WasmWriteAt(m.mem, address, length, value)
  <2>1. But(nj, j, {"mem"}) /\ nj.mem = WriteAt(j.mem, address, length, value)
    BY <1>2, <1>5, <1>6
  <2>2. nj.pc = j.pc /\ nj.exit = j.exit /\ nj.acl = j.acl /\ nj.w = j.w /\ nj.heap = j.heap
    BY <2>1, ButParts
  <2>3. done.pc = m.pc /\ done.exit = m.exit /\ done.acl = m.acl /\ done.w = m.w /\ done.heap = m.heap
    BY <1>1, <1>6, WasmParts
  <2>4. CASE Again(value, address, length)
    BY <1>3, <1>4, <2>3, <2>4 DEF Repeats
  <2>5. CASE ~Again(value, address, length)
    <3>1. length \in Nat
      OBVIOUS
    <3>2. done.mem = WriteAt(m.mem, address, length, value)
      BY <1>6, <2>5, <3>1, WritesAgree
    <3>. QED
      BY <1>2, <2>1, <2>2, <2>3, <3>2 DEF SameData
  <2>. QED
    BY <2>4, <2>5
<1>7. CASE \E v : /\ v = FirstUnwriteable(m.acl, address, length) /\ ~CanWrite(m.acl, address, length)
                  /\ WasmBut(done, m, p, {"exit"}) /\ done.exit = Exit("pageFault", v)
  <2>1. /\ done.exit = Exit("pageFault", FirstUnwriteable(m.acl, address, length))
        /\ ~CanWrite(m.acl, address, length) /\ WasmBut(done, m, p, {"exit"})
    BY <1>7
  <2>2. But(nj, j, {"exit"}) /\ nj.exit = done.exit
    BY <1>2, <1>5, <2>1
  <2>3. nj.pc = j.pc /\ nj.acl = j.acl /\ nj.w = j.w /\ nj.heap = j.heap /\ nj.mem = j.mem
    BY <2>2, ButParts
  <2>4. done.pc = m.pc /\ done.acl = m.acl /\ done.w = m.w /\ done.heap = m.heap /\ done.mem = m.mem
    BY <1>1, <2>1, WasmParts
  <2>5. done.exit.why = "pageFault"
    BY <2>1 DEF Exit
  <2>. QED
    BY <1>2, <2>2, <2>3, <2>4, <2>5 DEF SameData
<1>. QED
  BY <1>1, <1>4, <1>6, <1>7, WasmWrites

LEMMA OthersAreNoJumps ==
  ASSUME NEW op, op \in MemoryOpcodes \cup PlainOpcodes
  PROVE  op \notin WasmJumps /\ op \notin JumpOpcodes /\ ~HandlesPointer(op) /\ op # 1 /\ op # 10
<1>1. CASE op \in MemoryOpcodes
  BY <1>1 DEF MemoryOpcodes, Loads, Stores, WasmJumps, JumpOpcodes, HandlesPointer
<1>2. CASE op \in PlainOpcodes
  BY <1>2 DEF PlainOpcodes, WasmJumps, JumpOpcodes, HandlesPointer
<1>. QED
  BY <1>1, <1>2

(* Both interpreters execute an instruction in the same way, or in one of  *)
(* the ways that KnownDifference lists.                                    *)
LEMMA ExecutesAgree ==
  ASSUME NEW p, IsProgram(p), ~(p.len > Half32), NEW m, WasmSound(m, p), PointerInside(m), m.pc \in Positions(p),
         m.exit = Running, NEW j, IsMachine(j), SameState(j, m),
         NEW o, OperandsFit(o), NEW op, DecoderOf(op) # "unknown", op # 0,
         NEW skip, SkipIs(skip, p, m.pc), NEW n, n = WasmExecute(op, m, o, p, skip),
         NEW nj, nj = Evaluate(op, j, o, p, IxPointerCache(p), skip)
  PROVE  KnownAt(op, o, skip, j, n) \/ Agree(nj, n, op, skip)
<1>1. IsWasm(m, p) /\ IsMachine(m) /\ Sound(m) /\ \A r \in RegisterNumbers : m.w[r] \in Register
  BY DEF WasmSound, IsWasm, Sound, WordsAreSound
<1>2. j.w = m.w /\ j.pc = m.pc /\ j.exit = m.exit /\ j.acl = m.acl /\ j.mem = m.mem /\ j.heap = m.heap
  BY DEF SameState, SameData
<1>3. CASE op \in WasmJumps
  <2>1. n = WasmJump(op, m, o, p, skip)
    BY <1>3 DEF WasmExecute
  <2>. QED
    BY <1>3, <2>1, JumpsAgreeToo
<1>4. CASE op = 10
  BY <1>4 DEF KnownAt
<1>5. CASE op = 1
  <2>1. nj = [j EXCEPT !.pc = @ + 1]
    BY <1>5 DEF Evaluate, EvaluateJump, JumpOpcodes
  <2>2. But(nj, j, {"pc"}) /\ nj.pc = j.pc + 1
    BY <2>1, ButPc
  <2>3. nj.w = j.w /\ nj.acl = j.acl /\ nj.mem = j.mem /\ nj.heap = j.heap /\ nj.exit = j.exit
    BY <2>2, ButParts
  <2>4. op \notin WasmJumps
    BY <1>5 DEF WasmJumps
  <2>5. n = IF m.exit = Running THEN [m EXCEPT !.pc = u32(@ + skip)] ELSE m
    BY <1>5, <2>4, Zenon DEF WasmExecute
  <2>6. Advanced(n, m, p, m.pc)
    BY <1>1, <2>5, Advances
  <2>7. n.w = m.w /\ n.acl = m.acl /\ n.mem = m.mem /\ n.heap = m.heap /\ n.exit = m.exit
        /\ n.pc = NextOpcode(p, m.pc)
    BY <2>6 DEF Advanced, SameData
  <2>8. m.pc + skip = NextOpcode(p, m.pc)
    BY SkipInWords DEF SkipIs
  <2>9. CASE skip = 1
    <3>1. n.pc = nj.pc /\ HandlesPointer(op)
      BY <1>2, <1>5, <2>2, <2>7, <2>8, <2>9 DEF HandlesPointer
    <3>. QED
      BY <1>2, <2>3, <2>7, <3>1 DEF Agree, SameData
  <2>10. CASE skip # 1
    BY <1>5, <2>10 DEF KnownAt
  <2>. QED
    BY <2>9, <2>10
<1>6. CASE op \in MemoryOpcodes
  <2>1. PICK done : done = WasmMemory(op, m, o)
    OBVIOUS
  <2>2. op \notin WasmJumps /\ op \notin JumpOpcodes /\ ~HandlesPointer(op) /\ op # 1 /\ op # 10
    BY <1>6, OthersAreNoJumps
  <2>3. n = IF done.exit = Running THEN [done EXCEPT !.pc = u32(@ + skip)] ELSE done
    BY <1>6, <2>1, <2>2, Zenon DEF WasmExecute, MemoryOpcodes
  <2>4. nj = EvaluateMemory(op, j, o)
    BY <1>6, <2>2 DEF Evaluate, MemoryOpcodes
  <2>5. \/ WasmBut(done, m, p, {"acl", "mem", "heap", "w"})
        \/ WasmBut(done, m, p, {"exit"})
    BY <1>6, <2>1, WasmMemoryIs
  <2>6. IsWasm(done, p) /\ done.pc = m.pc
    BY <1>1, <2>5, WasmParts
  <2>7. Advanced(n, done, p, m.pc)
    BY <2>3, <2>6, Advances
  <2>8. ASSUME SameData(nj, done), nj.exit = done.exit, nj.pc = m.pc, done.exit = Running \/ done.exit.why = "pageFault"
        PROVE  Agree(nj, n, op, skip)
    BY <2>2, <2>7, <2>8, AgreeAfter
  <2>9. CASE op \in Loads
    <3>1. CASE done.exit.why = "pageFault"
      <4>1. n.exit.why = "pageFault"
        BY <2>7, <3>1 DEF Advanced
      <4>. QED
        BY <2>9, <4>1 DEF KnownAt
    <3>2. CASE SameData(nj, done) /\ nj.exit = done.exit /\ nj.pc = j.pc /\ done.exit = Running
      BY <1>2, <2>8, <3>2
    <3>. QED
      BY <2>1, <2>4, <2>9, <3>1, <3>2, LoadsAgree
  <2>10. CASE op \in Stores
    <3>1. CASE op = 70
      BY <3>1 DEF KnownAt
    <3>2. CASE op \in 30 .. 33 /\ o.vX >= Pow(4)
      BY <3>2 DEF KnownAt
    <3>3. CASE op # 70 /\ ~(op \in 30 .. 33 /\ o.vX >= Pow(4))
      <4>1. CASE done.exit = Running /\ Repeats(op, o, j)
        <5>1. n.exit = Running
          BY <2>7, <4>1 DEF Advanced
        <5>. QED
          BY <2>10, <4>1, <5>1 DEF KnownAt
      <4>2. CASE /\ SameData(nj, done) /\ nj.exit = done.exit /\ nj.pc = j.pc /\ done.pc = m.pc
                 /\ done.exit = Running \/ done.exit.why = "pageFault"
        BY <1>2, <2>8, <4>2
      <4>. QED
        BY <2>1, <2>4, <2>10, <3>3, <4>1, <4>2, StoresAgree
    <3>. QED
      BY <3>1, <3>2, <3>3
  <2>11. CASE op = 101
    <3>1. CASE Sbrk(j, j.w[o.rA]).heap.end >= Pow(4)
      BY <2>11, <3>1 DEF KnownAt
    <3>2. CASE ~(Sbrk(j, j.w[o.rA]).heap.end >= Pow(4))
      <4>1. done = WasmSbrk(m, o)
        BY <2>1, <2>11 DEF WasmMemory
      <4>2. SameData(nj, done)
        BY <1>2, <2>4, <2>11, <3>2, <4>1, SbrksAgree DEF SameData
      <4>3. done.exit = m.exit
        <5>1. WasmBut(done, m, p, {"acl", "mem", "heap", "w"})
          BY <4>1, WasmSbrkSound
        <5>. QED
          BY <1>1, <5>1, WasmParts
      <4>4. nj.exit = j.exit /\ nj.pc = j.pc
        <5>1. PICK s : But(s, j, {"acl", "mem", "heap"}) /\ But(nj, s, {"w"})
          BY <2>4, <2>11, SbrkJsIs
        <5>2. IsMachine(s) /\ s.exit = j.exit /\ s.pc = j.pc
          BY <5>1, ButParts DEF But
        <5>. QED
          BY <5>1, <5>2, ButParts
      <4>. QED
        BY <1>2, <2>8, <4>2, <4>3, <4>4
    <3>. QED
      BY <3>1, <3>2
  <2>. QED
    BY <1>6, <2>9, <2>10, <2>11 DEF MemoryOpcodes
<1>7. CASE op \notin WasmJumps /\ op \notin {1, 10} /\ op \notin MemoryOpcodes
  <2>1. op \in PlainOpcodes
    BY <1>7, PlainKnown
  <2>2. op \notin WasmJumps /\ op \notin JumpOpcodes /\ ~HandlesPointer(op)
    BY <2>1, OthersAreNoJumps
  <2>3. CASE Different(op, m.w[o.rA], m.w[o.rB])
    BY <1>2, <2>3 DEF KnownAt
  <2>4. CASE WasmWritten(op, m, o) = WrittenValue(op, j, o)
    <3>0. PICK v : v = WasmWritten(op, m, o)
      OBVIOUS
    <3>1. PICK r \in RegisterNumbers : r = Written(op, o) /\ v = WasmWritten(op, m, o)
      BY <3>0, WrittenIs
    <3>2. PICK done : done = [m EXCEPT !.w[r] = v]
      OBVIOUS
    <3>3. n = IF done.exit = Running THEN [done EXCEPT !.pc = u32(@ + skip)] ELSE done
      BY <1>7, <3>1, <3>2, Zenon DEF WasmExecute, MemoryOpcodes
    <3>4. WasmBut(done, m, p, {"w"}) /\ done.w = [m.w EXCEPT ![r] = v]
      BY ONLY <1>1, <3>1, <3>2, WasmPuts
    <3>5. IsWasm(done, p) /\ done.pc = m.pc /\ done.exit = m.exit /\ done.acl = m.acl /\ done.mem = m.mem
          /\ done.heap = m.heap
      BY <1>1, <3>4, WasmParts
    <3>6. Advanced(n, done, p, m.pc)
      BY <3>3, <3>5, Advances
    <3>7. But(nj, j, {"w"}) /\ nj.w = [j.w EXCEPT ![Written(op, o)] = WrittenValue(op, j, o)]
      <4>1. PICK cache : cache = IxPointerCache(p)
        OBVIOUS
      <4>2. nj = Evaluate(op, j, o, p, cache, skip)
        BY <4>1
      <4>. QED
        BY ONLY <1>7, <2>2, <4>2, IsMachine(j), OperandsFit(o), PlainIs
    <3>8. nj.pc = j.pc /\ nj.exit = j.exit /\ nj.acl = j.acl /\ nj.mem = j.mem /\ nj.heap = j.heap
      BY <3>7, ButParts
    <3>9. SameData(nj, done) /\ nj.exit = done.exit /\ nj.pc = m.pc /\ done.exit = Running
      BY <1>2, <2>4, <3>1, <3>4, <3>5, <3>7, <3>8 DEF SameData
    <3>. QED
      BY <2>2, <3>6, <3>9, AgreeAfter
  <2>5. \/ Different(op, m.w[o.rA], m.w[o.rB])
        \/ WasmWritten(op, m, o) = WrittenValue(op, j, o)
    BY <1>1, <1>2, <2>1, WrittenAgrees
  <2>. QED
    BY <2>3, <2>4, <2>5
<1>. QED
  BY <1>3, <1>4, <1>5, <1>6, <1>7

-----------------------------------------------------------------------------
(***************************************************************************)
(* Turns of both agree.                                                    *)
(***************************************************************************)

(* The machine has paid for the instruction it looks at, and knows its     *)
(* length.                                                                 *)
Paid(known, m, p) ==
  /\ WasmBut(known, m, p, {"gas"})
  /\ known.gas = m.gas - 1 /\ known.gas \in Nat
  /\ m.pc \in Positions(p)

(* Turns of the second interpreter that do not reach its switch, and the   *)
(* one that does.                                                          *)
WasmRefused(n, known, m, p) ==
  \/ /\ DecoderOf(p.c[m.pc]) = "unknown" \/ p.c[m.pc] = 0
     /\ n = Leave(known, Panic)
  \/ /\ DecoderOf(p.c[m.pc]) # "unknown"
     /\ AbortsDecoding(DecoderOf(p.c[m.pc]), ArgumentsOf(p, m.pc))
     /\ n = Leave(known, Abort)
  \/ /\ DecoderOf(p.c[m.pc]) # "unknown"
     /\ NotDecodable(DecoderOf(p.c[m.pc]), ArgumentsOf(p, m.pc))
     /\ n = Leave([known EXCEPT !.gas = u64(@ - 1)], Panic)

WasmReaches(n, known, m, p, o, skip) ==
  /\ DecoderOf(p.c[m.pc]) # "unknown" /\ p.c[m.pc] # 0
  /\ ~AbortsDecoding(DecoderOf(p.c[m.pc]), ArgumentsOf(p, m.pc))
  /\ ~NotDecodable(DecoderOf(p.c[m.pc]), ArgumentsOf(p, m.pc))
  /\ SkipIs(skip, p, m.pc)
  /\ o = Operands(DecoderOf(p.c[m.pc]), ArgumentsOf(p, m.pc))
  /\ OperandsFit(o)
  /\ n = WasmExecute(p.c[m.pc], known, o, p, skip)

WasmStepCases(n, m, p) ==
  \/ m.gas = 0 /\ n = Leave(m, Exit("outOfGas", 0))
  \/ m.gas # 0 /\ m.pc >= p.len /\ n = Leave([m EXCEPT !.gas = @ - 1], Panic)
  \/ \E known :
       /\ m.gas # 0
       /\ Paid(known, m, p)
       /\ \/ WasmRefused(n, known, m, p)
          \/ \E o, skip : WasmReaches(n, known, m, p, o, skip)

LEMMA PaidIs ==
  ASSUME NEW p, IsProgram(p), NEW m, WasmSound(m, p), m.gas # 0, m.pc \in Positions(p),
         NEW known, known = WithSkip([m EXCEPT !.gas = @ - 1], p, m.pc)
  PROVE  Paid(known, m, p) /\ SkipIs(known.skips[m.pc], p, m.pc)
<1>1. PICK paid : paid = [m EXCEPT !.gas = @ - 1]
  OBVIOUS
<1>2. IsWasm(m, p) /\ IsMachine(m) /\ m.gas \in Nat
  BY DEF WasmSound, IsWasm
<1>3. But(paid, m, {"gas"}) /\ paid.gas = m.gas - 1 /\ paid.pc = m.pc
  BY <1>1, <1>2 DEF But, IsMachine, Parts
<1>4. WasmBut(paid, m, p, {"gas"})
  BY <1>2, <1>3, ButWasm
<1>5. IsWasm(paid, p) /\ IsMachine(paid)
  BY <1>2, <1>4, WasmParts
<1>6. PICK pc \in Positions(p) : pc = m.pc
  OBVIOUS
<1>7. known = WithSkip(paid, p, pc)
  BY <1>1, <1>6
<1>8. WasmBut(known, paid, p, {}) /\ known.skips[pc] = NextOpcode(p, pc) - pc
  BY <1>5, <1>7, WithSkipIs
<1>9. WasmBut(known, m, p, {"gas"})
  <2>1. WasmBut(known, m, p, {"gas"} \cup {})
    BY <1>4, <1>8, WasmThen
  <2>. QED
    BY <2>1
<1>10. known.gas = paid.gas
  BY <1>5, <1>8, WasmParts
<1>11. m.gas - 1 \in Nat
  BY <1>2
<1>. QED
  BY <1>3, <1>6, <1>8, <1>9, <1>10, <1>11 DEF Paid, SkipIs

LEMMA WasmStepIsCases ==
  ASSUME NEW p, IsProgram(p), NEW m, WasmSound(m, p), NEW n, n = WasmStep(m, p)
  PROVE  WasmStepCases(n, m, p)
<1>1. m.gas \in Nat /\ m.pc \in Nat /\ p.len \in Nat
  BY ProgramIs DEF WasmSound
<1>2. CASE m.gas = 0
  BY <1>2 DEF WasmStep, WasmStepCases
<1>3. CASE m.gas # 0 /\ m.pc >= p.len
  <2>1. m.gas > 0 /\ ~(m.gas = 0)
    BY <1>1, <1>3
  <2>2. n = Leave([m EXCEPT !.gas = @ - 1], Panic)
    BY <1>3, <2>1, Zenon DEF WasmStep
  <2>. QED
    BY <1>3, <2>2 DEF WasmStepCases
<1>4. CASE m.gas # 0 /\ ~(m.pc >= p.len)
  <2>1. m.pc \in Positions(p)
    BY <1>1, <1>4 DEF Positions
  <2>2. PICK known : known = WithSkip([m EXCEPT !.gas = @ - 1], p, m.pc)
    OBVIOUS
  <2>3. Paid(known, m, p) /\ SkipIs(known.skips[m.pc], p, m.pc)
    BY <1>4, <2>1, <2>2, PaidIs
  <2>4. PICK skip, op, decoder, args :
            /\ skip = known.skips[m.pc] /\ op = p.c[m.pc]
            /\ decoder = DecoderOf(op) /\ args = ArgsAt(p, m.pc, skip)
    OBVIOUS
  <2>5. SkipIs(skip, p, m.pc) /\ args = ArgumentsOf(p, m.pc)
    BY <2>3, <2>4 DEF SkipIs, ArgumentsOf
  <2>6. n = CASE decoder = "unknown" \/ op = 0 -> Leave(known, Panic)
              [] AbortsDecoding(decoder, args) -> Leave(known, Abort)
              [] ~AbortsDecoding(decoder, args) /\ NotDecodable(decoder, args) ->
                    Leave([known EXCEPT !.gas = u64(@ - 1)], Panic)
              [] OTHER -> WasmExecute(op, known, WasmOperands(decoder, args), p, skip)
    <3>1. ~(m.gas = 0) /\ ~(m.gas > 0 /\ m.pc >= p.len)
      BY <1>4
    <3>. QED
      BY <2>2, <2>4, <3>1, Zenon DEF WasmStep
  <2>7. AbortsDecoding(decoder, args) => decoder \notin {"unknown", "none"}
    BY DEF AbortsDecoding
  <2>8. decoder \in {"unknown", "none"} => ~NotDecodable(decoder, args)
    BY DEF NotDecodable
  <2>9. op = 0 => decoder = "none"
    BY <2>4 DEF DecoderOf
  <2>10. \A o, s : WasmReaches(n, known, m, p, o, s) \/ WasmRefused(n, known, m, p) => WasmStepCases(n, m, p)
    BY <1>4, <2>3 DEF WasmStepCases
  <2>11. CASE decoder = "unknown" \/ op = 0
    <3>1. n = Leave(known, Panic)
      BY <2>6, <2>7, <2>8, <2>9, <2>11
    <3>. QED
      BY <2>4, <2>10, <2>11, <3>1 DEF WasmRefused
  <2>12. CASE ~(decoder = "unknown" \/ op = 0) /\ AbortsDecoding(decoder, args)
    <3>1. n = Leave(known, Abort)
      BY <2>6, <2>12
    <3>. QED
      BY <2>4, <2>5, <2>10, <2>12, <3>1 DEF WasmRefused
  <2>13. CASE ~(decoder = "unknown" \/ op = 0) /\ ~AbortsDecoding(decoder, args) /\ NotDecodable(decoder, args)
    <3>1. n = Leave([known EXCEPT !.gas = u64(@ - 1)], Panic)
      BY <2>6, <2>13
    <3>. QED
      BY <2>4, <2>5, <2>10, <2>13, <3>1 DEF WasmRefused
  <2>14. CASE ~(decoder = "unknown" \/ op = 0) /\ ~AbortsDecoding(decoder, args) /\ ~NotDecodable(decoder, args)
    <3>1. n = WasmExecute(op, known, WasmOperands(decoder, args), p, skip)
      BY <2>6, <2>14
    <3>2. PICK pc \in Positions(p) : pc = m.pc
      BY <2>1
    <3>3. args = ArgsAt(p, pc, NextOpcode(p, pc) - pc) /\ decoder = DecoderOf(p.c[pc])
      BY <2>4, <2>5, <3>2 DEF ArgumentsOf
    <3>4. args \in Seq(Nat) /\ decoder \in Decoders
      <4>1. p.c[pc] \in Nat
        BY <3>2, ProgramIs
      <4>2. args \in Seq(Nat)
        BY <3>3, ArgumentsAre
      <4>3. decoder \in Decoders
        BY <2>14, <3>3, <4>1, DecodersAre
      <4>. QED
        BY <4>2, <4>3
    <3>5. Readable(decoder, args)
      BY <2>14, <3>4, ReadableWasm
    <3>6. /\ OperandsFit(Operands(DecoderOf(p.c[pc]), args))
          /\ WasmOperands(DecoderOf(p.c[pc]), args) = Operands(DecoderOf(p.c[pc]), args)
      <4>1. DecoderOf(p.c[pc]) # "unknown" /\ Readable(DecoderOf(p.c[pc]), args)
        BY <2>14, <3>3, <3>5
      <4>. QED
        BY <3>3, <4>1, DecodedOperands
    <3>7. PICK o : o = Operands(decoder, args)
      OBVIOUS
    <3>8. OperandsFit(o) /\ n = WasmExecute(op, known, o, p, skip)
      BY <3>1, <3>3, <3>6, <3>7
    <3>9. WasmReaches(n, known, m, p, o, skip)
      BY <2>4, <2>5, <2>14, <3>7, <3>8 DEF WasmReaches
    <3>. QED
      BY <2>10, <3>9
  <2>. QED
    BY <2>11, <2>12, <2>13, <2>14
<1>. QED
  BY <1>2, <1>3, <1>4

(* What a turn of the second interpreter leaves.                           *)
WasmStepped(n, m, p) ==
  /\ WasmSound(n, p)
  /\ n.pc \in {m.pc, NextOpcode(p, m.pc)} \cup BlockStarts(p)
  /\ n.exit = Running \/ n.exit.why \in {"outOfGas", "abort", "panic", "halt", "pageFault"}
  /\ n.exit.why = "pageFault" =>
       /\ m.pc \in Positions(p) /\ p.c[m.pc] \in Loads \cup Stores
       /\ n.gas = m.gas - 1 /\ SameData(n, m) /\ n.pc = m.pc
       /\ \E o : /\ o = Operands(DecoderOf(p.c[m.pc]), ArgumentsOf(p, m.pc))
                 /\ OperandsFit(o)
                 /\ Faulted(n, m, p.c[m.pc], o)

\* n is sound as m is, since only its gas, its exit and its caches differ.
LEMMA SoundApart ==
  ASSUME NEW p, NEW m, WasmSound(m, p), NEW n, NEW s, WasmBut(n, m, p, s), s \subseteq {"gas", "exit"}, n.gas \in Nat
  PROVE  /\ WasmSound(n, p) /\ SameData(n, m) /\ n.pc = m.pc
         /\ ("exit" \notin s => n.exit = m.exit)
<1>1. IsMachine(m) /\ Sound(m) /\ WithinWords(m) /\ m.pc \in Nat
  BY DEF WasmSound, IsWasm
<1>2. /\ IsWasm(n, p) /\ n.pc = m.pc /\ n.w = m.w /\ n.acl = m.acl /\ n.mem = m.mem /\ n.heap = m.heap
      /\ "exit" \notin s => n.exit = m.exit
  BY <1>1, WasmParts
<1>3. SameData(n, m)
  BY <1>2 DEF SameData
<1>4. Sound(n) /\ WithinWords(n)
  BY <1>1, <1>3, SoundToo
<1>. QED
  BY <1>1, <1>2, <1>3, <1>4 DEF WasmSound

\* The run ends, for another reason than a fault.
LEMMA WasmEnds ==
  ASSUME NEW p, IsProgram(p), NEW m, WasmSound(m, p), NEW known, WasmBut(known, m, p, {"gas"}), known.gas \in Nat,
         NEW exit, exit.why \in {"outOfGas", "abort", "panic"}, NEW n, n = Leave(known, exit)
  PROVE  WasmStepped(n, m, p) /\ n.gas = known.gas /\ SameData(n, m) /\ n.pc = m.pc /\ n.exit = exit
<1>1. WasmSound(known, p) /\ SameData(known, m) /\ known.pc = m.pc
  BY SoundApart
<1>2. IsWasm(known, p) /\ IsMachine(known)
  BY <1>1 DEF WasmSound, IsWasm
<1>3. WasmBut(n, known, p, {"exit"}) /\ n.exit = exit
  BY <1>2, WasmLeaves
<1>4. n.gas = known.gas
  BY <1>2, <1>3, WasmParts
<1>5. WasmSound(n, p) /\ SameData(n, known) /\ n.pc = known.pc
  BY <1>1, <1>3, <1>4, SoundApart
<1>6. SameData(n, m)
  BY <1>1, <1>5 DEF SameData
<1>. QED
  BY <1>1, <1>3, <1>4, <1>5, <1>6 DEF WasmStepped

LEMMA PaysGas ==
  ASSUME NEW p, NEW m, IsWasm(m, p), NEW gas \in Nat, NEW n, n = [m EXCEPT !.gas = gas]
  PROVE  WasmBut(n, m, p, {"gas"}) /\ n.gas = gas
<1>1. IsMachine(m)
  BY DEF IsWasm
<1>2. But(n, m, {"gas"}) /\ n.gas = gas
  BY <1>1 DEF But, IsMachine, Parts
<1>. QED
  BY <1>2, ButWasm

LEMMA WasmRefuses ==
  ASSUME NEW p, IsProgram(p), NEW m, WasmSound(m, p), NEW known, Paid(known, m, p), NEW n, WasmRefused(n, known, m, p)
  PROVE  WasmStepped(n, m, p)
<1>1. Panic.why = "panic" /\ Abort.why = "abort"
  BY ExitsAre
<1>2. WasmBut(known, m, p, {"gas"}) /\ known.gas \in Nat /\ IsWasm(known, p) /\ IsMachine(m)
  BY DEF Paid, WasmBut, WasmSound, IsWasm
<1>3. CASE n = Leave(known, Panic)
  BY <1>1, <1>2, <1>3, WasmEnds
<1>4. CASE n = Leave(known, Abort)
  BY <1>1, <1>2, <1>4, WasmEnds
<1>5. CASE n = Leave([known EXCEPT !.gas = u64(@ - 1)], Panic)
  <2>1. PICK gas : gas = u64(known.gas - 1)
    OBVIOUS
  <2>2. gas \in Nat
    <3>1. PICK x \in Int : x = known.gas - 1
      BY <1>2
    <3>2. x % Pow(8) \in Nat
      BY PowIs
    <3>. QED
      BY <2>1, <3>1, <3>2 DEF u64
  <2>3. PICK other : other = [known EXCEPT !.gas = gas]
    OBVIOUS
  <2>4. WasmBut(other, known, p, {"gas"}) /\ other.gas = gas
    BY <1>2, <2>2, <2>3, PaysGas
  <2>5. WasmBut(other, m, p, {"gas"})
    <3>1. WasmBut(other, m, p, {"gas"} \cup {"gas"})
      BY <1>2, <2>4, WasmThen
    <3>. QED
      BY <3>1
  <2>6. n = Leave(other, Panic)
    <3>1. [known EXCEPT !.gas = u64(@ - 1)] = other
      BY <2>1, <2>3
    <3>. QED
      BY <1>5, <3>1
  <2>. QED
    BY <1>1, <2>2, <2>4, <2>5, <2>6, WasmEnds
<1>. QED
  BY <1>3, <1>4, <1>5 DEF WasmRefused

LEMMA WasmReached ==
  ASSUME NEW p, IsProgram(p), NEW m, WasmSound(m, p), m.exit = Running, NEW known, Paid(known, m, p),
         NEW o, NEW skip, NEW n, WasmReaches(n, known, m, p, o, skip)
  PROVE  WasmStepped(n, m, p)
<1>1. WasmSound(known, p) /\ SameData(known, m) /\ known.pc = m.pc /\ known.exit = m.exit
      /\ known.gas = m.gas - 1 /\ m.pc \in Positions(p) /\ known.gas \in Nat
  BY SoundApart DEF Paid
<1>2. PICK op : op = p.c[m.pc]
  OBVIOUS
<1>3. /\ DecoderOf(op) # "unknown" /\ op # 0 /\ OperandsFit(o)
      /\ n = WasmExecute(op, known, o, p, skip)
      /\ o = Operands(DecoderOf(op), ArgumentsOf(p, m.pc))
      /\ SkipIs(skip, p, known.pc)
  BY <1>1, <1>2 DEF WasmReaches
<1>4. WasmExecuted(n, known, p, op, o)
  BY <1>1, <1>3, WasmExecuteIs
<1>5. IsMachine(known) /\ WasmBut(n, known, p, {"pc", "w", "acl", "mem", "heap", "exit"})
  BY <1>1, <1>4 DEF WasmSound, IsWasm, WasmExecuted
<1>6. IsWasm(n, p) /\ n.gas = known.gas
  BY <1>5, WasmParts
<1>7. n.pc \in {m.pc, NextOpcode(p, m.pc)} \cup BlockStarts(p) /\ n.pc \in Nat
  <2>1. n.pc \in {m.pc, NextOpcode(p, m.pc)} \cup BlockStarts(p)
    BY <1>1, <1>4 DEF WasmExecuted
  <2>2. m.pc \in Nat /\ NextOpcode(p, m.pc) \in Nat
    BY <1>1, SkipInWords DEF WasmSound
  <2>3. BlockStarts(p) \subseteq Nat
    BY ProgramIs DEF BlockStarts
  <2>. QED
    BY <2>1, <2>2, <2>3
<1>8. WasmSound(n, p)
  BY <1>1, <1>4, <1>6, <1>7 DEF WasmSound, WasmExecuted
<1>9. ASSUME n.exit.why = "pageFault"
      PROVE  /\ op \in Loads \cup Stores
             /\ n.gas = m.gas - 1 /\ SameData(n, m) /\ n.pc = m.pc
             /\ Faulted(n, m, op, o)
  <2>1. op \in Loads \cup Stores /\ SameData(n, known) /\ n.pc = known.pc /\ Faulted(n, known, op, o)
    BY <1>4, <1>9 DEF WasmExecuted
  <2>2. Faulted(n, m, op, o)
    BY <1>1, <2>1 DEF Faulted, SameData, Address, Base
  <2>. QED
    BY <1>1, <1>6, <2>1, <2>2 DEF SameData
<1>. QED
  BY <1>1, <1>2, <1>3, <1>4, <1>7, <1>8, <1>9 DEF WasmStepped, WasmExecuted

LEMMA WasmStepIs ==
  ASSUME NEW p, IsProgram(p), NEW m, WasmSound(m, p), m.exit = Running, NEW n, n = WasmStep(m, p)
  PROVE  WasmStepped(n, m, p)
<1>1. WasmStepCases(n, m, p)
  BY WasmStepIsCases
<1>2. IsWasm(m, p) /\ IsMachine(m) /\ m.gas \in Nat
  BY DEF WasmSound, IsWasm
<1>3. CASE m.gas = 0 /\ n = Leave(m, Exit("outOfGas", 0))
  <2>1. WasmBut(m, m, p, {"gas"})
    BY <1>2 DEF WasmBut, But
  <2>2. PICK exit : exit = Exit("outOfGas", 0)
    OBVIOUS
  <2>3. exit.why = "outOfGas"
    BY <2>2 DEF Exit
  <2>. QED
    BY <1>2, <1>3, <2>1, <2>2, <2>3, WasmEnds
<1>4. CASE m.gas # 0 /\ n = Leave([m EXCEPT !.gas = @ - 1], Panic)
  <2>1. PICK gas \in Nat : gas = m.gas - 1
    BY <1>2, <1>4
  <2>2. PICK paid : paid = [m EXCEPT !.gas = gas]
    OBVIOUS
  <2>3. WasmBut(paid, m, p, {"gas"}) /\ paid.gas = gas
    BY <1>2, <2>2, PaysGas
  <2>4. n = Leave(paid, Panic)
    <3>1. [m EXCEPT !.gas = @ - 1] = paid
      BY <2>1, <2>2
    <3>. QED
      BY <1>4, <3>1
  <2>. QED
    BY <2>3, <2>4, ExitsAre, WasmEnds
<1>5. CASE \E known :
             /\ Paid(known, m, p)
             /\ \/ WasmRefused(n, known, m, p)
                \/ \E o, skip : WasmReaches(n, known, m, p, o, skip)
  BY <1>5, WasmRefuses, WasmReached
<1>. QED
  BY <1>1, <1>3, <1>4, <1>5 DEF WasmStepCases

LEMMA FixedStores ==
  ASSUME NEW op \in 30 .. 33
  PROVE  DecoderOf(op) = "twoImm"
BY DEF DecoderOf

(* What a difference in the execution of an instruction is called.         *)
LEMMA KnownIs ==
  ASSUME NEW j, NEW n, NEW skip, SkipIs(skip, prog, j.pc), skip \in Nat \ {0},
         KnownAt(prog.c[j.pc], Operands(DecoderOf(prog.c[j.pc]), ArgumentsOf(prog, j.pc)), skip, j, n)
  PROVE  KnownDifference(j, n)
<1>1. PICK op : op = prog.c[j.pc]
  OBVIOUS
<1>2. PICK o : o = Operands(DecoderOf(op), ArgumentsOf(prog, j.pc))
  OBVIOUS
<1>3. KnownAt(op, o, skip, j, n)
  BY <1>1, <1>2
<1>4. ArgumentsOf(prog, j.pc) = ArgsAt(prog, j.pc, NextOpcode(prog, j.pc) - j.pc)
  BY DEF ArgumentsOf
<1>5. CASE op = 1 /\ skip # 1
  <2>1. ArgumentsOf(prog, j.pc) = ArgsAt(prog, j.pc, skip)
    BY <1>4 DEF SkipIs
  <2>2. DOMAIN ArgsAt(prog, j.pc, skip) = 1 .. skip - 1
    BY DEF ArgsAt
  <2>3. 1 \in 1 .. skip - 1
    BY <1>5
  <2>4. ArgumentsOf(prog, j.pc) # << >>
    BY <2>1, <2>2, <2>3
  <2>. QED
    BY <1>1, <1>4, <1>5, <2>4, Zenon DEF KnownDifference
<1>6. CASE op \in 30 .. 33 /\ o.vX >= Pow(4)
  <2>1. DecoderOf(op) = "twoImm"
    BY <1>6, FixedStores
  <2>2. Instruction(j).op = op /\ Instruction(j).args = ArgumentsOf(prog, j.pc)
    BY <1>1, <1>4 DEF Instruction
  <2>3. TooFar(j)
    BY <1>2, <1>6, <2>1, <2>2 DEF TooFar
  <2>. QED
    BY <2>3, Zenon DEF KnownDifference
<1>7. CASE op = 101 /\ Sbrk(j, j.w[o.rA]).heap.end >= Pow(4)
  BY <1>1, <1>2, <1>4, <1>7, Zenon DEF KnownDifference
<1>8. CASE Imprecise(op, j.w[o.rA], j.w[o.rB])
  BY SMTT(20), <1>1, <1>2, <1>4, <1>8 DEF KnownDifference, Imprecise
<1>9. CASE Different(op, j.w[o.rA], j.w[o.rB])
  BY <1>1, <1>2, <1>4, <1>9, Zenon DEF KnownDifference, Different, Signed, Half32, Half64
<1>10. CASE op = 10 \/ n.exit = Abort \/ (op \in Loads /\ n.exit.why = "pageFault") \/ op = 70
  BY <1>1, <1>10, Zenon DEF KnownDifference
<1>11. CASE n.exit = Running /\ op \in Stores /\ Repeats(op, o, j)
  <2>1. Instruction(j).op = op /\ Instruction(j).args = ArgumentsOf(prog, j.pc)
    BY <1>1, <1>4 DEF Instruction
  <2>2. AddressOf(j) = (Base(op, j, o) + o.vX) % Pow(4)
    BY <1>2, <2>1 DEF AddressOf, Base
  <2>3. StoresFirstBytesAgain(op, j, o)
    BY <1>11, <2>2 DEF StoresFirstBytesAgain, Repeats, Again
  <2>. QED
    BY <1>1, <1>2, <1>4, <1>11, <2>3, Zenon DEF KnownDifference
<1>. QED
  BY <1>3, <1>5, <1>6, <1>7, <1>8, <1>9, <1>10, <1>11 DEF KnownAt

\* Both machines have the same in all that both have.
SameMachine(j, m) == SameState(j, m) /\ j.gas = m.gas

LEMMA CommonIs ==
  ASSUME NEW j, NEW m
  PROVE  Common(j) = Common(m) <=> SameMachine(j, m)
BY DEF Common, SameMachine, SameState, SameData

\* Both runs end for the same reason.
LEMMA BothLeave ==
  ASSUME NEW j, IsMachine(j), NEW m, SameState(j, m), NEW exit,
         NEW gas, NEW nj, nj = [Leave(j, exit) EXCEPT !.gas = gas],
         NEW n, SameData(n, m), n.pc = m.pc, n.exit = exit, n.gas = gas
  PROVE  SameMachine(nj, n)
<1>1. /\ nj.w = j.w /\ nj.acl = j.acl /\ nj.mem = j.mem /\ nj.heap = j.heap
      /\ nj.pc = j.pc /\ nj.gas = gas /\ nj.exit = exit
  BY DEF IsMachine, Parts, Leave
<1>. QED
  BY <1>1 DEF SameMachine, SameState, SameData

\* trap ends both runs.
LEMMA TrapIs ==
  ASSUME NEW j, NEW o, NEW cache, NEW skip
  PROVE  Evaluate(0, j, o, prog, cache, skip) = Leave(j, Panic)
BY DEF Evaluate, EvaluateJump, JumpOpcodes, Leave, Panic

\* Two machines that have the same are about to do a turn.
Twins(j, m, p) ==
  /\ WasmSound(m, p) /\ PointerInside(m) /\ m.exit = Running
  /\ IsMachine(j) /\ SameMachine(j, m)

LEMMA TwinsAre ==
  ASSUME NEW p, NEW j, NEW m, Twins(j, m, p)
  PROVE  /\ IsWasm(m, p) /\ IsMachine(m) /\ m.gas \in Nat /\ m.pc \in Nat
         /\ SameState(j, m) /\ SameData(j, m) /\ j.pc = m.pc /\ j.exit = m.exit /\ j.gas = m.gas
BY DEF Twins, SameMachine, SameState, WasmSound, IsWasm

LEMMA PaidTwins ==
  ASSUME NEW p, NEW j, NEW m, Twins(j, m, p), NEW known, Paid(known, m, p)
  PROVE  /\ WasmSound(known, p) /\ PointerInside(known) /\ known.exit = Running
         /\ SameState(j, known) /\ SameData(known, m) /\ known.pc = m.pc /\ known.gas = m.gas - 1
<1>1. WasmSound(known, p) /\ SameData(known, m) /\ known.pc = m.pc /\ known.exit = m.exit
  BY SoundApart DEF Paid, Twins
<1>2. PointerInside(known)
  BY <1>1 DEF Twins, PointerInside, SameData
<1>3. SameState(j, known)
  BY <1>1, TwinsAre DEF SameState, SameData
<1>. QED
  BY <1>1, <1>2, <1>3 DEF Paid, Twins

(* The turns in which both refuse what they find.                          *)
LEMMA RefusalsAgree ==
  ASSUME IsProgram(prog), NEW j, NEW m, Twins(j, m, prog), NEW known, Paid(known, m, prog),
         NEW n, WasmRefused(n, known, m, prog), m.gas # 0,
         NEW nj, nj = SingleStep(j, prog, IxPointerCache(prog))
  PROVE  KnownDifference(j, n) \/ SameMachine(nj, n)
<1>1. StepCases(nj, j, prog)
  BY SingleStepCases DEF Twins
<1>2. /\ m.gas \in Nat /\ m.pc \in Nat /\ SameState(j, m) /\ j.pc = m.pc /\ j.gas = m.gas /\ IsMachine(j) /\ j.exit = m.exit
      /\ m.pc \in Positions(prog) /\ WasmBut(known, m, prog, {"gas"}) /\ known.gas = m.gas - 1 /\ known.gas \in Nat
      /\ WasmSound(m, prog)
  BY TwinsAre DEF Twins, Paid
<1>3. ~(j.gas <= 0)
  BY <1>2
<1>4. CASE prog.k[j.pc] = 0
  BY <1>4, Zenon DEF KnownDifference
<1>5. CASE /\ DecoderOf(prog.c[m.pc]) # "unknown"
           /\ AbortsDecoding(DecoderOf(prog.c[m.pc]), ArgumentsOf(prog, m.pc))
           /\ n = Leave(known, Abort)
  <2>1. Abort.why \in {"outOfGas", "abort", "panic"}
    BY ExitsAre
  <2>2. n.exit = Abort
    BY <1>2, <1>5, <2>1, WasmEnds
  <2>. QED
    BY <2>2, Zenon DEF KnownDifference
<1>6. CASE NotDecodable(DecoderOf(prog.c[m.pc]), ArgumentsOf(prog, m.pc))
  <2>1. NotDecodable(DecoderOf(prog.c[j.pc]), ArgsAt(prog, j.pc, NextOpcode(prog, j.pc) - j.pc))
    BY <1>2, <1>6 DEF ArgumentsOf
  <2>. QED
    BY <2>1, Zenon DEF KnownDifference
<1>7. CASE n = Leave(known, Panic) /\ (DecoderOf(prog.c[m.pc]) = "unknown" \/ prog.c[m.pc] = 0) /\ prog.k[j.pc] # 0
  <2>1. Panic.why \in {"outOfGas", "abort", "panic"}
    BY ExitsAre
  <2>2. n.gas = m.gas - 1 /\ SameData(n, m) /\ n.pc = m.pc /\ n.exit = Panic
    BY <1>2, <1>7, <2>1, WasmEnds
  <2>3. PICK gas : gas = m.gas - 1
    OBVIOUS
  <2>4. CASE nj = [Leave(j, Panic) EXCEPT !.gas = @ - 1]
    <3>1. Leave(j, Panic).gas = j.gas
      BY <1>2 DEF Leave, IsMachine, Parts
    <3>2. nj = [Leave(j, Panic) EXCEPT !.gas = gas]
      BY <1>2, <2>3, <2>4, <3>1
    <3>3. n.gas = gas
      BY <2>2, <2>3
    <3>. QED
      BY <1>2, <2>2, <3>2, <3>3, BothLeave
  <2>5. CASE Undecodable(DecoderOf(prog.c[j.pc]), ArgumentsOf(prog, j.pc)) \/ Crashes(DecoderOf(prog.c[j.pc]), ArgumentsOf(prog, j.pc))
    <3>1. ArgumentsOf(prog, j.pc) = ArgsAt(prog, j.pc, NextOpcode(prog, j.pc) - j.pc)
      BY DEF ArgumentsOf
    <3>. QED
      BY <2>5, <3>1, Zenon DEF KnownDifference
  <2>6. ASSUME NEW o, NEW skip, Decoded(j, prog, o, skip),
               nj = HydratedEvaluate(prog.c[j.pc], j, o, prog, IxPointerCache(prog), skip)
        PROVE  SameMachine(nj, n)
    <3>1. prog.c[j.pc] = 0
      BY <1>2, <1>7, <2>6 DEF Decoded
    <3>2. Evaluate(prog.c[j.pc], j, o, prog, IxPointerCache(prog), skip) = Leave(j, Panic)
      BY <3>1, TrapIs
    <3>3. PICK done : done = Leave(j, Panic)
      OBVIOUS
    <3>4. HandlesPointer(prog.c[j.pc])
      BY <3>1 DEF HandlesPointer
    <3>5. nj = [done EXCEPT !.gas = @ - 1, !.pc = @]
      BY <2>6, <3>2, <3>3, <3>4, Zenon DEF HydratedEvaluate
    <3>6. But(done, j, {"exit"}) /\ done.exit = Panic
      BY <1>2, <3>3, LeaveIs
    <3>7. done.gas = j.gas /\ done.pc = j.pc /\ IsMachine(done)
      BY <1>2, <3>6, ButParts DEF But
    <3>8. nj = [Leave(j, Panic) EXCEPT !.gas = gas]
      <4>1. nj = [done EXCEPT !.gas = gas, !.pc = done.pc]
        BY <1>2, <2>3, <3>5, <3>7
      <4>2. [done EXCEPT !.gas = gas, !.pc = done.pc] = [done EXCEPT !.gas = gas]
        BY <3>7 DEF IsMachine, Parts
      <4>. QED
        BY <3>3, <4>1, <4>2
    <3>9. n.gas = gas
      BY <2>2, <2>3
    <3>. QED
      BY <1>2, <2>2, <3>8, <3>9, BothLeave
  <2>. QED
    BY <1>1, <1>3, <2>4, <2>5, <2>6, Zenon DEF StepCases
<1>. QED
  BY <1>2, <1>4, <1>5, <1>6, <1>7 DEF WasmRefused

(* The turns in which the second interpreter executes an instruction.      *)
LEMMA ExecutionsAgree ==
  ASSUME IsProgram(prog), ~(prog.len > Half32), NEW j, NEW m, Twins(j, m, prog), NEW known, Paid(known, m, prog),
         NEW o, NEW skip, NEW n, WasmReaches(n, known, m, prog, o, skip), m.gas # 0,
         NEW nj, nj = SingleStep(j, prog, IxPointerCache(prog))
  PROVE  KnownDifference(j, n) \/ SameMachine(nj, n)
<1>1. StepCases(nj, j, prog)
  BY SingleStepCases DEF Twins
<1>2. /\ m.gas \in Nat /\ m.pc \in Nat /\ SameState(j, m) /\ j.pc = m.pc /\ j.gas = m.gas /\ IsMachine(j)
      /\ m.pc \in Positions(prog)
  BY TwinsAre DEF Paid, Twins
<1>3. /\ WasmSound(known, prog) /\ PointerInside(known) /\ known.exit = Running
      /\ SameState(j, known) /\ known.pc = m.pc /\ known.gas = m.gas - 1
  BY PaidTwins
<1>4. PICK op : op = prog.c[j.pc]
  OBVIOUS
<1>5. /\ DecoderOf(op) # "unknown" /\ op # 0 /\ SkipIs(skip, prog, j.pc) /\ OperandsFit(o)
      /\ o = Operands(DecoderOf(op), ArgumentsOf(prog, j.pc))
      /\ n = WasmExecute(op, known, o, prog, skip)
  BY <1>2, <1>4 DEF WasmReaches
<1>6. ~(j.gas <= 0)
  BY <1>2
<1>7. skip \in Nat \ {0} /\ j.pc \in Positions(prog)
  <2>1. PICK pc \in Positions(prog) : pc = j.pc
    BY <1>2
  <2>2. skip = NextOpcode(prog, pc) - pc
    BY <1>5, <2>1 DEF SkipIs
  <2>. QED
    BY <2>1, <2>2, Skipped
<1>8. CASE prog.k[j.pc] = 0
  BY <1>8, Zenon DEF KnownDifference
<1>9. CASE Undecodable(DecoderOf(op), ArgumentsOf(prog, j.pc)) \/ Crashes(DecoderOf(op), ArgumentsOf(prog, j.pc))
  <2>1. ArgumentsOf(prog, j.pc) = ArgsAt(prog, j.pc, NextOpcode(prog, j.pc) - j.pc)
    BY DEF ArgumentsOf
  <2>. QED
    BY <1>4, <1>9, <2>1, Zenon DEF KnownDifference
<1>10. CASE Decoded(j, prog, o, skip) /\ nj = HydratedEvaluate(op, j, o, prog, IxPointerCache(prog), skip)
  <2>1. PICK done : /\ done = Evaluate(op, j, o, prog, IxPointerCache(prog), skip)
                    /\ But(nj, done, {"gas", "pc"})
                    /\ nj.gas = j.gas - 1
                    /\ nj.pc = IF HandlesPointer(op) \/ done.exit.why = "pageFault" THEN done.pc ELSE done.pc + skip
    <3>1. IsProgram(prog) /\ IsMachine(j) /\ OperandsFit(o) /\ DecoderOf(op) # "unknown"
      BY <1>2, <1>5
    <3>. QED
      BY <1>10, <3>1, HydratedIs
  <2>2. KnownAt(op, o, skip, j, n) \/ Agree(done, n, op, skip)
    <3>1. SkipIs(skip, prog, known.pc) /\ known.pc \in Positions(prog)
      BY <1>2, <1>3, <1>5
    <3>. QED
      BY <1>2, <1>3, <1>5, <2>1, <3>1, ExecutesAgree
  <2>3. CASE KnownAt(op, o, skip, j, n)
    <3>1. KnownAt(prog.c[j.pc], Operands(DecoderOf(prog.c[j.pc]), ArgumentsOf(prog, j.pc)), skip, j, n)
      BY <1>4, <1>5, <2>3
    <3>. QED
      BY <1>5, <1>7, <3>1, KnownIs
  <2>4. CASE Agree(done, n, op, skip)
    <3>1. IsMachine(done)
      <4>1. IsProgram(prog) /\ IsMachine(j) /\ OperandsFit(o) /\ DecoderOf(op) # "unknown"
        BY <1>2, <1>5
      <4>2. But(done, j, {"pc", "w", "acl", "mem", "heap", "exit"})
        BY <2>1, <4>1, EvaluateIs
      <4>. QED
        BY ONLY <4>2 DEF But
    <3>2. SameData(nj, done) /\ nj.exit = done.exit
      BY <2>1, <3>1, ButParts DEF But, SameData, Parts
    <3>3. n.gas = m.gas - 1
      <4>1. IsMachine(known)
        BY <1>3 DEF WasmSound, IsWasm
      <4>2. WasmExecuted(n, known, prog, op, o)
        <5>1. SkipIs(skip, prog, known.pc) /\ known.pc \in Positions(prog)
          BY <1>2, <1>3, <1>5
        <5>. QED
          BY <1>3, <1>5, <5>1, WasmExecuteIs
      <4>3. WasmBut(n, known, prog, {"pc", "w", "acl", "mem", "heap", "exit"})
        BY <4>2 DEF WasmExecuted
      <4>4. n.gas = known.gas
        BY <4>1, <4>3, WasmParts
      <4>. QED
        BY <1>3, <4>4
    <3>4. SameData(nj, n) /\ nj.exit = n.exit /\ nj.pc = n.pc
      BY <2>1, <2>4, <3>2 DEF Agree, SameData
    <3>. QED
      BY <1>2, <2>1, <3>3, <3>4 DEF SameMachine, SameState
  <2>. QED
    BY <2>2, <2>3, <2>4
<1>11. CASE AtInstruction(prog, j.pc) /\ ~Undecodable(DecoderOf(op), ArgumentsOf(prog, j.pc))
            /\ ~Crashes(DecoderOf(op), ArgumentsOf(prog, j.pc))
  <2>1. PICK o1, s1 : Decoded(j, prog, o1, s1) /\ nj = HydratedEvaluate(prog.c[j.pc], j, o1, prog, IxPointerCache(prog), s1)
    BY <1>1, <1>4, <1>6, <1>11, Zenon DEF StepCases
  <2>2. s1 = skip
    BY <1>5, <2>1 DEF Decoded, SkipIs
  <2>3. o1 = o
    BY <1>4, <1>5, <2>1, Zenon DEF Decoded, ArgumentsOf
  <2>. QED
    BY <1>4, <1>10, <2>1, <2>2, <2>3
<1>12. prog.k[j.pc] = 0 \/ AtInstruction(prog, j.pc)
  <2>1. prog.k[j.pc] \in {0, 1}
    BY <1>7, ProgramIs
  <2>. QED
    BY <1>4, <1>5, <1>7, <2>1 DEF AtInstruction
<1>. QED
  BY <1>8, <1>9, <1>11, <1>12

(* One turn of both.                                                       *)
LEMMA StepsAgree ==
  ASSUME IsProgram(prog), ~(prog.len > Half32), NEW j, NEW m, Twins(j, m, prog),
         NEW n, n = WasmStep(m, prog), NEW nj, nj = SingleStep(j, prog, IxPointerCache(prog))
  PROVE  KnownDifference(j, n) \/ SameMachine(nj, n)
<1>1. StepCases(nj, j, prog) /\ WasmStepCases(n, m, prog)
  BY SingleStepCases, WasmStepIsCases DEF Twins
<1>2. /\ m.gas \in Nat /\ m.pc \in Nat /\ SameState(j, m) /\ j.pc = m.pc /\ j.gas = m.gas /\ IsMachine(j)
      /\ WasmSound(m, prog) /\ IsWasm(m, prog) /\ IsMachine(m)
  BY TwinsAre DEF Twins
<1>3. CASE m.gas = 0 /\ n = Leave(m, Exit("outOfGas", 0))
  <2>1. PICK exit : exit = Exit("outOfGas", 0)
    OBVIOUS
  <2>2. exit.why = "outOfGas"
    BY <2>1 DEF Exit
  <2>3. WasmBut(m, m, prog, {"gas"})
    BY <1>2 DEF WasmBut, But
  <2>4. n.gas = m.gas /\ SameData(n, m) /\ n.pc = m.pc /\ n.exit = exit
    BY <1>2, <1>3, <2>1, <2>2, <2>3, WasmEnds
  <2>5. nj = Leave(j, exit)
    <3>1. j.gas <= 0
      BY <1>2, <1>3
    <3>. QED
      BY <2>1, <3>1, Zenon DEF SingleStep
  <2>6. nj = [Leave(j, exit) EXCEPT !.gas = m.gas]
    BY <1>2, <2>5 DEF Leave, IsMachine, Parts
  <2>. QED
    BY <1>2, <2>4, <2>6, BothLeave
<1>4. CASE m.gas # 0 /\ m.pc >= prog.len /\ n = Leave([m EXCEPT !.gas = @ - 1], Panic)
  <2>1. PICK gas \in Nat : gas = m.gas - 1
    BY <1>2, <1>4
  <2>2. PICK paid : paid = [m EXCEPT !.gas = gas]
    OBVIOUS
  <2>3. WasmBut(paid, m, prog, {"gas"}) /\ paid.gas = gas
    BY <1>2, <2>2, PaysGas
  <2>4. n = Leave(paid, Panic)
    <3>1. [m EXCEPT !.gas = @ - 1] = paid
      BY <2>1, <2>2
    <3>. QED
      BY <1>4, <3>1
  <2>5. n.gas = gas /\ SameData(n, m) /\ n.pc = m.pc /\ n.exit = Panic
    BY <1>2, <2>3, <2>4, ExitsAre, WasmEnds
  <2>6. nj = [Leave(j, Panic) EXCEPT !.gas = gas]
    <3>1. j.pc \notin Positions(prog)
      <4>1. prog.len \in Nat
        BY ProgramIs
      <4>. QED
        BY <1>2, <1>4, <4>1 DEF Positions
    <3>2. j.pc \notin DOMAIN IxPointerCache(prog)
      BY <3>1, CacheIs
    <3>3. ~(j.gas <= 0)
      BY <1>2, <1>4
    <3>4. nj = [Leave(j, Panic) EXCEPT !.gas = @ - 1]
      BY <3>2, <3>3, Zenon DEF SingleStep
    <3>5. Leave(j, Panic).gas = j.gas
      BY <1>2 DEF Leave, IsMachine, Parts
    <3>. QED
      BY <1>2, <2>1, <3>4, <3>5
  <2>. QED
    BY <1>2, <2>5, <2>6, BothLeave
<1>5. ASSUME NEW known, m.gas # 0, Paid(known, m, prog),
             WasmRefused(n, known, m, prog) \/ \E o, skip : WasmReaches(n, known, m, prog, o, skip)
      PROVE  KnownDifference(j, n) \/ SameMachine(nj, n)
  BY <1>5, RefusalsAgree, ExecutionsAgree
<1>. QED
  BY <1>1, <1>3, <1>4, <1>5, Zenon DEF WasmStepCases

-----------------------------------------------------------------------------
(***************************************************************************)
(* What a turn of the first interpreter leaves.                            *)
(***************************************************************************)

(* The machine of the first interpreter: its heap may pass the last        *)
(* address, and fits a register as long as there is memory for it.         *)
JsSound(m) == IsMachine(m) /\ Sound(m) /\ PointerInside(m)
HeapInRegister(m) == m.heap.pointer \in Register

\* A byte that an instruction may change.
MayChange(n, m, op, o, x) ==
  \/ /\ op \in Stores
     /\ (x - Address(op, m, o)) % Pow(4) < BytesMoved(op)
     /\ m.acl[x \div Zp] = "write"
  \/ /\ op = 101
     /\ x \in m.heap.end .. n.heap.end - 1

\* A store to an address that is not reduced to a word.
FarStore(op, o) == op \in 30 .. 33 /\ o.vX >= Pow(4)

(* What an instruction of the first interpreter does to the machine.       *)
JsExecuted(n, m, op, o) ==
  /\ JsSound(n)
  /\ \A x \in Addresses : n.mem[x] # m.mem[x] => MayChange(n, m, op, o, x)
  /\ n.exit.why = "pageFault" =>
       /\ op \in Loads \cup Stores
       /\ SameData(n, m) /\ n.pc = m.pc
       /\ op \in Stores => FarStore(op, o) \/ Faulted(n, m, op, o)

LEMMA JsSoundIs ==
  ASSUME NEW m, JsSound(m)
  PROVE  /\ IsMachine(m) /\ Sound(m) /\ WordsAreSound(m) /\ MemoryIsSound(m) /\ DOMAIN m.acl = Pages
         /\ \A r \in RegisterNumbers : m.w[r] \in Register
BY DEF JsSound, Sound, WordsAreSound, MemoryIsSound

\* Instructions that leave memory and heap alone.
LEMMA QuietlyExecuted ==
  ASSUME NEW m, JsSound(m), NEW n, But(n, m, {"pc", "w", "exit"}), n.exit.why # "pageFault",
         n.w = m.w \/ \E r \in RegisterNumbers, v \in Register : n.w = [m.w EXCEPT ![r] = v],
         NEW op, NEW o
  PROVE  JsExecuted(n, m, op, o)
<1>1. IsMachine(m) /\ Sound(m) /\ PointerInside(m) /\ IsMachine(n)
  BY DEF JsSound, But
<1>2. n.acl = m.acl /\ n.mem = m.mem /\ n.heap = m.heap
  BY <1>1, ButParts
<1>3. \A i \in RegisterNumbers : n.w[i] \in Register
  <2>1. CASE n.w = m.w
    BY <2>1, JsSoundIs
  <2>2. CASE \E r \in RegisterNumbers, v \in Register : n.w = [m.w EXCEPT ![r] = v]
    <3>1. PICK r \in RegisterNumbers, v \in Register : n.w = [m.w EXCEPT ![r] = v]
      BY <2>2
    <3>2. \A i \in RegisterNumbers : m.w[i] \in Register
      BY JsSoundIs
    <3>. QED
      BY <1>1, <3>1, <3>2, WordsStay
  <2>. QED
    BY <2>1, <2>2
<1>4. Sound(n) /\ PointerInside(n)
  BY <1>1, <1>2, <1>3 DEF Sound, WordsAreSound, MemoryIsSound, PointerInside
<1>. QED
  BY <1>1, <1>2, <1>4 DEF JsExecuted, JsSound

\* The run ends before memory or registers change.
LEMMA FaultedQuietly ==
  ASSUME NEW m, JsSound(m), NEW n, But(n, m, {"exit"}), NEW op \in Loads \cup Stores, NEW o,
         op \in Stores => FarStore(op, o) \/ Faulted(n, m, op, o)
  PROVE  JsExecuted(n, m, op, o)
<1>1. IsMachine(m) /\ Sound(m) /\ PointerInside(m) /\ IsMachine(n)
  BY DEF JsSound, But
<1>2. n.w = m.w /\ n.acl = m.acl /\ n.mem = m.mem /\ n.heap = m.heap /\ n.pc = m.pc
  BY <1>1, ButParts
<1>3. SameData(n, m)
  BY <1>2 DEF SameData
<1>4. Sound(n) /\ PointerInside(n)
  BY <1>1, <1>3, SoundToo
<1>. QED
  BY <1>1, <1>2, <1>3, <1>4 DEF JsExecuted, JsSound

(* A byte's address, from where an access begins.                          *)
LEMMA AddressBack ==
  ASSUME NEW x \in Addresses, NEW address \in Addresses
  PROVE  (address + ((x - address) % Pow(4))) % Pow(4) = x
<1>1. PICK b \in Nat \ {0} : b = Pow(4)
  BY WordBits
<1>2. x \in 0 .. b - 1 /\ address \in 0 .. b - 1
  BY <1>1 DEF Addresses
<1>3. x - address \in Int /\ address \in Int
  BY <1>2
<1>4. (((x - address) % b) + address) % b = (x - address + address) % b
  BY <1>3, RestInside
<1>5. x - address + address = x
  BY <1>2
<1>6. x % b = x
  BY <1>2, SmallRest
<1>7. PICK rest \in Int : rest = (x - address) % b
  BY <1>3, Rest
<1>8. address + rest = rest + address
  BY <1>3, <1>7
<1>9. (address + rest) % b = x
  BY <1>4, <1>5, <1>6, <1>7, <1>8
<1>. QED
  BY <1>1, <1>7, <1>9

LEMMA StoresExecute ==
  ASSUME NEW m, JsSound(m), m.exit.why # "pageFault", NEW o, OperandsFit(o), NEW op \in Stores,
         NEW n, n = EvaluateMemory(op, m, o)
  PROVE  JsExecuted(n, m, op, o)
<1>1. IsMachine(m) /\ Sound(m) /\ WordsAreSound(m) /\ MemoryIsSound(m) /\ DOMAIN m.acl = Pages
  BY JsSoundIs
<1>2. PICK location, value :
        /\ n = StoreSafe(m, location, BytesMoved(op), value)
        /\ op \in 30 .. 33 => location = Float(o.vX)
        /\ op \notin 30 .. 33 => location = (Base(op, m, o) + o.vX) % Pow(4)
        /\ value \in Int
  BY <1>1, EvaluateStoreIs
<1>3. PICK length \in Nat \ {0} : length = BytesMoved(op)
  BY BytesMovedAre
<1>4. o.vX \in Register /\ o.vX \in Nat /\ o.vX \in Int
  BY RegisterIs DEF OperandsFit
<1>5. \/ /\ But(n, m, {"mem"}) /\ CanWrite(m.acl, location, length)
         /\ n.mem = WriteAt(m.mem, location, length, value)
      \/ /\ But(n, m, {"exit"}) /\ ~CanWrite(m.acl, location, length)
         /\ n.exit = Exit("pageFault", FirstUnwriteable(m.acl, location, length))
  BY <1>1, <1>2, <1>3, StoreSafeIs
<1>6. PICK w \in Nat \ {0} : w = Pow(4) /\ w <= 2^FloatBits /\ 2^FloatBits \in Nat
  BY WordBits, WidthsAssumption, WordsAssumption, PowersGrow, Doubling
<1>7. CASE FarStore(op, o)
  <2>1. location \in Nat /\ location >= Pow(4)
    <3>1. location = Float(o.vX) /\ o.vX >= w
      BY <1>2, <1>6, <1>7 DEF FarStore
    <3>2. PICK f \in Nat : f = 2^FloatBits
      BY <1>6
    <3>3. Float(o.vX) \in Nat /\ (o.vX < f => Float(o.vX) = o.vX) /\ (~(o.vX < f) => f <= Float(o.vX))
      BY <1>4, <3>2, FloatIs
    <3>4. Float(o.vX) >= w
      BY <1>4, <1>6, <3>1, <3>2, <3>3
    <3>. QED
      BY <1>6, <3>1, <3>3, <3>4
  <2>2. ~CanWrite(m.acl, location, length)
    BY <1>1, <1>3, <2>1, NothingBeyond
  <2>3. But(n, m, {"exit"})
    BY <1>5, <2>2
  <2>. QED
    BY <1>7, <2>3, FaultedQuietly
<1>8. CASE ~FarStore(op, o)
  <2>1. PICK address \in Addresses : address = Address(op, m, o)
    <3>1. Base(op, m, o) + o.vX \in Int
      BY <1>1, <1>4, RegisterIs DEF Base, OperandsFit, WordsAreSound
    <3>. QED
      BY <3>1, AddressIs DEF Address
  <2>2. location = address
    <3>1. CASE op \in 30 .. 33
      <4>1. o.vX < w /\ o.vX < 2^FloatBits
        BY <1>4, <1>6, <1>8, <3>1 DEF FarStore
      <4>2. location = o.vX
        BY <1>2, <1>4, <3>1, <4>1, FloatIs
      <4>3. Base(op, m, o) + o.vX = o.vX
        BY <1>4, <3>1 DEF Base
      <4>4. PICK x \in 0 .. w - 1 : x = o.vX
        BY <1>4, <4>1
      <4>5. x % w = x
        BY <4>4, SmallRest
      <4>6. address = x % w
        BY <1>6, <2>1, <4>3, <4>4 DEF Address
      <4>. QED
        BY <4>2, <4>4, <4>5, <4>6
    <3>2. CASE op \notin 30 .. 33
      BY <1>2, <2>1, <3>2 DEF Address
    <3>. QED
      BY <3>1, <3>2
  <2>3. PICK v : v = FirstUnwriteable(m.acl, address, length)
    OBVIOUS
  <2>4. \/ v = None /\ Allowed({"write"}, m.acl, address, length)
        \/ v # None /\ v \in Nat /\ Forbidden({"write"}, m.acl, address, length, v)
    BY <1>1, <1>3, <2>3, FirstWithoutIs DEF FirstUnwriteable
  <2>5. CASE /\ But(n, m, {"mem"}) /\ CanWrite(m.acl, location, length)
             /\ n.mem = WriteAt(m.mem, location, length, value)
    <3>1. Allowed({"write"}, m.acl, address, length)
      BY <2>2, <2>3, <2>4, <2>5 DEF CanWrite
    <3>2. n.w = m.w /\ n.acl = m.acl /\ n.heap = m.heap /\ n.exit = m.exit /\ n.pc = m.pc /\ IsMachine(n)
      BY <1>1, <2>5, ButParts DEF But
    <3>3. address \in Int /\ m.mem \in [Addresses -> Byte]
      BY <1>1, WordBits DEF MemoryIsSound, Addresses
    <3>4. \A x \in Addresses : n.mem[x] # m.mem[x] => (x - address) % Pow(4) < length
      BY <1>2, <2>2, <2>5, <3>3, WrittenBytes
    <3>5. ASSUME NEW x \in Addresses, n.mem[x] # m.mem[x] PROVE MayChange(n, m, op, o, x)
      <4>1. PICK k \in 0 .. length - 1 : k = (x - address) % Pow(4)
        <5>1. (x - address) % Pow(4) < length
          BY <3>4, <3>5
        <5>2. x - address \in Int
          BY <3>3, WordBits DEF Addresses
        <5>3. PICK rest \in Nat : rest = (x - address) % Pow(4)
          <6>1. (x - address) % w \in 0 .. w - 1
            BY <1>6, <5>2, Rest
          <6>. QED
            BY <1>6, <6>1
        <5>. QED
          BY <1>3, <5>1, <5>3
      <4>2. PageOf(address, k) = x \div Zp
        <5>1. (address + k) % Pow(4) = x
          BY <4>1, AddressBack
        <5>. QED
          BY <5>1 DEF PageOf
      <4>3. m.acl[x \div Zp] = "write"
        BY <3>1, <4>2 DEF Allowed
      <4>4. (x - Address(op, m, o)) % Pow(4) < BytesMoved(op)
        BY <1>3, <2>1, <3>4, <3>5
      <4>. QED
        BY <4>3, <4>4 DEF MayChange
    <3>6. Sound(n)
      BY <1>1, <1>2, <2>2, <2>5, <3>3, SoundWithBytes
    <3>7. PointerInside(n)
      BY <3>2 DEF JsSound, PointerInside
    <3>. QED
      BY <3>2, <3>5, <3>6, <3>7 DEF JsExecuted, JsSound
  <2>6. CASE /\ But(n, m, {"exit"}) /\ ~CanWrite(m.acl, location, length)
             /\ n.exit = Exit("pageFault", FirstUnwriteable(m.acl, location, length))
    <3>1. n.exit = Exit("pageFault", v) /\ Forbidden({"write"}, m.acl, address, length, v)
      BY <2>2, <2>3, <2>4, <2>6 DEF CanWrite
    <3>2. Needed(op) = {"write"}
      BY DEF Needed, Loads, Stores
    <3>3. Faulted(n, m, op, o)
      BY <1>3, <2>1, <3>1, <3>2 DEF Faulted
    <3>. QED
      BY <2>6, <3>3, FaultedQuietly
  <2>. QED
    BY <1>5, <2>5, <2>6
<1>. QED
  BY <1>7, <1>8

LEMMA LoadsExecute ==
  ASSUME NEW m, JsSound(m), m.exit.why # "pageFault", NEW o, OperandsFit(o), NEW op \in Loads,
         NEW n, n = EvaluateMemory(op, m, o)
  PROVE  JsExecuted(n, m, op, o)
<1>1. IsMachine(m) /\ WordsAreSound(m)
  BY JsSoundIs
<1>2. CASE But(n, m, {"exit"})
  <2>1. op \notin Stores
    BY DEF Loads, Stores
  <2>. QED
    BY <1>2, <2>1, FaultedQuietly
<1>3. CASE /\ But(n, m, {"w"})
           /\ \E value \in Register : n.w = [m.w EXCEPT ![o.rA] = value]
  <2>1. o.rA \in RegisterNumbers
    BY DEF OperandsFit
  <2>2. \E r \in RegisterNumbers, v \in Register : n.w = [m.w EXCEPT ![r] = v]
    BY <1>3, <2>1
  <2>3. n.exit = m.exit
    BY <1>1, <1>3, ButParts
  <2>4. But(n, m, {"pc", "w", "exit"})
    BY <1>3 DEF But
  <2>5. n.exit.why # "pageFault"
    BY <2>3
  <2>. QED
    BY <2>2, <2>4, <2>5, QuietlyExecuted
<1>. QED
  BY <1>1, <1>2, <1>3, EvaluateLoadIs

\* The pages a heap takes begin at its end.
LEMMA TakenInside ==
  ASSUME NEW end \in Nat, end % Zp = 0, NEW cnt \in Nat, NEW x \in Nat,
         x \div Zp \in end \div Zp .. (end \div Zp) + cnt - 1
  PROVE  x \in end .. end + cnt * Zp - 1
<1>1. PICK z \in Nat \ {0} : z = Zp
  BY PagesDivide
<1>2. PICK q \in Int, r \in Int : q = x \div z /\ r = x % z /\ r \in 0 .. z - 1 /\ x = z * q + r
  <2>1. x \div z \in Int /\ x % z \in 0 .. z - 1 /\ x = z * (x \div z) + (x % z)
    BY Rest
  <2>2. x % z \in Int
    BY <2>1
  <2>. QED
    BY <2>1, <2>2
<1>3. PICK e \in Int : e = end \div z /\ end = z * e
  <2>1. end \in Int /\ end % z = 0
    BY <1>1
  <2>2. end \div z \in Int /\ end = z * (end \div z) + (end % z)
    BY <2>1, Rest
  <2>3. PICK e \in Int : e = end \div z
    BY <2>2
  <2>4. z * e \in Int /\ end = z * e + 0
    BY <2>1, <2>2, <2>3
  <2>. QED
    BY <2>3, <2>4
<1>4. q >= e /\ q <= e + cnt - 1
  BY <1>1, <1>2, <1>3
<1>5. z * q >= z * e
  <2>1. CASE q = e
    BY <2>1
  <2>2. CASE e < q
    <3>1. z * e \in Int /\ z * e + z <= z * q /\ z * q \in Int
      BY <2>2, ProductsApart
    <3>. QED
      BY <3>1
  <2>. QED
    BY <1>4, <2>1, <2>2
<1>6. z * q + z <= z * (e + cnt)
  <2>1. q < e + cnt /\ e + cnt \in Int
    BY <1>4
  <2>. QED
    BY <2>1, ProductsApart
<1>7. z * (e + cnt) = z * e + cnt * z
  OBVIOUS
<1>8. z * q \in Int /\ cnt * z \in Int
  OBVIOUS
<1>. QED
  BY <1>1, <1>2, <1>3, <1>5, <1>6, <1>7, <1>8

LEMMA SbrkExecutes ==
  ASSUME NEW m, JsSound(m), HeapInRegister(m), m.exit.why # "pageFault", NEW o, OperandsFit(o),
         NEW n, n = EvaluateMemory(101, m, o)
  PROVE  JsExecuted(n, m, 101, o)
<1>1. IsMachine(m) /\ Sound(m) /\ MemoryIsSound(m) /\ \A r \in RegisterNumbers : m.w[r] \in Register
  BY JsSoundIs
<1>2. PICK pointer \in Nat, end \in Nat : /\ m.heap = [end |-> end, pointer |-> pointer] /\ pointer <= end
                                          /\ end % Zp = 0 /\ pointer \in Register
                                          /\ m.heap.end = end
  <2>1. m.heap.pointer \in Nat /\ m.heap.end \in Nat /\ m.heap = [end |-> m.heap.end, pointer |-> m.heap.pointer]
        /\ m.heap.end % Zp = 0
    BY <1>1 DEF Sound
  <2>. QED
    BY <2>1 DEF JsSound, PointerInside, HeapInRegister
<1>3. PICK size \in Nat : size = Float(m.w[o.rA])
  BY <1>1, FloatIs DEF OperandsFit
<1>4. PICK cnt \in Nat : cnt = PagesTaken(pointer, end, size)
  BY <1>2, <1>3, HeapGrows
<1>5. m.acl = [page \in Pages |-> m.acl[page]] /\ m.mem = [a \in Addresses |-> m.mem[a]]
  BY <1>1 DEF Sound, MemoryIsSound
<1>6. But(n, m, {"acl", "mem", "heap", "w"}) /\ Grown(n, m, o, pointer, end, size, cnt)
  BY <1>1, <1>2, <1>3, <1>4, <1>5, SbrkJsTakes
<1>7. /\ Taken(n, m, TakenPages(m, cnt))
      /\ n.heap = [end |-> end + cnt * Zp, pointer |-> pointer + size]
      /\ n.w = [m.w EXCEPT ![o.rD] = pointer]
  BY <1>6 DEF Grown
<1>8. /\ end + cnt * Zp \in Nat /\ pointer + size <= end + cnt * Zp
      /\ (end + cnt * Zp) % Zp = 0
  BY <1>2, <1>3, <1>4, HeapGrows, EndsWithPage
<1>9. PICK last \in Nat, next \in Nat : /\ last = end + cnt * Zp /\ next = pointer + size /\ next <= last /\ last % Zp = 0
                                        /\ n.heap = [end |-> last, pointer |-> next]
  BY <1>2, <1>3, <1>7, <1>8
<1>10. MemoryIsSound(n) /\ n.acl = [page \in Pages |-> n.acl[page]]
  BY <1>1, <1>7, TakenIsSound
<1>11. \A i \in RegisterNumbers : n.w[i] \in Register
  BY <1>1, <1>2, <1>7, WordsStay DEF OperandsFit
<1>12. IsMachine(n) /\ Sound(n) /\ PointerInside(n)
  BY <1>6, <1>9, <1>10, <1>11 DEF But, Sound, WordsAreSound, PointerInside
<1>13. n.exit = m.exit
  BY <1>1, <1>6, ButParts
<1>14. ASSUME NEW x \in Addresses, n.mem[x] # m.mem[x] PROVE MayChange(n, m, 101, o, x)
  <2>1. x \div Zp \in TakenPages(m, cnt)
    BY <1>7, <1>14 DEF Taken
  <2>2. x \div Zp \in end \div Zp .. (end \div Zp) + cnt - 1
    BY <1>2, <2>1 DEF TakenPages
  <2>3. x \in Nat
    BY WordBits DEF Addresses
  <2>4. x \in end .. end + cnt * Zp - 1
    BY <1>2, <2>2, <2>3, TakenInside
  <2>5. x \in end .. last - 1
    <3>1. PICK taken \in Nat : taken = cnt * Zp
      BY PagesDivide, Products
    <3>2. last = end + taken /\ x \in end .. end + taken - 1
      BY <1>9, <2>4, <3>1
    <3>3. last \in Nat /\ end \in Nat
      OBVIOUS
    <3>. QED
      BY ONLY <2>3, <3>1, <3>2, <3>3
  <2>6. n.heap.end = last
    BY ONLY <1>9
  <2>. QED
    BY <1>2, <2>5, <2>6 DEF MayChange
<1>. QED
  BY <1>12, <1>13, <1>14 DEF JsExecuted, JsSound

LEMMA JumpsExecute ==
  ASSUME NEW p, IsProgram(p), NEW m, JsSound(m), m.exit.why # "pageFault", NEW o, OperandsFit(o),
         NEW skip, NEW op \in JumpOpcodes, DecoderOf(op) # "unknown",
         NEW n, n = EvaluateJump(op, m, o, p, IxPointerCache(p), skip)
  PROVE  JsExecuted(n, m, op, o)
<1>1. IsMachine(m) /\ op \in KnownJumps
  BY JsSoundIs, JumpsKnown
<1>2. But(n, m, {"pc", "w", "exit"}) /\ Jumped(n, m, p, skip) /\ (n.w = m.w \/ n.w = [m.w EXCEPT ![o.rA] = o.vX])
  BY <1>1, EvaluateJumpIs
<1>3. n.exit.why # "pageFault"
  BY <1>2 DEF Jumped
<1>4. n.w = m.w \/ \E r \in RegisterNumbers, v \in Register : n.w = [m.w EXCEPT ![r] = v]
  BY <1>2 DEF OperandsFit
<1>. QED
  BY <1>2, <1>3, <1>4, QuietlyExecuted

LEMMA OthersExecute ==
  ASSUME NEW p, NEW m, JsSound(m), m.exit.why # "pageFault", NEW o, OperandsFit(o), NEW skip, NEW cache,
         NEW op, DecoderOf(op) # "unknown", op \notin JumpOpcodes, op \notin MemoryOpcodes,
         NEW n, n = Evaluate(op, m, o, p, cache, skip)
  PROVE  JsExecuted(n, m, op, o)
<1>1. IsMachine(m) /\ \A r \in RegisterNumbers : m.w[r] \in Register
  BY JsSoundIs
<1>2. But(n, m, {"w"}) /\ n.w = [m.w EXCEPT ![Written(op, o)] = WrittenValue(op, m, o)]
  BY ONLY <1>1, PlainIs, OperandsFit(o), op \notin JumpOpcodes, op \notin MemoryOpcodes, n = Evaluate(op, m, o, p, cache, skip)
<1>3. op \in PlainOpcodes
  <2>1. op \notin {0, 1, 10} /\ op \notin WasmJumps
    BY DEF JumpOpcodes, WasmJumps
  <2>. QED
    BY <2>1, PlainKnown
<1>4. Written(op, o) \in RegisterNumbers /\ WrittenValue(op, m, o) \in Register
  BY <1>1, <1>3, WrittenIs, WrittenWidth
<1>5. \E r \in RegisterNumbers, v \in Register : n.w = [m.w EXCEPT ![r] = v]
  BY <1>2, <1>4
<1>6. n.exit = m.exit /\ But(n, m, {"pc", "w", "exit"})
  BY <1>1, <1>2, ButParts DEF But
<1>7. n.exit.why # "pageFault"
  BY <1>6
<1>. QED
  BY <1>5, <1>6, <1>7, QuietlyExecuted

LEMMA EvaluateExecutes ==
  ASSUME NEW p, IsProgram(p), NEW m, JsSound(m), HeapInRegister(m), m.exit.why # "pageFault", NEW o, OperandsFit(o),
         NEW skip, NEW op, DecoderOf(op) # "unknown",
         NEW n, n = Evaluate(op, m, o, p, IxPointerCache(p), skip)
  PROVE  JsExecuted(n, m, op, o)
<1>1. CASE op \in JumpOpcodes
  <2>1. n = EvaluateJump(op, m, o, p, IxPointerCache(p), skip)
    BY <1>1 DEF Evaluate
  <2>. QED
    BY <1>1, <2>1, JumpsExecute
<1>2. CASE op \in MemoryOpcodes
  <2>1. n = EvaluateMemory(op, m, o)
    BY <1>2, MemoryIs
  <2>. QED
    BY <1>2, <2>1, LoadsExecute, StoresExecute, SbrkExecutes DEF MemoryOpcodes
<1>3. CASE op \notin JumpOpcodes /\ op \notin MemoryOpcodes
  BY <1>3, OthersExecute
<1>. QED
  BY <1>1, <1>2, <1>3

\* The operands of the instruction at the pointer of m.
OperandsAt(p, m) == Operands(DecoderOf(p.c[m.pc]), ArgumentsOf(p, m.pc))

(* What a turn of the first interpreter leaves.                            *)
JsStepped(n, m, p) ==
  /\ JsSound(n)
  /\ \A x \in Addresses : n.mem[x] # m.mem[x] => MayChange(n, m, p.c[m.pc], OperandsAt(p, m), x)
  /\ n.exit.why = "pageFault" =>
       /\ n.gas = m.gas - 1 /\ SameData(n, m) /\ n.pc = m.pc
       /\ OperandsFit(OperandsAt(p, m))
       /\ p.c[m.pc] \in Stores => \/ FarStore(p.c[m.pc], OperandsAt(p, m))
                                  \/ Faulted(n, m, p.c[m.pc], OperandsAt(p, m))

LEMMA JsStepIs ==
  ASSUME NEW p, IsProgram(p), NEW m, JsSound(m), HeapInRegister(m), m.exit.why # "pageFault",
         NEW n, n = SingleStep(m, p, IxPointerCache(p))
  PROVE  JsStepped(n, m, p)
<1>1. IsMachine(m) /\ Sound(m) /\ PointerInside(m)
  BY DEF JsSound
<1>2. CASE Stopped(n, m, p)
  <2>1. But(n, m, {"pc", "gas", "exit"}) /\ n.exit.why # "pageFault"
    BY <1>2 DEF Stopped
  <2>2. n.w = m.w /\ n.acl = m.acl /\ n.mem = m.mem /\ n.heap = m.heap /\ IsMachine(n)
    BY <1>1, <2>1, ButParts DEF But
  <2>3. SameData(n, m)
    BY <2>2 DEF SameData
  <2>4. Sound(n) /\ PointerInside(n)
    BY <1>1, <2>3, SoundToo
  <2>. QED
    BY <2>1, <2>2, <2>4 DEF JsStepped, JsSound
<1>3. ASSUME NEW o, NEW skip, Decoded(m, p, o, skip),
             n = HydratedEvaluate(p.c[m.pc], m, o, p, IxPointerCache(p), skip)
      PROVE  JsStepped(n, m, p)
  <2>1. PICK op : op = p.c[m.pc]
    OBVIOUS
  <2>2. OperandsFit(o) /\ DecoderOf(op) # "unknown" /\ n = HydratedEvaluate(op, m, o, p, IxPointerCache(p), skip)
    BY <1>3, <2>1 DEF Decoded
  <2>3. o = OperandsAt(p, m)
    BY <1>3, Zenon DEF Decoded, OperandsAt, ArgumentsOf
  <2>4. PICK done :
          /\ done = Evaluate(op, m, o, p, IxPointerCache(p), skip)
          /\ But(n, done, {"gas", "pc"})
          /\ n.gas = m.gas - 1
          /\ n.pc = IF HandlesPointer(op) \/ done.exit.why = "pageFault" THEN done.pc ELSE done.pc + skip
    BY <1>1, <2>2, HydratedIs
  <2>5. JsExecuted(done, m, op, o)
    BY <2>2, <2>4, EvaluateExecutes
  <2>6. JsSound(done) /\ IsMachine(done) /\ Sound(done) /\ PointerInside(done) /\ IsMachine(n)
    BY <2>4, <2>5 DEF JsExecuted, JsSound, But
  <2>7. n.w = done.w /\ n.acl = done.acl /\ n.mem = done.mem /\ n.heap = done.heap /\ n.exit = done.exit
    BY <2>4, <2>6, ButParts
  <2>8. SameData(n, done)
    BY <2>7 DEF SameData
  <2>9. JsSound(n)
    BY <2>6, <2>8, SoundToo DEF JsSound
  <2>10. \A x \in Addresses : n.mem[x] # m.mem[x] => MayChange(n, m, op, o, x)
    BY <2>5, <2>7 DEF JsExecuted, MayChange
  <2>11. ASSUME n.exit.why = "pageFault"
         PROVE  /\ SameData(n, m) /\ n.pc = m.pc
                /\ op \in Stores => FarStore(op, o) \/ Faulted(n, m, op, o)
    <3>1. done.exit.why = "pageFault" /\ n.pc = done.pc
      BY <2>4, <2>7, <2>11
    <3>2. /\ SameData(done, m) /\ done.pc = m.pc
          /\ op \in Stores => FarStore(op, o) \/ Faulted(done, m, op, o)
      BY <2>5, <3>1 DEF JsExecuted
    <3>3. Faulted(done, m, op, o) => Faulted(n, m, op, o)
      BY <2>7 DEF Faulted
    <3>. QED
      BY <2>8, <3>1, <3>2, <3>3 DEF SameData
  <2>. QED
    BY <2>1, <2>2, <2>3, <2>4, <2>9, <2>10, <2>11 DEF JsStepped
<1>. QED
  BY <1>1, <1>2, <1>3, SingleStepIs
(* The words of the properties.                                            *)
LEMMA InstructionIs ==
  ASSUME NEW m
  PROVE  /\ Instruction(m).op = prog.c[m.pc]
         /\ Instruction(m).args = ArgumentsOf(prog, m.pc)
BY DEF Instruction, ArgumentsOf

LEMMA AddressOfIs ==
  ASSUME NEW m
  PROVE  AddressOf(m) = Address(prog.c[m.pc], m, OperandsAt(prog, m))
BY InstructionIs, Zenon DEF AddressOf, Address, Base, OperandsAt

LEMMA FaultNamed ==
  ASSUME NEW m, NEW n, NEW op, op = prog.c[m.pc], op \in Loads \cup Stores, Faulted(n, m, op, OperandsAt(prog, m)),
         WordsAreSound(m), OperandsFit(OperandsAt(prog, m))
  PROVE  NamesItsPage(m, n)
<1>1. PICK v : n.exit = Exit("pageFault", v)
                 /\ Forbidden(Needed(op), m.acl, Address(op, m, OperandsAt(prog, m)), BytesMoved(op), v)
  BY DEF Faulted
<1>2. n.exit.what = v
  BY <1>1 DEF Exit
<1>3. PICK address : address = Address(op, m, OperandsAt(prog, m)) /\ address = AddressOf(m)
  BY AddressOfIs
<1>4. address \in Addresses
  <2>1. PICK o : o = OperandsAt(prog, m) /\ OperandsFit(o)
    OBVIOUS
  <2>2. Base(op, m, o) + o.vX \in Int
    BY <2>1, RegisterIs DEF Base, OperandsFit, WordsAreSound
  <2>. QED
    BY <1>3, <2>1, <2>2, AddressIs DEF Address
<1>5. PICK k \in 0 .. BytesMoved(op) - 1 : v = Zp * PageOf(address, k) /\ m.acl[PageOf(address, k)] \notin Needed(op)
  BY <1>1, <1>3 DEF Forbidden
<1>6. PageOf(address, k) * Zp = v
  <2>1. PICK length \in Nat : length = BytesMoved(op)
    BY BytesMovedAre
  <2>2. PICK i \in Nat : i = k
    BY <2>1
  <2>3. address + i \in Int /\ address \in Nat
    BY <1>4, WordBits DEF Addresses
  <2>4. (address + i) % Pow(4) \in Addresses
    BY <2>3, AddressIs
  <2>5. PICK x \in Nat : x = (address + i) % Pow(4)
    BY <2>4, WordBits DEF Addresses
  <2>6. PICK z \in Nat \ {0} : z = Zp
    BY PagesDivide
  <2>7. PICK q \in Nat : q = x \div z
    BY QuotientAtMost
  <2>8. PageOf(address, k) = q
    BY <2>2, <2>5, <2>6, <2>7 DEF PageOf
  <2>. QED
    BY <1>5, <2>6, <2>8, Products
<1>7. \E i \in 0 .. BytesMoved(op) - 1 :
        /\ PageOf(AddressOf(m), i) * Zp = n.exit.what
        /\ m.acl[PageOf(AddressOf(m), i)] \notin Needed(op)
  BY <1>2, <1>3, <1>5, <1>6
<1>. QED
  BY <1>7, InstructionIs, Zenon DEF NamesItsPage, PageOf, Needed

-----------------------------------------------------------------------------
(***************************************************************************)
(* The invariant of both.                                                  *)
(***************************************************************************)

(* Whatever the two machines do: they stay machines, and the second one is *)
(* sound, and never stops at a host call.                                  *)
MachinesInv ==
  /\ IsProgram(prog)
  /\ IsMachine(js)
  /\ WasmSound(wasm, prog)
  /\ wasm.exit.why # "hostCall"

(* As long as both have done the same they have the same.                  *)
TogetherInv == together => SameMachine(js, wasm) /\ PointerInside(js)

\* The machine a caller goes on with after a fault at a page.
RepairedAt(m, page) ==
  [m EXCEPT !.acl = [p \in Pages |-> IF p = page THEN "write" ELSE @[p]], !.exit = Running]

LEMMA RunningIs == Running.why = "running" /\ Running.why \notin {"hostCall", "pageFault", "halt", "panic", "outOfGas"}
BY DEF Running, Exit

LEMMA InitialMachine ==
  ASSUME NEW w \in [0 .. NRegs - 1 -> Register], NEW i, IsImage(i), NEW pc \in Nat, NEW gas \in Nat,
         NEW m, m = [pc |-> pc, gas |-> gas, w |-> w, acl |-> i.acl, mem |-> i.mem, heap |-> i.heap, exit |-> Running]
  PROVE  /\ IsMachine(m) /\ Sound(m) /\ WithinWords(m) /\ PointerInside(m) /\ HeapInRegister(m)
         /\ m.pc \in Nat /\ m.gas \in Nat /\ m.exit = Running
<1>1. IsMachine(m) /\ m.w = w /\ m.acl = i.acl /\ m.mem = i.mem /\ m.heap = i.heap /\ m.pc = pc /\ m.gas = gas /\ m.exit = Running
  BY DEF IsMachine, Parts, RegisterNumbers
<1>2. PICK f \in Nat \ {0} : f = Pow(4) /\ f <= Pow(8) /\ Pow(8) \in Nat
  BY WordBits
<1>3. /\ i.heap = [end |-> i.heap.end, pointer |-> i.heap.pointer]
      /\ i.heap.end \in 0 .. f /\ i.heap.pointer \in 0 .. f - 1
      /\ i.heap.end % Zp = 0 /\ i.heap.pointer <= i.heap.end
  BY <1>2 DEF IsImage, Addresses
<1>4. MemoryIsSound(m) /\ m.acl = [page \in Pages |-> m.acl[page]]
  BY <1>1 DEF MemoryIsSound, IsImage
<1>5. \A r \in RegisterNumbers : m.w[r] \in Register
  BY <1>1 DEF RegisterNumbers
<1>6. Sound(m)
  BY <1>1, <1>3, <1>4, <1>5 DEF Sound, WordsAreSound
<1>7. WithinWords(m) /\ PointerInside(m)
  BY <1>1, <1>2, <1>3 DEF WithinWords, PointerInside
<1>8. HeapInRegister(m)
  BY <1>1, <1>2, <1>3 DEF HeapInRegister, Register, Width
<1>. QED
  BY <1>1, <1>6, <1>7, <1>8

LEMMA InitialWasm ==
  ASSUME NEW p, IsProgram(p), NEW m, IsMachine(m), Sound(m), WithinWords(m), m.pc \in Nat, m.gas \in Nat
  PROVE  WasmSound(WasmMachine(m, p), p) /\ SameMachine(m, WasmMachine(m, p)) /\ WasmMachine(m, p).exit = m.exit
<1>1. PICK n : n = WasmMachine(m, p)
  OBVIOUS
<1>2. /\ n.pc = m.pc /\ n.gas = m.gas /\ n.w = m.w /\ n.acl = m.acl /\ n.mem = m.mem /\ n.heap = m.heap /\ n.exit = m.exit
      /\ n.skips = [i \in Positions(p) |-> 0]
      /\ n.blockBeginnings = [i \in Positions(p) |-> IF i = 0 THEN 1 ELSE 0]
  BY <1>1 DEF WasmMachine, Positions
<1>3. IsMachine(n) /\ {"hostCall", "skips", "blockBeginnings"} \subseteq DOMAIN n
  BY <1>1 DEF WasmMachine, IsMachine, Parts
<1>4. SkipsAreRight(n, p)
  BY <1>2 DEF SkipsAreRight
<1>5. 0 \in Positions(p) /\ p.k[0] = 1 /\ p.len \in Nat
  BY ProgramIs DEF Positions, IsProgram
<1>6. 0 \in BlockStarts(p)
  BY <1>5 DEF BlockStarts, Positions
<1>7. BeginningsAreRight(n, p)
  BY <1>2, <1>5, <1>6 DEF BeginningsAreRight
<1>8. IsWasm(n, p)
  BY <1>3, <1>4, <1>7 DEF IsWasm
<1>9. SameData(n, m) /\ SameMachine(m, n)
  BY <1>2 DEF SameMachine, SameState, SameData
<1>10. Sound(n) /\ WithinWords(n)
  BY <1>9, SoundToo
<1>. QED
  BY <1>1, <1>2, <1>8, <1>9, <1>10 DEF WasmSound

LEMMA InitialState ==
  ASSUME LockstepInit
  PROVE  MachinesInv /\ TogetherInv /\ JsSound(js)
<1>0. PICK f \in Families :
         \E p \in f.programs, w \in f.registers, i \in f.images, pc \in f.pcs, gas \in f.gas :
           /\ prog = p
           /\ js = [pc |-> pc, gas |-> gas, w |-> w, acl |-> i.acl, mem |-> i.mem, heap |-> i.heap, exit |-> Running]
           /\ wasm = WasmMachine(js, p)
  BY DEF LockstepInit
<1>1. PICK p \in f.programs, w \in f.registers, i \in f.images, pc \in f.pcs, gas \in f.gas :
         /\ prog = p
         /\ js = [pc |-> pc, gas |-> gas, w |-> w, acl |-> i.acl, mem |-> i.mem, heap |-> i.heap, exit |-> Running]
         /\ wasm = WasmMachine(js, p)
  BY <1>0
<1>2. IsProgram(p) /\ w \in [0 .. NRegs - 1 -> Register] /\ IsImage(i) /\ pc \in Nat /\ gas \in Nat
  BY FamiliesAssumption
<1>3. /\ IsMachine(js) /\ Sound(js) /\ WithinWords(js) /\ PointerInside(js)
      /\ js.pc \in Nat /\ js.gas \in Nat /\ js.exit = Running
  BY <1>1, <1>2, InitialMachine
<1>4. WasmSound(wasm, prog) /\ SameMachine(js, wasm) /\ wasm.exit = js.exit
  BY <1>1, <1>2, <1>3, InitialWasm
<1>. QED
  BY <1>1, <1>2, <1>3, <1>4, RunningIs DEF MachinesInv, TogetherInv, JsSound

\* A repair leaves a sound machine.
LEMMA RepairIs ==
  ASSUME NEW m, IsMachine(m), NEW page, NEW n, n = RepairedAt(m, page)
  PROVE  /\ But(n, m, {"acl", "exit"}) /\ n.exit = Running
         /\ n.acl = [p \in Pages |-> IF p = page THEN "write" ELSE m.acl[p]]
         /\ Sound(m) => Sound(n)
<1>1. But(n, m, {"acl", "exit"}) /\ n.exit = Running /\ n.acl = [p \in Pages |-> IF p = page THEN "write" ELSE m.acl[p]]
  BY DEF But, IsMachine, Parts, RepairedAt
<1>2. n.w = m.w /\ n.mem = m.mem /\ n.heap = m.heap
  BY <1>1, ButParts
<1>3. n.acl = [p \in Pages |-> n.acl[p]] /\ DOMAIN n.acl = Pages
  BY <1>1
<1>4. Sound(m) => Sound(n)
  BY <1>2, <1>3 DEF Sound, WordsAreSound, MemoryIsSound
<1>. QED
  BY <1>1, <1>4

LEMMA RepairWasm ==
  ASSUME NEW p, NEW m, WasmSound(m, p), NEW page, NEW n, n = RepairedAt(m, page)
  PROVE  WasmSound(n, p) /\ n.exit = Running
<1>1. IsMachine(m) /\ IsWasm(m, p) /\ Sound(m)
  BY DEF WasmSound, IsWasm
<1>2. But(n, m, {"acl", "exit"}) /\ n.exit = Running /\ Sound(n)
  BY ZenonT(30), <1>1, RepairIs
<1>3. WasmBut(n, m, p, {"acl", "exit"})
  BY <1>1, <1>2, ButWasm
<1>4. IsWasm(n, p) /\ n.pc = m.pc /\ n.gas = m.gas /\ n.heap = m.heap
  BY <1>1, <1>3, WasmParts
<1>. QED
  BY <1>2, <1>4 DEF WasmSound, WithinWords

BothInv == MachinesInv /\ TogetherInv

\* While both have done the same they are sound alike, and about to do the same turn.
LEMMA WhileTogether ==
  ASSUME MachinesInv, TogetherInv, together
  PROVE  /\ js.exit = wasm.exit /\ js.exit.why # "hostCall"
         /\ JsSound(js) /\ HeapInRegister(js)
         /\ js.exit = Running => Twins(js, wasm, prog)
<1>1. IsMachine(js) /\ WasmSound(wasm, prog) /\ wasm.exit.why # "hostCall" /\ SameMachine(js, wasm) /\ PointerInside(js)
  BY DEF MachinesInv, TogetherInv
<1>2. SameData(js, wasm) /\ js.exit = wasm.exit
  BY <1>1 DEF SameMachine, SameState
<1>3. Sound(wasm) /\ WithinWords(wasm)
  BY <1>1 DEF WasmSound
<1>4. SameData(js, wasm) => Sound(js) /\ WithinWords(js)
  BY <1>3, SoundToo
<1>5. PointerInside(wasm)
  BY <1>1, <1>2 DEF PointerInside, SameData
<1>6. HeapInRegister(js)
  <2>1. PICK pointer \in Nat : pointer = js.heap.pointer
    BY <1>2, <1>4 DEF Sound
  <2>2. PICK f \in Nat \ {0}, g \in Nat \ {0} : f = Pow(4) /\ g = Pow(8) /\ f <= g
    BY WordBits
  <2>3. pointer < f
    BY <1>2, <1>4, <2>1, <2>2 DEF WithinWords
  <2>4. pointer \in 0 .. g - 1
    BY <2>1, <2>2, <2>3
  <2>. QED
    BY <2>1, <2>2, <2>4 DEF HeapInRegister, Register, Width
<1>. QED
  BY <1>1, <1>2, <1>4, <1>5, <1>6 DEF JsSound, Twins

LEMMA TurnKeeps ==
  ASSUME BothInv, Turn
  PROVE  BothInv'
<1>1. /\ MachinesInv /\ TogetherInv
      /\ IsProgram(prog) /\ IsMachine(js) /\ WasmSound(wasm, prog) /\ wasm.exit.why # "hostCall"
  BY DEF BothInv, MachinesInv
<1>2. /\ js.exit = Running /\ js' = SingleStep(js, prog, IxPointerCache(prog))
      /\ wasm' = IF together THEN WasmStep(wasm, prog) ELSE wasm
      /\ together' = (together /\ Common(js') = Common(wasm'))
      /\ prog' = prog
  BY DEF Turn
<1>3. IsMachine(js')
  BY <1>1, <1>2, SingleStepMachine
<1>4. WasmSound(wasm', prog) /\ wasm'.exit.why # "hostCall"
  <2>1. CASE together
    <3>1. wasm.exit = Running
      BY <1>1, <1>2, <2>1, WhileTogether
    <3>2. WasmStepped(wasm', wasm, prog)
      BY <1>1, <1>2, <2>1, <3>1, WasmStepIs
    <3>. QED
      BY <3>2, RunningIs DEF WasmStepped
  <2>2. CASE ~together
    BY <1>1, <1>2, <2>2
  <2>. QED
    BY <2>1, <2>2
<1>5. ASSUME together' PROVE SameMachine(js', wasm') /\ PointerInside(js')
  <2>1. together /\ Common(js') = Common(wasm')
    BY <1>2, <1>5
  <2>2. JsSound(js) /\ HeapInRegister(js)
    BY <1>1, <2>1, WhileTogether
  <2>3. js.exit.why # "pageFault"
    BY <1>2, RunningIs
  <2>4. JsStepped(js', js, prog)
    BY <1>1, <1>2, <2>2, <2>3, JsStepIs
  <2>. QED
    BY <2>1, <2>4, CommonIs DEF JsStepped, JsSound
<1>. QED
  BY <1>1, <1>2, <1>3, <1>4, <1>5 DEF BothInv, MachinesInv, TogetherInv

\* A handler changes a register, takes gas and lets the machine go on.
LEMMA AnsweredIs ==
  ASSUME NEW m, IsMachine(m), NEW v \in Answers, NEW cost \in {0, 1},
         NEW n, n = [m EXCEPT !.w[0] = v, !.gas = @ - cost, !.exit = Running]
  PROVE  But(n, m, {"w", "gas", "exit"}) /\ n.w = [m.w EXCEPT ![0] = v]
<1>1. 0 \in RegisterNumbers
  BY RegistersAssumption DEF RegisterNumbers
<1>2. PICK w : w = [m.w EXCEPT ![0] = v]
  OBVIOUS
<1>3. n = [m EXCEPT !.w = w, !.gas = @ - cost, !.exit = Running]
  BY <1>2
<1>4. But(n, m, {"w", "gas", "exit"}) /\ n.w = w
  BY ONLY <1>1, <1>2, <1>3, IsMachine(m) DEF But, IsMachine, Parts
<1>. QED
  BY <1>2, <1>4

LEMMA EndedIs ==
  ASSUME NEW m, IsMachine(m), NEW exit
  PROVE  But([m EXCEPT !.exit = exit], m, {"exit"})
BY DEF But, IsMachine, Parts

LEMMA BothKept ==
  ASSUME BothInv, [LockstepNext]_lockstepVars
  PROVE  BothInv'
<1>1. /\ MachinesInv /\ TogetherInv
      /\ IsProgram(prog) /\ IsMachine(js) /\ WasmSound(wasm, prog) /\ wasm.exit.why # "hostCall"
  BY DEF BothInv, MachinesInv
<1>2. CASE Turn
  BY <1>2, TurnKeeps
<1>3. CASE AnswerHostCall \/ EndInHostCall
  <2>1. js.exit.why = "hostCall" /\ prog' = prog /\ wasm' = wasm /\ together' = together
    BY <1>3 DEF AnswerHostCall, EndInHostCall
  <2>2. ~together
    BY <1>1, <2>1, WhileTogether
  <2>3. IsMachine(js')
    <3>1. CASE AnswerHostCall
      <4>1. PICK v \in Answers, cost \in {0, 1} : js' = [js EXCEPT !.w[0] = v, !.gas = @ - cost, !.exit = Running]
        BY <3>1 DEF AnswerHostCall
      <4>. QED
        BY <1>1, <4>1, AnsweredIs DEF But
    <3>2. CASE EndInHostCall
      <4>1. PICK why \in {"panic", "outOfGas"} : js' = [js EXCEPT !.exit = Exit(why, 0)]
        BY <3>2 DEF EndInHostCall
      <4>. QED
        BY <1>1, <4>1, EndedIs DEF But
    <3>. QED
      BY <1>3, <3>1, <3>2
  <2>. QED
    BY <1>1, <2>1, <2>2, <2>3 DEF BothInv, MachinesInv, TogetherInv
<1>4. CASE RepairAndResume
  <2>1. PICK page : /\ js' = RepairedAt(js, page)
                    /\ wasm' = IF together THEN RepairedAt(wasm, page) ELSE wasm
                    /\ prog' = prog /\ together' = together
    BY <1>4, Zenon DEF RepairAndResume, RepairedAt
  <2>2. /\ But(js', js, {"acl", "exit"}) /\ js'.exit = Running
        /\ js'.acl = [p \in Pages |-> IF p = page THEN "write" ELSE js.acl[p]]
    BY <1>1, <2>1, RepairIs
  <2>3. WasmSound(wasm', prog) /\ wasm'.exit.why # "hostCall"
    <3>1. CASE together
      BY <1>1, <2>1, <3>1, RepairWasm, RunningIs
    <3>2. CASE ~together
      BY <1>1, <2>1, <3>2
    <3>. QED
      BY <3>1, <3>2
  <2>4. ASSUME together' PROVE SameMachine(js', wasm') /\ PointerInside(js')
    <3>1. together /\ SameMachine(js, wasm) /\ PointerInside(js)
      BY <1>1, <2>1, <2>4 DEF TogetherInv
    <3>2. IsMachine(wasm)
      BY <1>1 DEF WasmSound, IsWasm
    <3>3. /\ But(wasm', wasm, {"acl", "exit"}) /\ wasm'.exit = Running
          /\ wasm'.acl = [p \in Pages |-> IF p = page THEN "write" ELSE wasm.acl[p]]
      BY <2>1, <3>1, <3>2, RepairIs
    <3>4. /\ js'.pc = js.pc /\ js'.gas = js.gas /\ js'.w = js.w /\ js'.mem = js.mem /\ js'.heap = js.heap
      BY <1>1, <2>2, ButParts
    <3>5. /\ wasm'.pc = wasm.pc /\ wasm'.gas = wasm.gas /\ wasm'.w = wasm.w /\ wasm'.mem = wasm.mem /\ wasm'.heap = wasm.heap
      BY <3>2, <3>3, ButParts
    <3>. QED
      BY <2>2, <3>1, <3>3, <3>4, <3>5 DEF SameMachine, SameState, SameData, PointerInside
  <2>5. IsMachine(js')
    BY <2>2 DEF But
  <2>. QED
    BY <1>1, <2>1, <2>3, <2>4, <2>5 DEF BothInv, MachinesInv, TogetherInv
<1>5. CASE Finish \/ UNCHANGED lockstepVars
  <2>1. prog' = prog /\ js' = js /\ wasm' = wasm /\ together' = together
    BY <1>5 DEF Finish, lockstepVars
  <2>. QED
    BY <1>1, <2>1 DEF BothInv, MachinesInv, TogetherInv
<1>. QED
  BY <1>2, <1>3, <1>4, <1>5 DEF LockstepNext

(* The steps of the two invariants, for every run.                         *)
THEOREM BothAlways == Lockstep => []BothInv
<1>1. LockstepInit => BothInv
  BY InitialState DEF BothInv
<1>2. BothInv /\ [LockstepNext]_lockstepVars => BothInv'
  BY BothKept
<1>. QED
  BY <1>1, <1>2, PTL DEF Lockstep

-----------------------------------------------------------------------------
(***************************************************************************)
(* The properties, for every run.                                          *)
(***************************************************************************)

\* A machine runs: the step that changes it is a turn.
LEMMA RunningTurns ==
  ASSUME LockstepNext, js.exit = Running
  PROVE  Turn
<1>1. js.exit.why \notin {"hostCall", "pageFault", "halt", "panic", "outOfGas"}
  BY RunningIs
<1>. QED
  BY <1>1 DEF LockstepNext, AnswerHostCall, EndInHostCall, RepairAndResume, Finish

LEMMA TurnIs ==
  ASSUME Turn
  PROVE  /\ js.exit = Running /\ js' = SingleStep(js, prog, IxPointerCache(prog))
         /\ together => wasm' = WasmStep(wasm, prog)
         /\ ~together => wasm' = wasm
         /\ together' = (together /\ Common(js') = Common(wasm'))
         /\ prog' = prog
BY DEF Turn

(* Every step but a turn leaves the pointers alone.                        *)
LEMMA OthersStay ==
  ASSUME BothInv, LockstepNext, ~Turn
  PROVE  /\ js'.pc = js.pc /\ wasm'.pc = wasm.pc /\ prog' = prog /\ js'.mem = js.mem /\ js.exit # Running
         /\ wasm' = wasm \/ wasm'.exit = Running
<1>0. js.exit # Running
  BY RunningTurns
<1>1. IsMachine(js) /\ IsMachine(wasm)
  BY DEF BothInv, MachinesInv, WasmSound, IsWasm
<1>2. CASE AnswerHostCall
  <2>1. PICK v \in Answers, cost \in {0, 1} : js' = [js EXCEPT !.w[0] = v, !.gas = @ - cost, !.exit = Running]
    BY <1>2 DEF AnswerHostCall
  <2>2. But(js', js, {"w", "gas", "exit"})
    BY <1>1, <2>1, AnsweredIs
  <2>3. js'.pc = js.pc /\ js'.mem = js.mem
    BY <1>1, <2>2, ButParts
  <2>4. wasm' = wasm /\ prog' = prog
    BY <1>2 DEF AnswerHostCall
  <2>. QED
    BY <1>0, <2>3, <2>4
<1>3. CASE EndInHostCall
  <2>1. PICK why \in {"panic", "outOfGas"} : js' = [js EXCEPT !.exit = Exit(why, 0)]
    BY <1>3 DEF EndInHostCall
  <2>2. But(js', js, {"exit"})
    BY <1>1, <2>1, EndedIs
  <2>3. js'.pc = js.pc /\ js'.mem = js.mem
    BY <1>1, <2>2, ButParts
  <2>4. wasm' = wasm /\ prog' = prog
    BY <1>3 DEF EndInHostCall
  <2>. QED
    BY <1>0, <2>3, <2>4
<1>4. CASE RepairAndResume
  <2>1. PICK page : /\ js' = RepairedAt(js, page)
                    /\ wasm' = IF together THEN RepairedAt(wasm, page) ELSE wasm
                    /\ prog' = prog
    BY <1>4, Zenon DEF RepairAndResume, RepairedAt
  <2>2. js'.pc = js.pc /\ js'.mem = js.mem
    <3>1. But(js', js, {"acl", "exit"})
      BY <1>1, <2>1, RepairIs
    <3>. QED
      BY <1>1, <3>1, ButParts
  <2>3. wasm' = wasm \/ (wasm'.exit = Running /\ wasm'.pc = wasm.pc)
    <3>1. CASE together
      <4>1. But(wasm', wasm, {"acl", "exit"}) /\ wasm'.exit = Running
        BY ZenonT(30), <1>1, <2>1, <3>1, RepairIs
      <4>2. wasm'.pc = wasm.pc
        BY <1>1, <4>1, ButParts
      <4>. QED
        BY <4>1, <4>2
    <3>2. CASE ~together
      BY <2>1, <3>2
    <3>. QED
      BY <3>1, <3>2
  <2>. QED
    BY <1>0, <2>1, <2>2, <2>3
<1>5. CASE Finish
  BY <1>0, <1>5 DEF Finish
<1>. QED
  BY <1>2, <1>3, <1>4, <1>5 DEF LockstepNext

(***************************************************************************)
(* An instruction with an immediate computes what its form with three      *)
(* registers computes, for every value of its operands.                    *)
(***************************************************************************)
THEOREM ImmediateForms == Lockstep => ImmediateFormsAgree
<1>. DEFINE Agreed == js.exit = Running /\ js'.exit = Running /\ prog.c[js.pc] \in DOMAIN RegisterForm =>
                        LET o == Operands("twoRegImm", Instruction(js).args)
                        IN  js'.w[o.rA] = ThreeRegisterValue(RegisterForm[prog.c[js.pc]], js.w[o.rB], o.vX)
<1>1. BothInv /\ [LockstepNext]_lockstepVars => [Agreed]_lockstepVars
  <2>. SUFFICES ASSUME BothInv, LockstepNext, js.exit = Running, js'.exit = Running,
                       prog.c[js.pc] \in DOMAIN RegisterForm
                PROVE  LET o == Operands("twoRegImm", Instruction(js).args)
                       IN  js'.w[o.rA] = ThreeRegisterValue(RegisterForm[prog.c[js.pc]], js.w[o.rB], o.vX)
    OBVIOUS
  <2>1. js' = SingleStep(js, prog, IxPointerCache(prog)) /\ IsProgram(prog) /\ IsMachine(js)
    BY RunningTurns, TurnIs DEF BothInv, MachinesInv
  <2>2. PICK op : op = prog.c[js.pc]
    OBVIOUS
  <2>3. op \in ImmediateOpcodes
    BY <2>2 DEF RegisterForm, ImmediateOpcodes
  <2>4. PICK o : o = Operands("twoRegImm", Instruction(js).args)
    OBVIOUS
  <2>5. o = Operands("twoRegImm", ArgsAt(prog, js.pc, NextOpcode(prog, js.pc) - js.pc))
    BY <2>4 DEF Instruction
  <2>6. js'.w[o.rA] = ThreeRegisterValue(RegisterForm[op], js.w[o.rB], o.vX)
    BY <2>1, <2>2, <2>3, <2>5, ImmediateStep
  <2>. QED
    BY <2>2, <2>4, <2>6
<1>. QED
  BY <1>1, BothAlways, PTL DEF Lockstep, ImmediateFormsAgree

(***************************************************************************)
(* Jumps land on blocks, in both interpreters, for every program.          *)
(***************************************************************************)
THEOREM JumpsLand == Lockstep => JumpsLandOnBlocks
<1>. DEFINE Lands == /\ js'.pc \notin {js.pc, js.pc + 1, NextOpcode(prog, js.pc)} => js'.pc \in BlockStarts(prog)
                     /\ wasm'.pc \notin {wasm.pc, NextOpcode(prog, wasm.pc)} => wasm'.pc \in BlockStarts(prog)
<1>1. BothInv /\ [LockstepNext]_lockstepVars => [Lands]_lockstepVars
  <2>. SUFFICES ASSUME BothInv, LockstepNext
                PROVE  Lands
    OBVIOUS
  <2>1. CASE Turn
    <3>1. /\ IsProgram(prog) /\ IsMachine(js) /\ WasmSound(wasm, prog) /\ MachinesInv /\ TogetherInv
      BY DEF BothInv, MachinesInv
    <3>2. js'.pc \in {js.pc, js.pc + 1, NextOpcode(prog, js.pc)} \cup BlockStarts(prog)
      BY <2>1, <3>1, TurnIs, SingleStepMachine
    <3>3. CASE together
      <4>1. wasm.exit = Running /\ wasm' = WasmStep(wasm, prog)
        BY <2>1, <3>1, <3>3, TurnIs, WhileTogether
      <4>2. WasmStepped(wasm', wasm, prog)
        BY <3>1, <4>1, WasmStepIs
      <4>. QED
        BY <3>2, <4>2 DEF WasmStepped
    <3>4. CASE ~together
      BY <2>1, <3>2, <3>4, TurnIs
    <3>. QED
      BY <3>3, <3>4
  <2>2. CASE ~Turn
    BY <2>2, OthersStay
  <2>. QED
    BY <2>1, <2>2
<1>. QED
  BY <1>1, BothAlways, PTL DEF Lockstep, JumpsLandOnBlocks

(***************************************************************************)
(* The program is not longer than half of the addresses: code of a service *)
(* has at most 4000000 bytes (SERVICECODE_MAX_SIZE), and that is checked   *)
(* before it is run.                                                       *)
(***************************************************************************)
ProgramIsShort == prog.len <= Half32

LEMMA ProgramStays ==
  ASSUME LockstepNext
  PROVE  prog' = prog
BY DEF LockstepNext, Turn, AnswerHostCall, EndInHostCall, RepairAndResume, Finish

LEMMA ShortAlways == Lockstep /\ ProgramIsShort => []ProgramIsShort
<1>1. ProgramIsShort /\ [LockstepNext]_lockstepVars => ProgramIsShort'
  BY ProgramStays DEF ProgramIsShort, lockstepVars
<1>. QED
  BY <1>1, PTL DEF Lockstep

LEMMA ShortIs ==
  ASSUME ProgramIsShort, IsProgram(prog)
  PROVE  ~(prog.len > Half32)
<1>1. PICK len \in Int : len = prog.len
  BY DEF IsProgram
<1>2. PICK h \in Int : h = Half32
  BY HalfIs
<1>3. len <= h
  BY <1>1, <1>2 DEF ProgramIsShort
<1>. QED
  BY <1>1, <1>2, <1>3

(***************************************************************************)
(* The two interpreters do the same at every instruction that is not in    *)
(* KnownDifference, whatever the machine they start from.                  *)
(***************************************************************************)
THEOREM Agreement == Lockstep /\ ProgramIsShort => WasmAgrees
<1>. DEFINE Agrees == together /\ js.exit = Running /\ ~together' => KnownDifference(js, wasm')
<1>1. BothInv /\ ProgramIsShort /\ [LockstepNext]_lockstepVars => [Agrees]_lockstepVars
  <2>. SUFFICES ASSUME BothInv, ProgramIsShort, LockstepNext, together, js.exit = Running, ~together'
                PROVE  KnownDifference(js, wasm')
    OBVIOUS
  <2>1. MachinesInv /\ TogetherInv /\ IsProgram(prog)
    BY DEF BothInv, MachinesInv
  <2>2. Twins(js, wasm, prog)
    BY <2>1, WhileTogether
  <2>3. /\ js' = SingleStep(js, prog, IxPointerCache(prog))
        /\ wasm' = WasmStep(wasm, prog)
        /\ together' = (together /\ Common(js') = Common(wasm'))
    BY RunningTurns, TurnIs
  <2>4. ~SameMachine(js', wasm')
    BY <2>3, CommonIs
  <2>. QED
    BY <2>1, <2>2, <2>3, <2>4, ShortIs, StepsAgree
<1>. QED
  BY <1>1, BothAlways, ShortAlways, PTL DEF Lockstep, WasmAgrees

(***************************************************************************)
(* What the first interpreter keeps while the pointer of its heap fits a   *)
(* register: nothing in the code bounds what sbrk adds to it but the       *)
(* memory there is.                                                        *)
(***************************************************************************)
HeapFits == HeapInRegister(js)

SoundInv == JsSound(js)

LEMMA SoundKept ==
  ASSUME BothInv, SoundInv, HeapFits, [LockstepNext]_lockstepVars
  PROVE  SoundInv'
<1>1. /\ IsProgram(prog) /\ IsMachine(js) /\ JsSound(js) /\ HeapInRegister(js)
      /\ Sound(js) /\ PointerInside(js)
  BY DEF BothInv, MachinesInv, SoundInv, HeapFits, JsSound
<1>2. CASE Turn
  <2>1. js' = SingleStep(js, prog, IxPointerCache(prog)) /\ js.exit.why # "pageFault"
    BY <1>2, TurnIs, RunningIs
  <2>2. JsStepped(js', js, prog)
    BY <1>1, <2>1, JsStepIs
  <2>. QED
    BY <2>2 DEF JsStepped, SoundInv
<1>3. CASE AnswerHostCall
  <2>1. PICK v \in Answers, cost \in {0, 1} : js' = [js EXCEPT !.w[0] = v, !.gas = @ - cost, !.exit = Running]
    BY <1>3 DEF AnswerHostCall
  <2>2. But(js', js, {"w", "gas", "exit"}) /\ js'.w = [js.w EXCEPT ![0] = v]
    BY <1>1, <2>1, AnsweredIs
  <2>3. js'.mem = js.mem /\ js'.acl = js.acl /\ js'.heap = js.heap /\ IsMachine(js')
    BY <1>1, <2>2, ButParts DEF But
  <2>4. v \in Register /\ 0 \in RegisterNumbers
    BY AnswersAssumption, RegistersAssumption DEF RegisterNumbers
  <2>5. \A r \in RegisterNumbers : js'.w[r] \in Register
    BY <1>1, <2>2, <2>4, WordsStay DEF Sound, WordsAreSound
  <2>. QED
    BY <1>1, <2>3, <2>5 DEF SoundInv, JsSound, Sound, WordsAreSound, MemoryIsSound, PointerInside
<1>4. CASE EndInHostCall
  <2>1. PICK why \in {"panic", "outOfGas"} : js' = [js EXCEPT !.exit = Exit(why, 0)]
    BY <1>4 DEF EndInHostCall
  <2>2. But(js', js, {"exit"})
    BY <1>1, <2>1, EndedIs
  <2>3. SameData(js', js) /\ IsMachine(js')
    BY <1>1, <2>2, ButParts DEF SameData, But
  <2>. QED
    BY <1>1, <2>3, SoundToo DEF SoundInv, JsSound
<1>5. CASE RepairAndResume
  <2>1. PICK page : js' = RepairedAt(js, page)
    BY <1>5, Zenon DEF RepairAndResume, RepairedAt
  <2>2. But(js', js, {"acl", "exit"}) /\ Sound(js')
    BY <1>1, <2>1, RepairIs
  <2>3. js'.heap = js.heap /\ IsMachine(js')
    BY <1>1, <2>2, ButParts DEF But
  <2>. QED
    BY <1>1, <2>2, <2>3 DEF SoundInv, JsSound, PointerInside
<1>6. CASE Finish \/ UNCHANGED lockstepVars
  <2>1. js' = js
    BY <1>6 DEF Finish, lockstepVars
  <2>. QED
    BY <1>1, <2>1 DEF SoundInv
<1>. QED
  BY <1>2, <1>3, <1>4, <1>5, <1>6 DEF LockstepNext

THEOREM SoundAlways == Lockstep /\ []HeapFits => []SoundInv
<1>1. LockstepInit => SoundInv
  BY InitialState DEF SoundInv
<1>2. BothInv /\ SoundInv /\ HeapFits /\ [LockstepNext]_lockstepVars => SoundInv'
  BY SoundKept
<1>. QED
  BY <1>1, <1>2, BothAlways, PTL DEF Lockstep

\* A turn of the first interpreter, from a sound machine.
LEMMA SoundTurn ==
  ASSUME BothInv, SoundInv, HeapFits, LockstepNext, js.exit = Running
  PROVE  JsStepped(js', js, prog)
<1>1. IsProgram(prog) /\ JsSound(js) /\ HeapInRegister(js)
  BY DEF BothInv, MachinesInv, SoundInv, HeapFits
<1>2. js' = SingleStep(js, prog, IxPointerCache(prog)) /\ js.exit.why # "pageFault"
  BY RunningTurns, TurnIs, RunningIs
<1>. QED
  BY <1>1, <1>2, JsStepIs

LEMMA UntouchedIs ==
  ASSUME NEW m, NEW n, SameData(n, m), n.pc = m.pc, n.gas = m.gas - 1
  PROVE  Untouched(m, n)
BY DEF Untouched, SameData

LEMMA TooFarIs ==
  ASSUME NEW m, FarStore(prog.c[m.pc], OperandsAt(prog, m))
  PROVE  TooFar(m)
<1>1. PICK op : op = prog.c[m.pc]
  OBVIOUS
<1>2. op \in 30 .. 33 /\ OperandsAt(prog, m).vX >= Pow(4)
  BY <1>1 DEF FarStore
<1>3. OperandsAt(prog, m) = Operands("twoImm", Instruction(m).args)
  BY <1>1, <1>2, FixedStores, InstructionIs DEF OperandsAt
<1>. QED
  BY <1>1, <1>2, <1>3, InstructionIs DEF TooFar

(***************************************************************************)
(* A page fault leaves a machine that can execute the instruction again,   *)
(* in both interpreters, for every program and every state they reach.     *)
(***************************************************************************)
THEOREM Resumable == Lockstep /\ []HeapFits => FaultIsResumable
<1>. DEFINE First == js.exit = Running /\ js'.exit.why = "pageFault" =>
                       /\ Untouched(js, js')
                       /\ Instruction(js).op \in Stores => NamesItsPage(js, js') \/ TooFar(js)
            Second == wasm.exit = Running /\ wasm'.exit.why = "pageFault" =>
                        Untouched(wasm, wasm') /\ NamesItsPage(wasm, wasm')
<1>1. BothInv /\ SoundInv /\ HeapFits /\ [LockstepNext]_lockstepVars => [First /\ Second]_lockstepVars
  <2>. SUFFICES ASSUME BothInv, SoundInv, HeapFits, LockstepNext
                PROVE  First /\ Second
    OBVIOUS
  <2>1. ASSUME js.exit = Running, js'.exit.why = "pageFault"
        PROVE  /\ Untouched(js, js')
               /\ Instruction(js).op \in Stores => NamesItsPage(js, js') \/ TooFar(js)
    <3>1. JsStepped(js', js, prog)
      BY <2>1, SoundTurn
    <3>2. Untouched(js, js')
      BY <2>1, <3>1, UntouchedIs DEF JsStepped
    <3>3. WordsAreSound(js)
      BY DEF SoundInv, JsSound, Sound
    <3>4. ASSUME Instruction(js).op \in Stores
          PROVE  NamesItsPage(js, js') \/ TooFar(js)
      <4>1. prog.c[js.pc] \in Stores
        BY <3>4, InstructionIs
      <4>2. /\ OperandsFit(OperandsAt(prog, js))
            /\ \/ FarStore(prog.c[js.pc], OperandsAt(prog, js))
               \/ Faulted(js', js, prog.c[js.pc], OperandsAt(prog, js))
        BY <2>1, <3>1, <4>1 DEF JsStepped
      <4>. QED
        BY <3>3, <4>1, <4>2, TooFarIs, FaultNamed
    <3>. QED
      BY <3>2, <3>4
  <2>2. ASSUME wasm.exit = Running, wasm'.exit.why = "pageFault"
        PROVE  Untouched(wasm, wasm') /\ NamesItsPage(wasm, wasm')
    <3>1. wasm' # wasm /\ wasm'.exit # Running
      BY <2>2, RunningIs
    <3>2. Turn
      BY <3>1, OthersStay
    <3>3. wasm' = WasmStep(wasm, prog)
      BY <3>1, <3>2, TurnIs
    <3>4. IsProgram(prog) /\ WasmSound(wasm, prog) /\ WordsAreSound(wasm)
      BY DEF BothInv, MachinesInv, WasmSound, Sound
    <3>5. WasmStepped(wasm', wasm, prog)
      BY <2>2, <3>3, <3>4, WasmStepIs
    <3>6. PICK o : /\ o = OperandsAt(prog, wasm) /\ OperandsFit(o)
                   /\ Faulted(wasm', wasm, prog.c[wasm.pc], o)
      BY <2>2, <3>5 DEF WasmStepped, OperandsAt
    <3>7. /\ prog.c[wasm.pc] \in Loads \cup Stores
          /\ SameData(wasm', wasm) /\ wasm'.pc = wasm.pc /\ wasm'.gas = wasm.gas - 1
      BY <2>2, <3>5 DEF WasmStepped
    <3>. QED
      BY <3>4, <3>6, <3>7, UntouchedIs, FaultNamed
  <2>. QED
    BY <2>1, <2>2
<1>. QED
  BY <1>1, BothAlways, SoundAlways, PTL DEF Lockstep, FaultIsResumable

(***************************************************************************)
(* Memory changes only where a store may write, and where the heap grows.  *)
(***************************************************************************)
THEOREM Inside == Lockstep /\ []HeapFits => StoresStayInside
<1>. DEFINE Stays == \A x \in Addresses :
          js'.mem[x] # js.mem[x] =>
            LET op == Instruction(js).op
            IN  \/ /\ op \in Stores
                   /\ (x - AddressOf(js)) % Pow(4) < BytesMoved(op)
                   /\ js.acl[x \div Zp] = "write"
                \/ /\ op = 101
                   /\ x \in js.heap.end..js'.heap.end - 1
<1>1. BothInv /\ SoundInv /\ HeapFits /\ [LockstepNext]_lockstepVars => [Stays]_lockstepVars
  <2>. SUFFICES ASSUME BothInv, SoundInv, HeapFits, LockstepNext, NEW x \in Addresses, js'.mem[x] # js.mem[x]
                PROVE  LET op == Instruction(js).op
                       IN  \/ /\ op \in Stores
                              /\ (x - AddressOf(js)) % Pow(4) < BytesMoved(op)
                              /\ js.acl[x \div Zp] = "write"
                           \/ /\ op = 101
                              /\ x \in js.heap.end..js'.heap.end - 1
    OBVIOUS
  <2>1. js.exit = Running
    BY OthersStay, TurnIs
  <2>2. JsStepped(js', js, prog)
    BY <2>1, SoundTurn
  <2>3. MayChange(js', js, prog.c[js.pc], OperandsAt(prog, js), x)
    BY <2>2 DEF JsStepped
  <2>. QED
    BY <2>3, InstructionIs, AddressOfIs, Zenon DEF MayChange
<1>. QED
  BY <1>1, BothAlways, SoundAlways, PTL DEF Lockstep, StoresStayInside
=============================================================================
