----------------------------- MODULE PvmMemory -----------------------------
(***************************************************************************)
(* The memory of a virtual machine: pages of Zp bytes, an access right for *)
(* each page that exists, the bytes, and a heap that grows by pages.       *)
(* Memory content is a function of the address; a page that is not in the  *)
(* map has the right "none".                                               *)
(***************************************************************************)
EXTENDS PvmWords

CONSTANT Zp         \* bytes of a page

ASSUME PagesAssumption == Zp \in Nat \ {0} /\ Pow(4) % Zp = 0

NPages == Pow(4) \div Zp
Pages == 0..NPages - 1
Addresses == 0..Pow(4) - 1
None == -1                      \* undefined

\* #pagesInRange: the pages that [address, address + length[ touches; they
\* wrap around at the top of the memory, the first one does not.
MutPagesInRange(address, length) == IF length = 0 THEN <<>> ELSE <<address \div Zp>>
PagesInRange(address, length) ==
    IF length = 0 THEN <<>>
    ELSE LET first == address \div Zp
             more == (length - (Zp - (address % Zp)) + Zp - 1) \div Zp
         IN  [i \in 1..1 + (IF more > 0 THEN more ELSE 0) |->
                 IF i = 1 THEN first ELSE (first + i - 1) % (Pow(4) \div Zp)]

Right(acl, page) == IF page \in DOMAIN acl THEN acl[page] ELSE "none"

\* The first byte of the first page whose right is not among the given ones.
FirstWithout(rights, acl, address, length) ==
    LET pages == PagesInRange(address, length)
        wrong == {i \in DOMAIN pages : Right(acl, pages[i]) \notin rights}
    IN  IF wrong = {} THEN None
        ELSE Zp * pages[CHOOSE i \in wrong : \A j \in wrong : i <= j]

FirstUnreadable(acl, address, length) == FirstWithout({"read", "write"}, acl, address, length)
FirstUnwriteable(acl, address, length) == FirstWithout({"write"}, acl, address, length)
CanRead(acl, address, length) == FirstUnreadable(acl, address, length) = None
CanWrite(acl, address, length) == FirstUnwriteable(acl, address, length) = None

\* readInto: the little-endian value of the length bytes at address.
ReadInto(mem, address, length) ==
    ReadLE([i \in 1..length |-> mem[(address + i - 1) % Pow(4)]])

\* writeAt: the low length bytes of value, at address.
WriteAt(mem, address, length, value) ==
    [a \in Addresses |->
        IF (a - address) % Pow(4) < length
        THEN ByteOf(value, (a - address) % Pow(4)) ELSE mem[a]]

\* sbrk: when the heap would reach its end, as many pages as the size needs
\* are appended to it, whatever those pages hold.
Sbrk(m, size) ==
    LET grows == m.heap.pointer + size >= m.heap.end
        cnt == IF grows THEN (size + Zp - 1) \div Zp ELSE 0
        new == {page \in Pages : page \in m.heap.end \div Zp..(m.heap.end \div Zp) + cnt - 1}
    IN  [m EXCEPT !.acl = [p \in Pages |-> IF p \in new THEN "write" ELSE @[p]],
                  !.mem = [a \in Addresses |-> IF a \div Zp \in new THEN 0 ELSE @[a]],
                  !.heap = [end |-> @.end + cnt * Zp, pointer |-> @.pointer + size]]
=============================================================================
