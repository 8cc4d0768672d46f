------------------------------ MODULE MCDetect ------------------------------
(* Detect with two globals and a heap block whose bytes lie on two cache    *)
(* lines, and instructions that read or write a few times.                  *)
EXTENDS Detect

MCMallocFile ==
    (-1 :> [start |-> 0, size |-> 2, pc |-> -1]) @@ (0 :> [start |-> 2, size |-> 4, pc |-> 1])

Places == {[m_id |-> -1, addr |-> 0, size |-> 1], [m_id |-> -1, addr |-> 1, size |-> 1],
           [m_id |-> 0, addr |-> 3, size |-> 1], [m_id |-> 0, addr |-> 3, size |-> 2],
           [m_id |-> 0, addr |-> 5, size |-> 1]}

\* The PC 5 is 1 in PCMod = 4; two of its lines and another wrap RWMod = 16.
Uses == {[pc |-> 1, r |-> 0, w |-> 3], [pc |-> 2, r |-> 3, w |-> 0], [pc |-> 5, r |-> 0, w |-> 7]}

Line(t, p, u) == [thread |-> t, m_id |-> p.m_id, addr |-> p.addr, size |-> p.size,
                  pc |-> u.pc, r |-> u.r, w |-> u.w]

\* Threads 0 and 1 do anything, thread 2 writes to the heap.
MCLogLines ==
    {Line(t, p, u) : t \in {0, 1}, p \in Places, u \in Uses}
      \cup {Line(2, p, u) : p \in {q \in Places : q.m_id = 0}, u \in {v \in Uses : v.pc = 1}}
=============================================================================
