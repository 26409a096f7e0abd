--------------------------- MODULE MemLayoutLemmas ---------------------------
(***************************************************************************)
(* Facts about page rounding, for every page size and memory size.         *)
(***************************************************************************)
EXTENDS MemLayout, TLAPS

\* Division with remainder, and a multiple leaves no remainder.
LEMMA DivMod ==
  ASSUME NEW n \in Nat \ {0}, NEW a \in Int
  PROVE  /\ a \div n \in Int
         /\ a % n \in 0..(n - 1)
         /\ a = n * (a \div n) + (a % n)
OBVIOUS

LEMMA MultMod ==
  ASSUME NEW n \in Nat \ {0}, NEW q \in Int
  PROVE  (n * q) % n = 0
OBVIOUS

\* The size of memory is a number.
LEMMA SpaceIsNat == ADDRSPACE \in Nat
<1>1. SPAN \in Nat
  BY LayoutAssumption DEF SPAN
<1>2. QED
  BY <1>1, LayoutAssumption DEF ADDRSPACE

\* Two different multiples of n are at least n apart.
LEMMA AlignedGap ==
  ASSUME NEW n \in Nat \ {0}, NEW a \in Int, NEW b \in Int,
         a % n = 0, b % n = 0, a < b
  PROVE  a + n <= b
<1> DEFINE q == a \div n
           r == b \div n
<1>1. q \in Int /\ a = n * q
  BY DivMod
<1>2. r \in Int /\ b = n * r
  BY DivMod
<1>3. n * (r - q) = b - a
  BY <1>1, <1>2
<1>4. r - q >= 1
  <2>1. CASE r - q <= 0
    BY <2>1, <1>1, <1>2, <1>3
  <2>2. QED
    BY <2>1, <1>1, <1>2
<1>5. n * (r - q) >= n
  BY <1>1, <1>2, <1>4
<1>6. QED
  BY <1>3, <1>5

\* The next multiple of n.
LEMMA AlignedStep ==
  ASSUME NEW n \in Nat \ {0}, NEW a \in Int, a % n = 0
  PROVE  (a + n) % n = 0
<1> DEFINE q == a \div n
<1>1. q \in Int /\ a = n * q
  BY DivMod
<1>2. a + n = n * (q + 1)
  BY <1>1
<1>3. (n * (q + 1)) % n = 0
  BY <1>1, MultMod
<1>4. QED
  BY <1>2, <1>3

\* Rounding down gives a page boundary, at most the address, less than a
\* page below it.
LEMMA PageDown ==
  ASSUME NEW a \in Int
  PROVE  /\ MM_PAGEDOWN(a) \in Int
         /\ mm_is_page_aligned(MM_PAGEDOWN(a))
         /\ MM_PAGEDOWN(a) <= a
         /\ a < MM_PAGEDOWN(a) + PGSIZE
<1> DEFINE n == PGSIZE
           q == a \div n
           m == a % n
<1>1. n \in Nat \ {0}
  BY LayoutAssumption
<1>2. q \in Int /\ m \in 0..(n - 1) /\ a = n * q + m
  BY <1>1, DivMod
<1>3. (n * q) % n = 0
  BY <1>1, <1>2, MultMod
<1>4. a - m = n * q
  BY <1>1, <1>2
<1>5. MM_PAGEDOWN(a) = a - m
  BY DEF MM_PAGEDOWN
<1> HIDE DEF n, q, m
<1>6. a - m <= a /\ a < (a - m) + n /\ a - m \in Int
  BY <1>1, <1>2
<1>7. mm_is_page_aligned(a - m)
  BY <1>3, <1>4 DEF mm_is_page_aligned, n
<1>8. QED
  BY <1>5, <1>6, <1>7 DEF n

\* Below the last page of memory, rounding up does not wrap: it gives the
\* first page boundary at or after the address.
LEMMA PageUp ==
  ASSUME NEW a \in Nat, a + PGSIZE <= ADDRSPACE, ADDRSPACE \in Nat
  PROVE  /\ MM_PAGEUP(a) \in Nat
         /\ mm_is_page_aligned(MM_PAGEUP(a))
         /\ a <= MM_PAGEUP(a)
         /\ MM_PAGEUP(a) < a + PGSIZE
<1> DEFINE b == a + PGSIZE - 1
<1>1. PGSIZE \in Nat \ {0}
  BY LayoutAssumption
<1>2. b \in 0..(ADDRSPACE - 1)
  BY <1>1
<1>3. b % ADDRSPACE = b
  BY <1>2
<1>4. MM_PAGEUP(a) = MM_PAGEDOWN(b)
  BY <1>3 DEF MM_PAGEUP
<1>5. /\ MM_PAGEDOWN(b) \in Int /\ mm_is_page_aligned(MM_PAGEDOWN(b))
      /\ MM_PAGEDOWN(b) <= b /\ b < MM_PAGEDOWN(b) + PGSIZE
  BY <1>2, PageDown
<1>6. QED
  BY <1>1, <1>4, <1>5

\* No page boundary lies between an address and that address rounded up.
LEMMA NoPageBelowRoundUp ==
  ASSUME NEW a \in Nat, a + PGSIZE <= ADDRSPACE, ADDRSPACE \in Nat,
         NEW p \in Int, mm_is_page_aligned(p), a <= p
  PROVE  MM_PAGEUP(a) <= p
<1>1. PGSIZE \in Nat \ {0}
  BY LayoutAssumption
<1>2. /\ MM_PAGEUP(a) \in Nat /\ MM_PAGEUP(a) % PGSIZE = 0
      /\ MM_PAGEUP(a) < a + PGSIZE
  BY PageUp DEF mm_is_page_aligned
<1>3. CASE p < MM_PAGEUP(a)
  <2>1. p + PGSIZE <= MM_PAGEUP(a)
    BY <1>1, <1>2, <1>3, AlignedGap DEF mm_is_page_aligned
  <2>2. QED
    BY <1>1, <1>2, <2>1
<1>4. QED
  BY <1>2, <1>3

\* Quotient and remainder are unique.
LEMMA DivUnique ==
  ASSUME NEW n \in Nat \ {0}, NEW q \in Int, NEW r \in 0..(n - 1)
  PROVE  (n * q + r) \div n = q /\ (n * q + r) % n = r
<1>1. n * q + r \in Int
  OBVIOUS
<1>2. PICK u \in Int, v \in 0..(n - 1) :
        u = (n * q + r) \div n /\ v = (n * q + r) % n /\ n * q + r = n * u + v
  BY <1>1, DivMod
<1>3. n * (u - q) = r - v
  BY <1>2
<1>4. CASE u - q >= 1
  <2>1. n * (u - q) >= n
    BY <1>2, <1>4
  <2>. QED
    BY <1>2, <1>3, <2>1
<1>5. CASE u - q <= -1
  <2>1. n * (q - u) >= n
    BY <1>2, <1>5
  <2>2. n * (q - u) = v - r
    BY <1>2
  <2>. QED
    BY <1>2, <2>1, <2>2
<1>6. CASE u = q
  BY <1>2, <1>6
<1>. QED
  BY <1>2, <1>4, <1>5, <1>6

\* Quotient and remainder, named.
LEMMA Divided ==
  ASSUME NEW n \in Nat \ {0}, NEW a \in Int
  PROVE  \E q \in Int, r \in 0..(n - 1) : q = a \div n /\ r = a % n /\ a = n * q + r
<1>1. a \div n \in Int /\ a % n \in 0..(n - 1) /\ a = n * (a \div n) + (a % n)
  BY DivMod
<1>. WITNESS a \div n \in Int, a % n \in 0..(n - 1)
<1>. QED
  BY <1>1

\* A remainder may be taken early.
LEMMA ModShift ==
  ASSUME NEW n \in Nat \ {0}, NEW a \in Int, NEW b \in Int
  PROVE  ((a % n) + b) % n = (a + b) % n
<1>1. PICK q \in Int, r \in 0..(n - 1) : r = a % n /\ a = n * q + r
  BY Divided
<1>2. PICK c \in Int : c = r + b
  <2>1. r + b \in Int
    BY <1>1
  <2>. QED
    BY <2>1
<1>3. PICK u \in Int, v \in 0..(n - 1) : v = c % n /\ c = n * u + v
  BY Divided
<1>4. a + b = n * (q + u) + v
  <2>1. n * (q + u) = n * q + n * u
    BY <1>1, <1>3
  <2>. QED
    BY <1>1, <1>2, <1>3, <2>1
<1>5. (n * (q + u) + v) % n = v
  <2>1. q + u \in Int
    BY <1>1, <1>3
  <2>. QED
    BY <1>3, <2>1, DivUnique
<1>. QED
  BY <1>1, <1>2, <1>3, <1>4, <1>5

LEMMA SmallMod == ASSUME NEW n \in Nat \ {0}, NEW a \in 0..(n - 1) PROVE a % n = a
OBVIOUS

\* Sums, differences and remainders of page boundaries are page boundaries.
LEMMA AlignedSum ==
  ASSUME NEW a \in Int, NEW b \in Int, mm_is_page_aligned(a), mm_is_page_aligned(b)
  PROVE  mm_is_page_aligned(a + b) /\ mm_is_page_aligned(a - b)
<1>1. PICK g \in Nat \ {0} : g = PGSIZE
  BY LayoutAssumption
<1>2. ASSUME NEW c \in Int, mm_is_page_aligned(c) PROVE \E q \in Int : c = g * q
  <2>1. c % g = 0
    BY <1>1, <1>2 DEF mm_is_page_aligned
  <2>2. PICK q \in Int, r \in Int : q = c \div g /\ r = c % g /\ c = g * q + r
    BY <1>1, Divided
  <2>. QED
    BY <1>1, <2>1, <2>2
<1>3. PICK q, r \in Int : a = g * q /\ b = g * r
  BY <1>2
<1>4. a + b = g * (q + r) /\ a - b = g * (q - r)
  BY <1>1, <1>3
<1>5. (g * (q + r)) % g = 0 /\ (g * (q - r)) % g = 0
  BY <1>1, <1>3, MultMod
<1>. QED
  BY <1>1, <1>4, <1>5 DEF mm_is_page_aligned

\* The sizes of the layout; the kernel half starts at a page, halfway up memory.
LEMMA HalfSpace ==
  /\ PGSIZE \in Nat \ {0} /\ NENTRIES \in Nat \ {0} /\ SPAN \in Nat \ {0}
  /\ ADDRSPACE \in Nat \ {0} /\ KERNEL_BASE \in Nat /\ ADDRSPACE = KERNEL_BASE + KERNEL_BASE
  /\ mm_is_page_aligned(KERNEL_BASE) /\ mm_is_page_aligned(SPAN) /\ mm_is_page_aligned(ADDRSPACE)
<1>1. PGSIZE \in Nat \ {0} /\ NENTRIES \in Nat \ {0}
  BY LayoutAssumption
<1>2. SPAN \in Nat \ {0} /\ ADDRSPACE \in Nat \ {0}
  BY <1>1 DEF SPAN, ADDRSPACE
<1>3. PICK h \in Nat : NENTRIES = 2 * h
  <2>1. NENTRIES % 2 = 0
    BY LayoutAssumption
  <2>2. NENTRIES = 2 * (NENTRIES \div 2) /\ NENTRIES \div 2 \in Nat
    BY <1>1, <2>1
  <2>. QED
    BY <2>2
<1>4. ADDRSPACE = 2 * (h * SPAN) /\ h * SPAN \in Nat
  BY <1>2, <1>3 DEF ADDRSPACE
<1>5. KERNEL_BASE = h * SPAN
  <2>. DEFINE k == h * SPAN
  <2>1. (2 * k) \div 2 = k
    <3>. HIDE DEF k
    <3>1. k \in Nat
      BY <1>4 DEF k
    <3>. QED
      BY <3>1
  <2>. QED
    BY <1>4, <2>1 DEF KERNEL_BASE
<1>6. h * SPAN = PGSIZE * (h * NENTRIES) /\ h * NENTRIES \in Nat
  BY <1>1, <1>2 DEF SPAN
<1>7. mm_is_page_aligned(KERNEL_BASE)
  BY <1>1, <1>5, <1>6, MultMod DEF mm_is_page_aligned
<1>8. SPAN = PGSIZE * NENTRIES
  BY <1>1 DEF SPAN
<1>9. mm_is_page_aligned(SPAN)
  BY <1>1, <1>8, MultMod DEF mm_is_page_aligned
<1>10. mm_is_page_aligned(ADDRSPACE)
  BY <1>4, <1>5, <1>7, AlignedSum
<1>. QED
  BY <1>1, <1>2, <1>4, <1>5, <1>7, <1>9, <1>10

\* Addresses wrap around at the end of memory, and pages do so at pages.
LEMMA AddressMod ==
  ASSUME NEW a \in Int
  PROVE  /\ a % ADDRSPACE \in Address
         /\ a \in Address => a % ADDRSPACE = a
         /\ mm_is_page_aligned(a) => mm_is_page_aligned(a % ADDRSPACE)
<1>1. PICK m \in Nat \ {0} : m = ADDRSPACE
  BY HalfSpace
<1>2. a % m \in 0..(m - 1) /\ (a \in 0..(m - 1) => a % m = a)
  BY DivMod, SmallMod
<1>3. ASSUME mm_is_page_aligned(a) PROVE mm_is_page_aligned(a % m)
  <2>1. PICK q, r \in Int : r = a % m /\ a = m * q + r
    BY Divided
  <2>2. PICK g, k \in Nat \ {0} : g = PGSIZE /\ m = g * k
    <3>1. ADDRSPACE = PGSIZE * (NENTRIES * NENTRIES) /\ NENTRIES * NENTRIES \in Nat \ {0}
      BY HalfSpace DEF ADDRSPACE, SPAN
    <3>. QED
      BY <1>1, <3>1, HalfSpace
  <2>3. m * q = g * (k * q) /\ k * q \in Int
    BY <2>1, <2>2
  <2>4. mm_is_page_aligned(m * q)
    BY <2>2, <2>3, MultMod DEF mm_is_page_aligned
  <2>5. m * q \in Int /\ r = a - m * q
    BY <1>1, <2>1
  <2>. QED
    BY <1>3, <2>1, <2>4, <2>5, AlignedSum
<1>. QED
  BY <1>1, <1>2, <1>3 DEF Address

\* A page is the entry of one directory slot and one place in its table.
LEMMA PageIndex ==
  ASSUME NEW p \in Address, mm_is_page_aligned(p)
  PROVE  /\ X86_PD_INDEX(p) \in 0..(NENTRIES - 1) /\ X86_PT_INDEX(p) \in 0..(NENTRIES - 1)
         /\ p = SPAN * X86_PD_INDEX(p) + PGSIZE * X86_PT_INDEX(p)
<1>1. PICK g, n \in Nat \ {0} : g = PGSIZE /\ n = NENTRIES
  BY LayoutAssumption
<1>2. PICK w \in Nat \ {0} : w = n * g /\ w = SPAN /\ n * w = ADDRSPACE
  BY <1>1 DEF SPAN, ADDRSPACE
<1>3. p \in Nat /\ p < n * w
  BY <1>2 DEF Address
<1>4. PICK a \in Int : a = p \div g /\ p = g * a
  <2>1. p % g = 0
    BY <1>1 DEF mm_is_page_aligned
  <2>2. p \div g \in Int /\ p = g * (p \div g) + (p % g)
    BY <1>1, <1>3, DivMod
  <2>3. PICK a \in Int, z \in Int : a = p \div g /\ z = p % g /\ p = g * a + z
    BY <1>1, <2>1, <2>2
  <2>. QED
    BY <1>1, <2>1, <2>3
<1>5. PICK m \in Int, r \in 0..(n - 1) : a = n * m + r
  BY <1>1, DivMod
<1>6. a % n = r
  BY <1>1, <1>5, DivUnique
<1>7. p = w * m + g * r
  BY <1>1, <1>2, <1>4, <1>5
<1>8. g * r \in 0..(w - 1)
  <2>1. g * r \in Nat
    BY <1>1, <1>5
  <2>2. g * (n - r) >= g
    BY <1>1, <1>5
  <2>3. g * r + g * (n - r) = w
    BY <1>1, <1>2, <1>5
  <2>. QED
    BY <1>1, <1>2, <2>1, <2>2, <2>3
<1>9. p \div w = m
  BY <1>2, <1>7, <1>8, DivUnique
<1>10. m >= 0
  <2>1. CASE m <= -1
    <3>1. w * m <= -w
      BY <1>2, <1>5, <2>1
    <3>. QED
      BY <1>2, <1>3, <1>7, <1>8, <3>1
  <2>. QED
    BY <1>5, <2>1
<1>11. m <= n - 1
  <2>1. CASE m >= n
    <3>1. w * m >= w * n
      BY <1>1, <1>2, <1>5, <2>1
    <3>. QED
      BY <1>1, <1>2, <1>3, <1>7, <1>8, <3>1
  <2>. QED
    BY <1>1, <1>5, <2>1
<1>12. m % n = m
  BY <1>1, <1>5, <1>10, <1>11
<1>13. X86_PD_INDEX(p) = m /\ X86_PT_INDEX(p) = r
  BY <1>1, <1>2, <1>4, <1>6, <1>9, <1>12 DEF X86_PD_INDEX, X86_PT_INDEX
<1>. QED
  BY <1>1, <1>2, <1>5, <1>7, <1>10, <1>11, <1>13

=============================================================================
