------------------------- MODULE ConsolePagesProofs -------------------------
(***************************************************************************)
(* The pages of the console for any people, files, documents, months and   *)
(* bounds: every safety property of ConsolePages.  Each page has an         *)
(* inductive invariant of its own; those of the attendance, employees and  *)
(* clients pages are proved beside their modules and cited here.           *)
(***************************************************************************)
EXTENDS ConsolePages, FiniteSetTheorems, TLAPS

-----------------------------------------------------------------------------
(* AttendanceSheet.  What is stored was computed from the row that is clean: *)
(* what remains is that two rules for the same figures agree, and that the  *)
(* page lays as many days as it was told.                                   *)

\* A record is what _calc() made of its figures, and its day codes account for them.
RecordInv(rec) ==
    /\ rec \in [f : Sheet!Figures, lop : Nat, payable : Int,
                daily : [Sheet!Day -> Sheet!Codes] \cup {Missing}]
    /\ rec.lop = Sheet!Calc(rec.f).lop /\ rec.payable = Sheet!Calc(rec.f).payable
    /\ rec.daily # Missing => rec.f = Sheet!FiguresOf(Sheet!SummariseDays(rec.daily))

\* A clean row was built from the record, or saved as it.
GridInv(v, s) ==
    /\ v \in [form : {"grid"}, days : [Sheet!Day -> Sheet!Codes], clean : BOOLEAN]
    /\ v.clean => /\ RecordInv(s)
                  /\ v.days = IF s.daily # Missing THEN s.daily ELSE Sheet!Overlay(s)

QuickInv(v, s) ==
    /\ v \in [form : {"quick"}, quick : Sheet!Figures, clean : BOOLEAN]
    /\ v.clean => RecordInv(s) /\ v.quick = s.f

SheetInv ==
    /\ GridInv(view, server) \/ QuickInv(view, server)
    /\ server = Missing \/ RecordInv(server)

-----------------------------------------------------------------------------
(* Counting days *)

LEMMA SheetCount == \A S : Sheet!Cardinality(S) = Cardinality(S)
  BY DEF Sheet!Cardinality, Cardinality

LEMMA DaysAreFinite ==
  /\ IsFiniteSet(Sheet!Day) /\ Cardinality(Sheet!Day) = TotalDays
  /\ \A S \in SUBSET Sheet!Day : IsFiniteSet(S) /\ Cardinality(S) \in Nat
<1>1. IsFiniteSet(Sheet!Day) /\ Cardinality(Sheet!Day) = TotalDays
  BY FS_Interval, SheetAssumption DEF Sheet!Day
<1>2. ASSUME NEW S \in SUBSET Sheet!Day PROVE IsFiniteSet(S) /\ Cardinality(S) \in Nat
  BY <1>1, FS_Subset, FS_CardinalityType
<1>. QED
  BY <1>1, <1>2

LEMMA CountIs ==
  ASSUME NEW days, NEW codes
  PROVE  /\ Sheet!Count(days, codes) = Cardinality({i \in Sheet!Day : days[i] \in codes})
         /\ Sheet!Count(days, codes) \in Nat
<1>1. {i \in Sheet!Day : days[i] \in codes} \in SUBSET Sheet!Day
  OBVIOUS
<1>. QED
  BY <1>1, DaysAreFinite, SheetCount DEF Sheet!Count

\* The days of two codes are those of the one and those of the other.
LEMMA CountsAdd ==
  ASSUME NEW days, NEW a, NEW b, a \cap b = {}
  PROVE  Sheet!Count(days, a \cup b) = Sheet!Count(days, a) + Sheet!Count(days, b)
<1>. DEFINE A == {i \in Sheet!Day : days[i] \in a}
            B == {i \in Sheet!Day : days[i] \in b}
<1>1. {i \in Sheet!Day : days[i] \in a \cup b} = A \cup B /\ A \cap B = {}
  OBVIOUS
<1>2. IsFiniteSet(A) /\ IsFiniteSet(B) /\ Cardinality(A) \in Nat /\ Cardinality(B) \in Nat
  BY DaysAreFinite
<1>3. Cardinality(A \cup B) = Cardinality(A) + Cardinality(B) - Cardinality(A \cap B)
  BY <1>2, FS_Union
<1>4. Cardinality(A \cap B) = 0
  BY <1>1, FS_EmptySet
<1>5. /\ Sheet!Count(days, a \cup b) = Cardinality(A \cup B)
      /\ Sheet!Count(days, a) = Cardinality(A) /\ Sheet!Count(days, b) = Cardinality(B)
  BY <1>1, CountIs
<1>6. PICK n, a1, b1 : n = Cardinality(A \cup B) /\ a1 = Cardinality(A) /\ b1 = Cardinality(B)
  OBVIOUS
<1>7. a1 \in Nat /\ b1 \in Nat /\ n = a1 + b1 - 0
  BY <1>2, <1>3, <1>4, <1>6
<1>8. n = a1 + b1
  BY <1>7
<1>. QED
  BY <1>5, <1>6, <1>8

\* Every day has one of the codes.
LEMMA EveryDayCounts ==
  ASSUME NEW days \in [Sheet!Day -> Sheet!Codes]
  PROVE  Sheet!Count(days, {"P", "WFH"}) + Sheet!Count(days, {"HD"})
           + Sheet!Count(days, {"CL"}) + Sheet!Count(days, {"WO"})
           + Sheet!Count(days, {"H"}) + Sheet!Count(days, {"LOP", "A"}) = TotalDays
<1>1. {i \in Sheet!Day : days[i] \in Sheet!Codes} = Sheet!Day
  OBVIOUS
<1>2. Sheet!Count(days, Sheet!Codes) = TotalDays
  BY <1>1, CountIs, DaysAreFinite
<1>. DEFINE c1 == {"P", "WFH"}
            c2 == c1 \cup {"HD"}
            c3 == c2 \cup {"CL"}
            c4 == c3 \cup {"WO"}
            c5 == c4 \cup {"H"}
<1>3. Sheet!Codes = c5 \cup {"LOP", "A"}
  BY DEF Sheet!Codes
<1>4. /\ c1 \cap {"HD"} = {} /\ c2 \cap {"CL"} = {} /\ c3 \cap {"WO"} = {}
      /\ c4 \cap {"H"} = {} /\ c5 \cap {"LOP", "A"} = {}
  OBVIOUS
<1>5. /\ Sheet!Count(days, c5 \cup {"LOP", "A"})
           = Sheet!Count(days, c5) + Sheet!Count(days, {"LOP", "A"})
      /\ Sheet!Count(days, c4 \cup {"H"}) = Sheet!Count(days, c4) + Sheet!Count(days, {"H"})
      /\ Sheet!Count(days, c3 \cup {"WO"}) = Sheet!Count(days, c3) + Sheet!Count(days, {"WO"})
      /\ Sheet!Count(days, c2 \cup {"CL"}) = Sheet!Count(days, c2) + Sheet!Count(days, {"CL"})
      /\ Sheet!Count(days, c1 \cup {"HD"}) = Sheet!Count(days, c1) + Sheet!Count(days, {"HD"})
  <2>. HIDE DEF c1, c2, c3, c4, c5
  <2>. QED
    BY <1>4, CountsAdd
<1>. QED
  BY <1>2, <1>3, <1>5

-----------------------------------------------------------------------------
(* The figures of the page and those of the service *)

LEMMA CalcIs ==
  ASSUME NEW f \in Sheet!Figures
  PROVE  /\ Sheet!Calc(f).lop \in Nat /\ Sheet!Calc(f).payable \in Int
         /\ Sheet!Calc(f).payable = 2 * TotalDays - Sheet!Calc(f).lop
         /\ Sheet!Calc(f).lop = LET d == 2 * TotalDays - f.present - f.leave - f.wo - f.holiday
                                IN IF d < 0 THEN 0 ELSE d
         /\ Sheet!QuickTotals(f).payable = Sheet!Calc(f).payable
<1>1. /\ f.present \in Nat /\ f.leave \in Nat /\ f.wo \in Nat /\ f.holiday \in Nat
      /\ TotalDays \in Nat
  BY SheetAssumption DEF Sheet!Figures
<1>. QED
  BY <1>1 DEF Sheet!Calc, Sheet!QuickTotals, Sheet!Biggest, Sheet!Total

LEMMA SummaryIs ==
  ASSUME NEW days
  PROVE  Sheet!FiguresOf(Sheet!SummariseDays(days)) \in Sheet!Figures
<1>. DEFINE P == Sheet!Count(days, {"P", "WFH"})
            D == Sheet!Count(days, {"HD"})
            C == Sheet!Count(days, {"CL"})
            W == Sheet!Count(days, {"WO"})
            H == Sheet!Count(days, {"H"})
            L == Sheet!Count(days, {"LOP", "A"})
<1>1. P \in Nat /\ D \in Nat /\ C \in Nat /\ W \in Nat /\ H \in Nat /\ L \in Nat
  BY CountIs
<1>2. Sheet!SummariseDays(days) =
        [present |-> 2 * P + D, leave |-> 2 * C, wo |-> 2 * W, holiday |-> 2 * H,
         lop |-> 2 * L, payable |-> Sheet!Total - 2 * L]
  BY DEF Sheet!SummariseDays
<1>. HIDE DEF P, D, C, W, H, L
<1>3. 2 * P + D \in Nat /\ 2 * C \in Nat /\ 2 * W \in Nat /\ 2 * H \in Nat
  BY <1>1
<1>. QED
  BY <1>2, <1>3 DEF Sheet!FiguresOf, Sheet!Figures

LEMMA StoredInv ==
  ASSUME NEW f \in Sheet!Figures, NEW daily \in [Sheet!Day -> Sheet!Codes] \cup {Missing},
         daily # Missing => f = Sheet!FiguresOf(Sheet!SummariseDays(daily))
  PROVE  /\ RecordInv(Sheet!Stored(f, daily))
         /\ Sheet!Stored(f, daily).f = f /\ Sheet!Stored(f, daily).daily = daily
  BY CalcIs DEF RecordInv, Sheet!Stored

LEMMA DefaultIs == Sheet!DefaultDays \in [Sheet!Day -> Sheet!Codes]
  BY DEF Sheet!DefaultDays, Sheet!Codes

LEMMA OverlayIs == ASSUME NEW rec PROVE Sheet!Overlay(rec) \in [Sheet!Day -> Sheet!Codes]
  BY DefaultIs DEF Sheet!Overlay, Sheet!Codes

-----------------------------------------------------------------------------
(* The page *)

LEMMA GridIs ==
  ASSUME NEW days \in [Sheet!Day -> Sheet!Codes], NEW clean \in BOOLEAN, NEW s,
         clean => /\ RecordInv(s)
                  /\ days = IF s.daily # Missing THEN s.daily ELSE Sheet!Overlay(s)
  PROVE  GridInv(Sheet!Grid(days, clean), s)
  BY DEF GridInv, Sheet!Grid

LEMMA QuickIs ==
  ASSUME NEW q \in Sheet!Figures, NEW clean \in BOOLEAN, NEW s,
         clean => RecordInv(s) /\ q = s.f
  PROVE  QuickInv(Sheet!Quick(q, clean), s)
  BY DEF QuickInv, Sheet!Quick

LEMMA FormIs ==
  /\ view.form = "grid" /\ SheetInv => GridInv(view, server)
  /\ view.form = "quick" /\ SheetInv => QuickInv(view, server)
<1>1. /\ GridInv(view, server) => view.form = "grid"
      /\ QuickInv(view, server) => view.form = "quick"
  BY DEF GridInv, QuickInv
<1>. QED
  BY <1>1 DEF SheetInv

\* A saved row is the record that was stored.
LEMMA SavedIs ==
  ASSUME NEW s, RecordInv(s)
  PROVE  /\ GridInv(view, server) /\ view.days = s.daily /\ s.daily # Missing
              => GridInv([view EXCEPT !.clean = TRUE], s)
         /\ QuickInv(view, server) /\ view.quick = s.f
              => QuickInv([view EXCEPT !.clean = TRUE], s)
  BY DEF GridInv, QuickInv

LEMMA SheetInit == ASSUME Sheet!Init PROVE SheetInv
  BY DefaultIs DEF Sheet!Init, SheetInv, GridInv, Sheet!Grid

LEMMA SheetStep ==
  ASSUME SheetInv, [Sheet!Next]_(Sheet!vars) PROVE SheetInv'
<1>1. CASE UNCHANGED Sheet!vars
  BY <1>1 DEF Sheet!vars, SheetInv
<1>f. /\ view.form = "grid" => GridInv(view, server)
      /\ view.form = "quick" => QuickInv(view, server)
  BY FormIs
<1>2. CASE Sheet!EditDay
  <2>1. PICK i \in Sheet!Day, c \in CodesTyped :
          view' = Sheet!Grid([view.days EXCEPT ![i] = c], FALSE) /\ server' = server
    BY <1>2 DEF Sheet!EditDay
  <2>2. view.days \in [Sheet!Day -> Sheet!Codes] /\ c \in Sheet!Codes
    BY <1>2, <1>f, SheetAssumption DEF Sheet!EditDay, GridInv
  <2>. DEFINE d == [view.days EXCEPT ![i] = c]
  <2>3. d \in [Sheet!Day -> Sheet!Codes]
    BY <2>2
  <2>. HIDE DEF d
  <2>. QED
    <3>1. GridInv(Sheet!Grid(d, FALSE), server)
      BY <2>3, GridIs
    <3>. QED
      BY <2>1, <3>1 DEF SheetInv, d
<1>3. CASE Sheet!EditTotal
  <2>1. PICK x \in DOMAIN view.quick, n \in TotalsTyped :
          view' = Sheet!Quick([view.quick EXCEPT ![x] = n], FALSE) /\ server' = server
    BY <1>3 DEF Sheet!EditTotal
  <2>2. view.quick \in Sheet!Figures /\ n \in Nat
    BY <1>3, <1>f, SheetAssumption DEF Sheet!EditTotal, QuickInv
  <2>. DEFINE q == [view.quick EXCEPT ![x] = n]
  <2>3. q \in Sheet!Figures
    BY <2>2 DEF Sheet!Figures
  <2>. HIDE DEF q
  <2>. QED
    <3>1. QuickInv(Sheet!Quick(q, FALSE), server)
      BY <2>3, QuickIs
    <3>. QED
      BY <2>1, <3>1 DEF SheetInv, q
<1>4. CASE Sheet!SaveGrid
  <2>1. GridInv(view, server)
    BY <1>4, <1>f DEF Sheet!SaveGrid
  <2>. DEFINE f == Sheet!FiguresOf(Sheet!SummariseDays(view.days))
              rec == Sheet!Stored(f, view.days)
  <2>2. server' = rec /\ view' = [view EXCEPT !.clean = TRUE]
    BY <1>4 DEF Sheet!SaveGrid
  <2>3. view.days \in [Sheet!Day -> Sheet!Codes] /\ view.days # Missing
    BY <2>1, SheetAssumption DEF GridInv, Sheet!Day
  <2>4. RecordInv(rec) /\ rec.daily = view.days
    BY <2>3, SummaryIs, StoredInv
  <2>. HIDE DEF rec
  <2>5. GridInv([view EXCEPT !.clean = TRUE], rec)
    BY <2>1, <2>3, <2>4, SavedIs
  <2>. QED
    BY <2>2, <2>4, <2>5 DEF SheetInv
<1>5. CASE Sheet!SaveQuick
  <2>1. QuickInv(view, server)
    BY <1>5, <1>f DEF Sheet!SaveQuick
  <2>. DEFINE rec == Sheet!Stored(view.quick, Missing)
  <2>2. server' = rec /\ view' = [view EXCEPT !.clean = TRUE]
    BY <1>5 DEF Sheet!SaveQuick
  <2>4. RecordInv(rec) /\ rec.f = view.quick /\ view.quick \in Sheet!Figures
    BY <2>1, StoredInv DEF QuickInv
  <2>. HIDE DEF rec
  <2>5. QuickInv([view EXCEPT !.clean = TRUE], rec)
    BY <2>1, <2>4, SavedIs
  <2>. QED
    BY <2>2, <2>4, <2>5 DEF SheetInv
<1>6. CASE Sheet!Rebuild
  <2>1. server' = server /\ (server = Missing \/ RecordInv(server))
    BY <1>6 DEF Sheet!Rebuild, SheetInv
  <2>2. CASE view' = Sheet!Grid(Sheet!GridDays(server), server # Missing)
    <3>1. /\ Sheet!GridDays(server) \in [Sheet!Day -> Sheet!Codes]
          /\ server # Missing => Sheet!GridDays(server) =
                IF server.daily # Missing THEN server.daily ELSE Sheet!Overlay(server)
      BY <2>1, DefaultIs, OverlayIs DEF Sheet!GridDays, RecordInv
    <3>. QED
      BY <2>1, <2>2, <3>1 DEF SheetInv, GridInv, Sheet!Grid
  <2>3. CASE view' = Sheet!Quick(Sheet!QuickRow(server), server # Missing)
    <3>1. /\ Sheet!QuickRow(server) \in Sheet!Figures
          /\ server # Missing => Sheet!QuickRow(server) = server.f
      BY <2>1 DEF Sheet!QuickRow, RecordInv, Sheet!Figures
    <3>. QED
      BY <2>1, <2>3, <3>1 DEF SheetInv, QuickInv, Sheet!Quick
  <2>. QED
    BY <1>6, <2>2, <2>3 DEF Sheet!Rebuild
<1>. QED
  BY <1>1, <1>2, <1>3, <1>4, <1>5, <1>6 DEF Sheet!Next

LEMMA SheetTypes == ASSUME SheetInv PROVE Sheet!TypeOK
  BY DEF SheetInv, GridInv, QuickInv, RecordInv, Sheet!TypeOK

LEMMA SheetQuick == ASSUME SheetInv PROVE Sheet!QuickShowsStoredPayable
<1>1. ASSUME view.form = "quick", view.clean
      PROVE  RecordInv(server) /\ view.quick = server.f
  BY <1>1, FormIs DEF QuickInv
<1>. QED
  BY <1>1, CalcIs DEF Sheet!QuickShowsStoredPayable, RecordInv

-----------------------------------------------------------------------------
(* The grid *)

\* From day codes without half days, the losses of pay are all that is not paid.
LEMMA WholeDaysArePaid ==
  ASSUME NEW days \in [Sheet!Day -> Sheet!Codes], Sheet!Count(days, {"HD"}) = 0
  PROVE  Sheet!Calc(Sheet!FiguresOf(Sheet!SummariseDays(days))).payable
           = Sheet!SummariseDays(days).payable
<1>. DEFINE P == Sheet!Count(days, {"P", "WFH"})
            D == Sheet!Count(days, {"HD"})
            C == Sheet!Count(days, {"CL"})
            W == Sheet!Count(days, {"WO"})
            H == Sheet!Count(days, {"H"})
            L == Sheet!Count(days, {"LOP", "A"})
            f == Sheet!FiguresOf(Sheet!SummariseDays(days))
<1>1. P \in Nat /\ D = 0 /\ C \in Nat /\ W \in Nat /\ H \in Nat /\ L \in Nat
  BY CountIs
<1>2. P + D + C + W + H + L = TotalDays
  BY EveryDayCounts
<1>3. Sheet!SummariseDays(days) =
        [present |-> 2 * P + D, leave |-> 2 * C, wo |-> 2 * W, holiday |-> 2 * H,
         lop |-> 2 * L, payable |-> Sheet!Total - 2 * L]
  BY DEF Sheet!SummariseDays
<1>. HIDE DEF P, D, C, W, H, L
<1>4. f.present = 2 * P + D /\ f.leave = 2 * C /\ f.wo = 2 * W /\ f.holiday = 2 * H
  BY <1>3 DEF Sheet!FiguresOf
<1>5. f \in Sheet!Figures
  BY SummaryIs
<1>6. Sheet!SummariseDays(days).payable = 2 * TotalDays - 2 * L
  BY <1>3 DEF Sheet!Total
<1>. HIDE DEF f
<1>7. LET d == 2 * TotalDays - f.present - f.leave - f.wo - f.holiday
      IN d = 2 * L /\ (IF d < 0 THEN 0 ELSE d) = 2 * L
  BY <1>1, <1>2, <1>4, SheetAssumption
<1>8. Sheet!Calc(f).payable = 2 * TotalDays - 2 * L
  BY <1>5, <1>7, CalcIs
<1>. QED
  BY <1>6, <1>8 DEF f

\* The default working days, and the place of each, counted from the end of the month.
Working == {i \in Sheet!Day : Sheet!DefaultDays[i] = "P"}
Place == [i \in Working |-> Cardinality({j \in Working : j >= i})]

LEMMA EachHasItsPlace == Place \in Bijection(Working, 1..Cardinality(Working))
<1>. DEFINE N == Cardinality(Working)
            From(i) == {j \in Working : j >= i}
<1>1. /\ IsFiniteSet(Working) /\ N \in Nat /\ \A i \in Working : i \in Int
      /\ \A S \in SUBSET Working : IsFiniteSet(S) /\ Cardinality(S) \in Nat
  <2>1. Working \in SUBSET Sheet!Day
    BY DEF Working
  <2>. QED
    BY <2>1, DaysAreFinite, SheetAssumption DEF Sheet!Day
<1>2. ASSUME NEW i \in Working PROVE Place[i] = Cardinality(From(i)) /\ Place[i] \in 1..N
  <2>1. From(i) \in SUBSET Working /\ i \in From(i)
    BY <1>1, <1>2
  <2>2. Place[i] = Cardinality(From(i))
    BY <1>2 DEF Place
  <2>. HIDE DEF From
  <2>3. Cardinality(From(i)) <= N /\ Cardinality(From(i)) \in Nat /\ Cardinality(From(i)) # 0
    BY <1>1, <2>1, FS_Subset, FS_EmptySet
  <2>. QED
    BY <1>1, <2>2, <2>3
<1>3. ASSUME NEW i \in Working, NEW j \in Working, i < j PROVE Place[i] # Place[j]
  <2>1. From(i) \in SUBSET Working /\ From(j) \in SUBSET From(i) /\ i \in From(i) /\ i \notin From(j)
    BY <1>1, <1>3
  <2>. HIDE DEF From
  <2>2. From(i) # From(j) /\ IsFiniteSet(From(i))
    BY <1>1, <2>1
  <2>3. Cardinality(From(i)) # Cardinality(From(j))
    BY <2>1, <2>2, FS_Subset
  <2>. QED
    BY <1>2, <2>3
<1>4. Place \in [Working -> 1..N]
  BY <1>2 DEF Place
<1>5. \A i, j \in Working : Place[i] = Place[j] => i = j
  <2>1. \A i, j \in Working : i < j \/ j < i \/ i = j
    BY <1>1
  <2>. QED
    BY <1>3, <2>1
<1>6. Place \in Injection(Working, 1..N)
  BY <1>4, <1>5 DEF Injection, IsInjective
<1>7. IsFiniteSet(1..N) /\ Cardinality(1..N) = N
  BY <1>1, FS_Interval
<1>8. Place \in Surjection(Working, 1..N)
  BY <1>6, <1>7, FS_Injection
<1>. QED
  BY <1>6, <1>8 DEF Bijection

\* So as many of them as asked for stand at the places asked for.
LEMMA AsManyAsPlaces ==
  ASSUME NEW a \in Nat, NEW b \in Nat, a + b <= Cardinality(Working)
  PROVE  Cardinality({i \in Working : a < Place[i] /\ Place[i] <= a + b}) = b
<1>. DEFINE N == Cardinality(Working)
            S == {i \in Working : a < Place[i] /\ Place[i] <= a + b}
            T == a + 1 .. a + b
            g == [i \in S |-> Place[i]]
<1>1. /\ Place \in [Working -> 1..N]
      /\ \A i, j \in Working : Place[i] = Place[j] => i = j
      /\ \A n \in 1..N : \E i \in Working : Place[i] = n
  BY EachHasItsPlace DEF Bijection, Injection, Surjection, IsInjective
<1>2. Working \in SUBSET Sheet!Day /\ N \in Nat
  BY DaysAreFinite DEF Working
<1>3. g \in [S -> T] /\ \A i, j \in S : g[i] = g[j] => i = j
  BY <1>1, <1>2
<1>4. \A n \in T : n \in 1..N
  BY <1>2
<1>5. \A n \in T : \E i \in S : g[i] = n
  BY <1>1, <1>2, <1>4
<1>. HIDE DEF g
<1>6. g \in Bijection(S, T)
  BY <1>3, <1>5 DEF Bijection, Injection, Surjection, IsInjective
<1>7. IsFiniteSet(S)
  BY <1>2, DaysAreFinite
<1>8. Cardinality(T) = Cardinality(S)
  BY <1>6, <1>7, FS_Bijection DEF ExistsBijection
<1>9. Cardinality(T) = b
  <2>1. a + 1 \in Int /\ a + b \in Int
    OBVIOUS
  <2>2. Cardinality(T) = IF a + 1 > a + b THEN 0 ELSE a + b - (a + 1) + 1
    BY <2>1, FS_Interval
  <2>. QED
    BY <2>2
<1>. QED
  BY <1>8, <1>9

\* The losses of pay laid over the month are those of the record, when they fit.
LEMMA OverlayLays ==
  ASSUME NEW rec, Sheet!Rounded(rec.f.holiday) \in Nat, Sheet!Rounded(rec.lop) \in Nat,
         Sheet!Rounded(rec.f.holiday) + Sheet!Rounded(rec.lop)
           <= Sheet!Count(Sheet!DefaultDays, {"P"})
  PROVE  Sheet!Count(Sheet!Overlay(rec), {"LOP", "A"}) = Sheet!Rounded(rec.lop)
<1>. DEFINE h == Sheet!Rounded(rec.f.holiday)
            l == Sheet!Rounded(rec.lop)
            o == Sheet!Overlay(rec)
<1>1. Sheet!Count(Sheet!DefaultDays, {"P"}) = Cardinality(Working)
  <2>1. {i \in Sheet!Day : Sheet!DefaultDays[i] \in {"P"}} = Working
    BY DEF Working
  <2>. QED
    BY <2>1, CountIs
<1>2. ASSUME NEW i \in Working PROVE o[i] = IF Place[i] <= h THEN "H"
                                           ELSE IF Place[i] <= h + l THEN "LOP" ELSE "P"
  <2>1. {j \in Sheet!Day : j >= i /\ Sheet!DefaultDays[j] = "P"} = {j \in Working : j >= i}
    BY DEF Working
  <2>2. Place[i] = Sheet!Cardinality({j \in Sheet!Day : j >= i /\ Sheet!DefaultDays[j] = "P"})
    BY <2>1, SheetCount DEF Place
  <2>3. i \in Sheet!Day /\ Sheet!DefaultDays[i] = "P"
    BY DEF Working
  <2>. QED
    BY <2>2, <2>3 DEF Sheet!Overlay
<1>3. ASSUME NEW i \in Sheet!Day, i \notin Working PROVE o[i] = "WO"
  BY <1>3 DEF Sheet!Overlay, Sheet!DefaultDays, Working
<1>4. ASSUME NEW i \in Working PROVE Place[i] \in Int
  BY EachHasItsPlace DEF Bijection, Injection
<1>. HIDE DEF h, l, o
<1>5. {i \in Sheet!Day : o[i] \in {"LOP", "A"}}
        = {i \in Working : h < Place[i] /\ Place[i] <= h + l}
  <2>1. \A i \in Working : o[i] \in {"LOP", "A"} <=> h < Place[i] /\ Place[i] <= h + l
    <3>. h \in Nat /\ l \in Nat
      BY DEF h, l
    <3>. QED
      BY <1>2, <1>4
  <2>2. Working \subseteq Sheet!Day
    BY DEF Working
  <2>. QED
    BY <1>3, <2>1, <2>2
<1>6. Cardinality({i \in Working : h < Place[i] /\ Place[i] <= h + l}) = l
  BY <1>1, AsManyAsPlaces DEF h, l
<1>. QED
  BY <1>5, <1>6, CountIs DEF l, o

LEMMA HalvesOf ==
  ASSUME NEW n \in Nat
  PROVE  Sheet!Rounded(n) \in Nat /\ (n % 2 = 0 => 2 * Sheet!Rounded(n) = n)
  BY DEF Sheet!Rounded

LEMMA SheetGrid == ASSUME SheetInv PROVE Sheet!GridShowsStoredPayable
<1>. SUFFICES ASSUME view.form = "grid", view.clean, Sheet!Faithful(server)
              PROVE  Sheet!SummariseDays(view.days).payable = server.payable
  BY DEF Sheet!GridShowsStoredPayable
<1>1. /\ RecordInv(server) /\ view.days \in [Sheet!Day -> Sheet!Codes]
      /\ view.days = IF server.daily # Missing THEN server.daily ELSE Sheet!Overlay(server)
  BY FormIs DEF GridInv
<1>2. CASE server.daily # Missing
  <2>1. Sheet!Count(view.days, {"HD"}) = 0
    BY <1>1, <1>2 DEF Sheet!Faithful
  <2>. QED
    BY <1>1, <1>2, <2>1, WholeDaysArePaid DEF RecordInv
<1>3. CASE server.daily = Missing
  <2>1. server.f \in Sheet!Figures /\ server.f.holiday \in Nat /\ server.lop \in Nat
    BY <1>1 DEF RecordInv, Sheet!Figures
  <2>2. /\ server.lop % 2 = 0
        /\ Sheet!Rounded(server.f.holiday) + Sheet!Rounded(server.lop)
             <= Sheet!Count(Sheet!DefaultDays, {"P"})
    BY <1>3 DEF Sheet!Faithful
  <2>3. Sheet!Count(view.days, {"LOP", "A"}) = Sheet!Rounded(server.lop)
    BY <1>1, <1>3, <2>1, <2>2, HalvesOf, OverlayLays
  <2>4. Sheet!SummariseDays(view.days).payable
          = 2 * TotalDays - 2 * Sheet!Count(view.days, {"LOP", "A"})
    BY DEF Sheet!SummariseDays, Sheet!Total
  <2>5. server.payable = 2 * TotalDays - server.lop
    BY <1>1, <2>1, CalcIs DEF RecordInv
  <2>. QED
    BY <2>1, <2>2, <2>3, <2>4, <2>5, HalvesOf
<1>. QED
  BY <1>2, <1>3

-----------------------------------------------------------------------------
(* BulkImport.  The run is followed from the rows sent to employee-service, *)
(* through what it reported of them, to the structures salary-service took. *)

\* Of an import under way: salary-service pays every structure it answered for.
RunInv(run, ctc) ==
    run.at = "paid" => \A x \in Import!Structures(run) : ctc[x.id] > 0

\* What the result page says it did, of those created and of duplicates.
ResultInv(v, ctc) ==
    v.step = 3 /\ ~v.salaryError =>
        \A x \in v.result : x.row.wage = "MONTHLY" /\ x.row.ctc > 0 => ctc[x.id] > 0

ImportInv ==
    /\ Import!TypeOK
    /\ RunInv(view.run, server.ctc)
    /\ ResultInv(view, server.ctc)

ImportServer == [cards : SUBSET Cards, employees : SUBSET Import!Ids,
                 ctc : [Import!Ids -> Nat]]

LEMMA ImportTypes ==
  ASSUME Import!TypeOK
  PROVE  /\ view \in Import!View /\ server \in ImportServer
         /\ view.step \in 0..3 /\ view.rows \in SUBSET Import!Row
         /\ view.run.rows \in SUBSET Import!Row /\ view.run.made \in SUBSET Import!Report
         /\ view.wage \in Import!Wages /\ view.card \in Cards \cup {Missing}
  BY DEF Import!TypeOK, Import!View, ImportServer

LEMMA ImportViewStep ==
  ASSUME ImportInv, NEW v \in Import!View, view' = v, server' = server,
         RunInv(v.run, server.ctc), ResultInv(v, server.ctc)
  PROVE  ImportInv'
  BY DEF ImportInv, Import!TypeOK, RunInv, ResultInv, Import!Structures

LEMMA ImportInit == ASSUME Import!Init PROVE ImportInv
<1>. DEFINE before == {Import!Known(p) : p \in OnTheBooks}
<1>1. before \subseteq Import!Ids
  BY ImportAssumption DEF Import!Known, Import!Ids
<1>2. Import!Start \in Import!View
  BY DEF Import!Start, Import!View, Import!Idle, Import!Wages, Import!None
<1>3. [i \in Import!Ids |-> IF i \in before THEN 1 ELSE 0] \in [Import!Ids -> Nat]
  OBVIOUS
<1>i. server = [cards |-> {}, employees |-> before,
                ctc |-> [i \in Import!Ids |-> IF i \in before THEN 1 ELSE 0]]
  BY DEF Import!Init
<1>. HIDE DEF before
<1>4. server \in ImportServer
  BY <1>1, <1>3, <1>i DEF ImportServer
<1>. QED
  BY <1>2, <1>4 DEF ImportInv, Import!Init, Import!TypeOK, ImportServer, RunInv, ResultInv,
     Import!Start, Import!Idle, Import!None

\* What fills the gaps of a row makes a row of it.
LEMMA EffectiveRow ==
  ASSUME Import!TypeOK, NEW r \in Import!Row PROVE Import!Effective(r) \in Import!Row
<1>. DEFINE w == IF r.wage # "" THEN r.wage ELSE view.wage
            k == IF r.card = Missing /\ w = "DAILY" THEN view.card ELSE r.card
<1>1. w \in Import!Wages /\ k \in Cards \cup {Missing}
  BY ImportTypes DEF Import!Row
<1>2. Import!Effective(r) = [r EXCEPT !.wage = w, !.card = k]
  BY DEF Import!Effective, Import!Row
<1>. HIDE DEF w, k
<1>. QED
  BY <1>1, <1>2 DEF Import!Row

\* The wizard leaves what is under way, and what it showed of it, alone.
LEMMA WizardStep ==
  ASSUME ImportInv, NEW v \in Import!View, view' = v, server' = server,
         v.run = view.run, v.step = 3 => v.step = view.step /\ v.result = view.result
                                         /\ v.salaryError = view.salaryError
  PROVE  ImportInv'
<1>1. RunInv(v.run, server.ctc) /\ ResultInv(v, server.ctc)
  BY DEF ImportInv, ResultInv
<1>. QED
  BY <1>1, ImportViewStep

LEMMA WizardInv ==
  ASSUME ImportInv,
         \/ Import!ChoosePay \/ Import!Move
         \/ \E f \in EmployeeFiles : Import!PickFile(f) \/ Import!Parsed(f)
  PROVE  ImportInv'
<1>t. /\ view \in Import!View /\ view.step \in 0..3 /\ view.rows \in SUBSET Import!Row
      /\ view.parsing \in SUBSET EmployeeFiles
  BY ImportTypes DEF ImportInv, Import!View
<1>1. CASE Import!ChoosePay
  <2>1. ASSUME NEW w \in {"MONTHLY", "DAILY"}, view' = [view EXCEPT !.wage = w]
        PROVE  ImportInv'
    <3>. DEFINE v == [view EXCEPT !.wage = w]
    <3>1. /\ v \in Import!View /\ v.run = view.run /\ v.step = view.step
          /\ v.result = view.result /\ v.salaryError = view.salaryError
      BY <1>t DEF Import!View, Import!Wages
    <3>2. view' = v /\ server' = server
      BY <1>1, <2>1 DEF Import!ChoosePay
    <3>. HIDE DEF v
    <3>. QED
      BY <3>1, <3>2, WizardStep
  <2>2. ASSUME NEW c \in server.cards \cup {Missing}, view' = [view EXCEPT !.card = c]
        PROVE  ImportInv'
    <3>1. c \in Cards \cup {Missing}
      BY ImportTypes DEF ImportInv, ImportServer
    <3>. DEFINE v == [view EXCEPT !.card = c]
    <3>2. /\ v \in Import!View /\ v.run = view.run /\ v.step = view.step
          /\ v.result = view.result /\ v.salaryError = view.salaryError
      BY <1>t, <3>1 DEF Import!View
    <3>3. view' = v /\ server' = server
      BY <1>1, <2>2 DEF Import!ChoosePay
    <3>. HIDE DEF v
    <3>. QED
      BY <3>2, <3>3, WizardStep
  <2>. QED
    BY <1>1, <2>1, <2>2 DEF Import!ChoosePay
<1>2. CASE Import!Move
  <2>1. PICK n \in 0..2 : /\ server' = server
                          /\ \/ view' = [view EXCEPT !.step = n]
                             \/ view' = [view EXCEPT !.step = n, !.rows = {}, !.file = Missing]
    <3>1. ASSUME view.step \in {1, 2} PROVE view.step - 1 \in 0..2
      BY <3>1
    <3>. QED
      BY <1>2, <3>1 DEF Import!Move
  <2>2. n \in 0..3 /\ n # 3
    OBVIOUS
  <2>. DEFINE v == [view EXCEPT !.step = n]
              w == [view EXCEPT !.step = n, !.rows = {}, !.file = Missing]
  <2>3. /\ v \in Import!View /\ v.run = view.run /\ v.step = n
        /\ w \in Import!View /\ w.run = view.run /\ w.step = n
    BY <1>t, <2>2 DEF Import!View
  <2>4. (view' = v \/ view' = w) /\ server' = server
    BY <2>1
  <2>. HIDE DEF v, w
  <2>. QED
    BY <2>2, <2>3, <2>4, WizardStep
<1>3. ASSUME NEW f \in EmployeeFiles, Import!PickFile(f) PROVE ImportInv'
  <2>. DEFINE v == [view EXCEPT !.file = f, !.rows = {}, !.parsing = view.parsing \cup {f}]
  <2>1. /\ v \in Import!View /\ v.run = view.run /\ v.step = view.step
        /\ v.result = view.result /\ v.salaryError = view.salaryError
    BY <1>t DEF Import!View
  <2>2. view' = v /\ server' = server
    BY <1>3 DEF Import!PickFile
  <2>. HIDE DEF v
  <2>. QED
    BY <2>1, <2>2, WizardStep
<1>4. ASSUME NEW f \in EmployeeFiles, Import!Parsed(f) PROVE ImportInv'
  <2>. DEFINE v == [view EXCEPT !.parsing = view.parsing \ {f}, !.rows = EmployeeRows[f], !.step = 2]
              w == [view EXCEPT !.parsing = view.parsing \ {f}]
  <2>0. EmployeeRows[f] \in SUBSET Import!Row
    BY ImportAssumption
  <2>z. 2 \in 0..3
    OBVIOUS
  <2>1. /\ v \in Import!View /\ v.run = view.run /\ v.step = 2
    BY <1>t, <2>0, <2>z DEF Import!View
  <2>3. /\ w \in Import!View /\ w.run = view.run /\ w.step = view.step
        /\ w.result = view.result /\ w.salaryError = view.salaryError
    BY <1>t DEF Import!View
  <2>2. (view' = v \/ view' = w) /\ server' = server
    BY <1>4 DEF Import!Parsed
  <2>. HIDE DEF v, w
  <2>. QED
    BY <2>1, <2>2, <2>3, WizardStep
<1>. QED
  BY <1>1, <1>2, <1>3, <1>4

LEMMA CardInv ==
  ASSUME ImportInv, NEW c \in Cards, Import!CreateCard(c) PROVE ImportInv'
<1>. DEFINE s == [server EXCEPT !.cards = server.cards \cup {c}]
            v == [view EXCEPT !.card = c]
<1>1. view' = v /\ server' = s
  BY DEF Import!CreateCard
<1>2. s \in ImportServer /\ s.ctc = server.ctc
  BY ImportTypes DEF ImportInv, ImportServer
<1>3. /\ v \in Import!View /\ v.run = view.run /\ v.step = view.step
      /\ v.result = view.result /\ v.salaryError = view.salaryError
  BY ImportTypes DEF ImportInv, Import!View
<1>. HIDE DEF v, s
<1>. QED
  BY <1>1, <1>2, <1>3
  DEF ImportInv, ImportServer, Import!TypeOK, RunInv, ResultInv, Import!Structures

\* An import starts before either service has answered, and closing the wizard
\* leaves it under way.
LEMMA StartsInv ==
  ASSUME ImportInv, Import!Import \/ Import!Close PROVE ImportInv'
<1>t. view \in Import!View /\ view.step \in 0..3
  BY ImportTypes DEF ImportInv
<1>1. CASE Import!Import
  <2>. DEFINE u == [Import!Idle EXCEPT !.at = "post", !.rows = Import!ValidRows, !.open = TRUE]
              v == [view EXCEPT !.salaryError = FALSE, !.run = u]
  <2>1. view' = v /\ server' = server /\ view.step = 2
    BY <1>1 DEF Import!Import
  <2>2. Import!ValidRows \in SUBSET Import!Row
    BY ImportTypes, EffectiveRow DEF ImportInv, Import!ValidRows
  <2>3. /\ u \in [at : {Import!None, "post", "posted", "pay", "paid"},
                  rows : SUBSET Import!Row, made : SUBSET Import!Report, open : BOOLEAN]
        /\ u.at = "post"
    BY <2>2 DEF Import!Idle
  <2>. HIDE DEF u
  <2>4. v \in Import!View /\ v.run = u /\ v.step = 2
    BY <1>t, <2>1, <2>3 DEF Import!View
  <2>. HIDE DEF v
  <2>. QED
    BY <2>1, <2>3, <2>4, ImportViewStep DEF RunInv, ResultInv
<1>2. CASE Import!Close
  <2>. DEFINE u == [view.run EXCEPT !.open = FALSE]
              v == [Import!Start EXCEPT !.run = u]
  <2>1. view' = v /\ server' = server
    BY <1>2 DEF Import!Close
  <2>2. /\ u \in [at : {Import!None, "post", "posted", "pay", "paid"},
                  rows : SUBSET Import!Row, made : SUBSET Import!Report, open : BOOLEAN]
        /\ u.at = view.run.at /\ u.rows = view.run.rows /\ u.made = view.run.made
    BY <1>t DEF Import!View
  <2>. HIDE DEF u
  <2>z. 0 \in 0..3
    OBVIOUS
  <2>3. v \in Import!View /\ v.run = u /\ v.step = 0
    BY <2>2, <2>z DEF Import!View, Import!Start, Import!Wages
  <2>. HIDE DEF v
  <2>. QED
    BY <2>1, <2>2, <2>3, ImportViewStep DEF ImportInv, RunInv, ResultInv, Import!Structures
<1>. QED
  BY <1>1, <1>2

\* Of a row that is recognised, or whose next employee there is still an id for.
LEMMA ReportedType ==
  ASSUME Import!TypeOK, NEW r \in Import!Row,
         r.marked \/ ~(Import!Twins(r.who) \subseteq server.employees)
  PROVE  Import!Reported(r) \in Import!Report
<1>1. r.who \in People
  BY DEF Import!Row
<1>2. CASE r.marked
  <2>1. Import!Known(r.who) \in Import!Ids
    BY <1>1, ImportAssumption DEF Import!Known, Import!Ids
  <2>. QED
    BY <1>2, <2>1 DEF Import!Reported, Import!Report
<1>3. CASE ~r.marked
  <2>. DEFINE i == CHOOSE i \in Import!Twins(r.who) : i \notin server.employees
  <2>1. i \in Import!Twins(r.who)
    BY <1>3
  <2>2. i \in Import!Ids
    BY <2>1 DEF Import!Twins
  <2>3. Import!Reported(r) = [row |-> r, id |-> i, new |-> TRUE]
    BY <1>3 DEF Import!Reported
  <2>. HIDE DEF i
  <2>. QED
    BY <2>2, <2>3 DEF Import!Report
<1>. QED
  BY <1>2, <1>3

\* What employee-service has reported is not paid for yet.
LEMMA PostInv == ASSUME ImportInv, Import!Post PROVE ImportInv'
<1>t. /\ Import!TypeOK /\ view \in Import!View /\ server \in ImportServer
      /\ view.run.rows \in SUBSET Import!Row
  BY ImportTypes DEF ImportInv
<1>. DEFINE k == {Import!Reported(r) : r \in {r \in view.run.rows : ~Import!Refused(r)}}
            e == server.employees \cup {x.id : x \in k}
            u == [view.run EXCEPT !.at = "posted", !.made = k]
            v == [view EXCEPT !.run = u]
            s == [server EXCEPT !.employees = e]
<1>1. view' = v /\ server' = s
  BY DEF Import!Post
<1>2. k \in SUBSET Import!Report
  BY <1>t, ReportedType DEF Import!Post
<1>. HIDE DEF k
<1>e. e \in SUBSET Import!Ids
  BY <1>t, <1>2 DEF ImportServer, Import!Report
<1>. HIDE DEF e
<1>3. /\ u \in [at : {Import!None, "post", "posted", "pay", "paid"},
                rows : SUBSET Import!Row, made : SUBSET Import!Report, open : BOOLEAN]
      /\ u.at = "posted"
  BY <1>t, <1>2 DEF Import!View
<1>. HIDE DEF u
<1>4. /\ v \in Import!View /\ v.run = u /\ v.step = view.step
      /\ v.result = view.result /\ v.salaryError = view.salaryError
  BY <1>t, <1>3 DEF Import!View
<1>5. s \in ImportServer /\ s.ctc = server.ctc
  BY <1>t, <1>e DEF ImportServer
<1>. HIDE DEF v, s
<1>. QED
  BY <1>1, <1>3, <1>4, <1>5
  DEF ImportInv, Import!TypeOK, ImportServer, RunInv, ResultInv

\* salary-service pays whoever has a structure, and leaves the others' pay alone.
LEMMA PayInv == ASSUME ImportInv, Import!Pay PROVE ImportInv'
<1>t. /\ view \in Import!View /\ server \in ImportServer
      /\ view.run.rows \in SUBSET Import!Row
  BY ImportTypes DEF ImportInv
<1>. DEFINE g == Import!Structures(view.run)
            pay == [i \in Import!Ids |-> IF \E x \in g : x.id = i
                                         THEN (CHOOSE x \in g : x.id = i).row.ctc
                                         ELSE server.ctc[i]]
            u == [view.run EXCEPT !.at = "paid"]
            v == [view EXCEPT !.run = u]
            s == [server EXCEPT !.ctc = pay]
<1>1. view' = v /\ server' = s /\ view.run.at = "pay"
  BY DEF Import!Pay
<1>2. \A x \in g : x.id \in Import!Ids /\ x.row.ctc \in Nat /\ x.row.ctc > 0
  BY <1>t, ImportTypes DEF ImportInv, Import!Structures, Import!Report, Import!Row
<1>3. \A i \in Import!Ids : (\E x \in g : x.id = i) => pay[i] \in Nat /\ pay[i] > 0
  <2>. TAKE i \in Import!Ids
  <2>. HAVE \E x \in g : x.id = i
  <2>1. (CHOOSE x \in g : x.id = i) \in g
    OBVIOUS
  <2>. QED
    BY <1>2, <2>1
<1>4. \A i \in Import!Ids : ~(\E x \in g : x.id = i) => pay[i] = server.ctc[i]
  OBVIOUS
<1>5. server.ctc \in [Import!Ids -> Nat]
  BY <1>t DEF ImportServer
<1>p. pay \in [Import!Ids -> Nat]
  BY <1>3, <1>4, <1>5
<1>. HIDE DEF pay
<1>6. \A i \in Import!Ids : server.ctc[i] > 0 => pay[i] > 0
  BY <1>3, <1>4
<1>7. /\ u \in [at : {Import!None, "post", "posted", "pay", "paid"},
                rows : SUBSET Import!Row, made : SUBSET Import!Report, open : BOOLEAN]
      /\ u.at = "paid" /\ u.rows = view.run.rows /\ u.made = view.run.made
  BY <1>t DEF Import!View
<1>8. Import!Structures(u) = g
  BY <1>7 DEF Import!Structures
<1>. HIDE DEF u, g
<1>9. /\ v \in Import!View /\ v.run = u /\ v.step = view.step
      /\ v.result = view.result /\ v.salaryError = view.salaryError
  BY <1>t, <1>7 DEF Import!View
<1>10. s \in ImportServer /\ s.ctc = pay
  BY <1>t, <1>p DEF ImportServer
<1>. HIDE DEF v, s
<1>11. RunInv(u, pay)
  BY <1>1, <1>2, <1>3, <1>7, <1>8 DEF RunInv, ImportInv
<1>12. \A x \in view.result : x.id \in Import!Ids
  BY <1>t DEF Import!View, Import!Report
<1>13. ResultInv(v, pay)
  BY <1>6, <1>9, <1>12 DEF ResultInv, ImportInv
<1>. QED
  BY <1>1, <1>9, <1>10, <1>11, <1>13 DEF ImportInv, Import!TypeOK, ImportServer

\* The answers: only the one that both services did their work shows no error.
LEMMA ImportAnswers ==
  ASSUME ImportInv, Import!Answer \/ Import!PayAnswer \/ Import!Fails PROVE ImportInv'
<1>t. /\ view \in Import!View /\ view.run.rows \in SUBSET Import!Row
      /\ RunInv(view.run, server.ctc) /\ ResultInv(view, server.ctc)
  BY ImportTypes DEF ImportInv
<1>i. Import!Idle.at = Import!None /\ Import!Idle \in
        [at : {Import!None, "post", "posted", "pay", "paid"},
         rows : SUBSET Import!Row, made : SUBSET Import!Report, open : BOOLEAN]
  BY DEF Import!Idle
<1>n. RunInv(Import!Idle, server.ctc)
  BY <1>i DEF RunInv, Import!None
<1>0. ASSUME view' = [view EXCEPT !.run = Import!Idle], server' = server PROVE ImportInv'
  <2>. DEFINE v == [view EXCEPT !.run = Import!Idle]
  <2>1. /\ v \in Import!View /\ v.run = Import!Idle /\ v.step = view.step
        /\ v.result = view.result /\ v.salaryError = view.salaryError
    BY <1>t, <1>i DEF Import!View
  <2>. HIDE DEF v
  <2>2. view' = v
    BY <1>0 DEF v
  <2>. QED
    BY <1>t, <1>n, <1>0, <2>1, <2>2, ImportViewStep DEF ResultInv
<1>1. ASSUME NEW e \in BOOLEAN, Import!Result(e), server' = server,
             ~e => \A x \in view.run.made :
                      x.row.wage = "MONTHLY" /\ x.row.ctc > 0 => server.ctc[x.id] > 0
      PROVE  ImportInv'
  <2>1. CASE ~view.run.open
    BY <1>0, <1>1, <2>1 DEF Import!Result
  <2>2. CASE view.run.open
    <3>. DEFINE v == [view EXCEPT !.run = Import!Idle, !.step = 3, !.result = view.run.made,
                                  !.salaryError = e]
    <3>0. 3 \in 0..3
      OBVIOUS
    <3>1. /\ v \in Import!View /\ v.run = Import!Idle /\ v.result = view.run.made
          /\ v.salaryError = e
      BY <1>1, <1>t, <1>i, <3>0 DEF Import!View
    <3>2. view' = v
      BY <1>1, <2>2 DEF Import!Result
    <3>. HIDE DEF v
    <3>. QED
      BY <1>n, <1>1, <3>1, <3>2, ImportViewStep DEF ResultInv
  <2>. QED
    BY <2>1, <2>2
<1>2. CASE Import!Answer
  <2>1. CASE Import!Structures(view.run) # {}
    <3>. DEFINE u == [view.run EXCEPT !.at = "pay"]
                v == [view EXCEPT !.run = u]
    <3>1. view' = v /\ server' = server /\ view.run.at = "posted"
      BY <1>2, <2>1 DEF Import!Answer
    <3>2. /\ u \in [at : {Import!None, "post", "posted", "pay", "paid"},
                    rows : SUBSET Import!Row, made : SUBSET Import!Report, open : BOOLEAN]
          /\ u.at = "pay" /\ u.rows = view.run.rows /\ u.made = view.run.made
      BY <1>t DEF Import!View
    <3>. HIDE DEF u
    <3>3. /\ v \in Import!View /\ v.run = u /\ v.step = view.step
          /\ v.result = view.result /\ v.salaryError = view.salaryError
      BY <1>t, <3>2 DEF Import!View
    <3>. HIDE DEF v
    <3>4. RunInv(u, server.ctc)
      BY <1>t, <3>1, <3>2 DEF RunInv
    <3>. QED
      BY <1>t, <3>1, <3>3, <3>4, ImportViewStep DEF ResultInv
  <2>2. CASE Import!Structures(view.run) = {}
    <3>1. view.run.at = "posted" /\ Import!Result(FALSE) /\ server' = server
      BY <1>2, <2>2 DEF Import!Answer
    <3>2. \A x \in view.run.made : ~(x.row.wage = "MONTHLY" /\ x.row.ctc > 0)
      BY <2>2 DEF Import!Structures
    <3>. QED
      BY <1>1, <3>1, <3>2
  <2>. QED
    BY <2>1, <2>2
<1>3. CASE Import!PayAnswer
  <2>1. view.run.at = "paid" /\ Import!Result(FALSE) /\ server' = server
    BY <1>3 DEF Import!PayAnswer
  <2>2. \A x \in view.run.made :
          x.row.wage = "MONTHLY" /\ x.row.ctc > 0 => server.ctc[x.id] > 0
    BY <1>t, <2>1 DEF RunInv, Import!Structures
  <2>. QED
    BY <1>1, <2>1, <2>2
<1>4. CASE Import!Fails
  BY <1>0, <1>1, <1>4 DEF Import!Fails
<1>. QED
  BY <1>2, <1>3, <1>4

LEMMA ImportStep ==
  ASSUME ImportInv, [Import!Next]_(Import!vars) PROVE ImportInv'
<1>1. CASE UNCHANGED Import!vars
  BY <1>1 DEF Import!vars, ImportInv, Import!TypeOK, RunInv, ResultInv, Import!Structures
<1>. QED
  BY <1>1, WizardInv, CardInv, StartsInv, PostInv, PayInv, ImportAnswers DEF Import!Next

LEMMA ImportPays == ASSUME ImportInv PROVE Import!NobodyLeftUnpaid
  BY DEF ImportInv, ResultInv, Import!NobodyLeftUnpaid

-----------------------------------------------------------------------------
(* RegisterImport.  Rows are someone's from the moment they are rows: a     *)
(* late parse replaces them all, and what is sent is picked from them.      *)

\* Who a row is for was matched exactly or chosen; rows can be counted.
RowsInv(rows) ==
    /\ IsFiniteSet(rows)
    /\ \A r \in rows : r.employee # Missing => r.match = "exact" \/ r.picked

RegisterInv ==
    /\ Register!TypeOK
    /\ RowsInv(view.rows)
    /\ Register!EachRowIsSomeone

LEMMA RegisterCount == \A S : Register!Cardinality(S) = Cardinality(S)
  BY DEF Register!Cardinality, Cardinality

LEMMA RegisterTypes ==
  ASSUME RegisterInv
  PROVE  /\ view \in Register!View /\ RowsInv(view.rows)
         /\ view.rows \in SUBSET Register!Row /\ view.parsing \in SUBSET Register!Parse
         /\ view.mode \in Register!Modes /\ view.loaded \in BOOLEAN
         /\ view.stage \in {"idle", "sent", "done"} /\ view.step \in 0..3
         /\ view.sent \in SUBSET Register!Row /\ view.sentMode \in Register!Modes
         /\ \A r \in view.rows : r \in Register!Row
  BY DEF RegisterInv, Register!TypeOK, Register!View

\* What there is to show of a step that sends no rows other than those sent before.
LEMMA RegisterViewStep ==
  ASSUME RegisterInv, NEW v \in Register!View, view' = v, server' = server,
         RowsInv(v.rows), v.sent = view.sent \/ v.sent = {}
  PROVE  RegisterInv'
<1>1. Register!TypeOK'
  BY DEF RegisterInv, Register!TypeOK
<1>2. Register!EachRowIsSomeone'
  BY DEF RegisterInv, Register!EachRowIsSomeone
<1>. QED
  BY <1>1, <1>2 DEF RegisterInv

LEMMA NoRows == RowsInv({})
  BY FS_EmptySet DEF RowsInv

LEMMA RegisterInit == ASSUME Register!Init PROVE RegisterInv
<1>z. 0 \in 0..3 /\ "prefilled" \in Register!Modes
  BY DEF Register!Modes
<1>1. /\ view = Register!Idle /\ Register!Idle \in Register!View
      /\ Register!Idle.rows = {} /\ Register!Idle.sent = {}
  BY <1>z DEF Register!Init, Register!Idle, Register!View
<1>2. server \in [People -> {"none", "sheet", "system"}]
  BY DEF Register!Init
<1>. QED
  BY <1>1, <1>2, NoRows DEF RegisterInv, Register!TypeOK, Register!EachRowIsSomeone

LEMMA ModalInv ==
  ASSUME RegisterInv,
         \/ Register!EmployeesLoad \/ Register!ChooseMode \/ Register!Move
         \/ Register!Close \/ Register!Answer
         \/ \E f \in RegisterFiles : Register!PickFile(f)
  PROVE  RegisterInv'
<1>t. /\ view \in Register!View /\ RowsInv(view.rows) /\ view.step \in 0..3
      /\ view.parsing \in SUBSET Register!Parse /\ view.mode \in Register!Modes
      /\ view.loaded \in BOOLEAN /\ view.stage \in {"idle", "sent", "done"}
      /\ view.sent \in SUBSET Register!Row /\ view.sentMode \in Register!Modes
  BY RegisterTypes
<1>z. 0 \in 0..3 /\ 1 \in 0..3 /\ 3 \in 0..3 /\ "prefilled" \in Register!Modes
  BY DEF Register!Modes
<1>1. CASE Register!EmployeesLoad
  <2>. DEFINE v == [view EXCEPT !.loaded = TRUE]
  <2>1. v \in Register!View /\ v.rows = view.rows /\ v.sent = view.sent
    BY <1>t DEF Register!View
  <2>2. view' = v /\ server' = server
    BY <1>1 DEF Register!EmployeesLoad
  <2>. HIDE DEF v
  <2>. QED
    BY <1>t, <2>1, <2>2, RegisterViewStep
<1>2. CASE Register!ChooseMode
  <2>1. PICK m \in Register!Modes : view' = [view EXCEPT !.mode = m]
    BY <1>2 DEF Register!ChooseMode
  <2>. DEFINE v == [view EXCEPT !.mode = m]
  <2>2. v \in Register!View /\ v.rows = view.rows /\ v.sent = view.sent
    BY <1>t DEF Register!View
  <2>3. view' = v /\ server' = server
    BY <1>2, <2>1 DEF Register!ChooseMode
  <2>. HIDE DEF v
  <2>. QED
    BY <1>t, <2>2, <2>3, RegisterViewStep
<1>3. CASE Register!Move
  <2>1. PICK n \in 0..3 : /\ server' = server
                          /\ \/ view' = [view EXCEPT !.step = n]
                             \/ view' = [view EXCEPT !.step = n, !.rows = {}]
    <3>1. ASSUME view.step \in {1, 2} PROVE view.step - 1 \in 0..3
      BY <3>1
    <3>. QED
      BY <1>3, <1>z, <3>1 DEF Register!Move
  <2>. DEFINE v == [view EXCEPT !.step = n]
              w == [view EXCEPT !.step = n, !.rows = {}]
  <2>2. /\ v \in Register!View /\ v.rows = view.rows /\ v.sent = view.sent
        /\ w \in Register!View /\ w.rows = {} /\ w.sent = view.sent
    BY <1>t DEF Register!View
  <2>3. (view' = v \/ view' = w) /\ server' = server
    BY <2>1
  <2>. HIDE DEF v, w
  <2>. QED
    BY <1>t, <2>2, <2>3, NoRows, RegisterViewStep
<1>4. CASE Register!Close
  <2>. DEFINE v == [Register!Idle EXCEPT !.loaded = view.loaded, !.stage = view.stage,
                            !.sent = view.sent, !.sentMode = view.sentMode]
  <2>1. v \in Register!View /\ v.rows = {} /\ v.sent = view.sent
    BY <1>t, <1>z DEF Register!View, Register!Idle
  <2>2. view' = v /\ server' = server
    BY <1>4 DEF Register!Close
  <2>. HIDE DEF v
  <2>. QED
    BY <2>1, <2>2, NoRows, RegisterViewStep
<1>5. CASE Register!Answer
  <2>. DEFINE v == Register!Settled(view)
              n == IF view.open THEN 3 ELSE v.step
              w == [v EXCEPT !.step = n]
  <2>1. v \in Register!View /\ v.rows = view.rows /\ v.sent = {} /\ v.step = view.step
    BY <1>t, <1>z DEF Register!View, Register!Settled
  <2>2. (view' = v \/ view' = w) /\ server' = server
    BY <1>5 DEF Register!Answer
  <2>. HIDE DEF v
  <2>3. n \in 0..3
    BY <1>t, <1>z, <2>1
  <2>. HIDE DEF n
  <2>4. w \in Register!View /\ w.rows = view.rows /\ w.sent = {}
    BY <2>1, <2>3 DEF Register!View
  <2>. HIDE DEF w
  <2>. QED
    BY <1>t, <2>1, <2>2, <2>4, RegisterViewStep
<1>6. ASSUME NEW f \in RegisterFiles, Register!PickFile(f) PROVE RegisterInv'
  <2>. DEFINE p == [file |-> f, mode |-> view.mode, loaded |-> view.loaded]
              v == [view EXCEPT !.rows = {}, !.parsing = view.parsing \cup {p}]
  <2>1. p \in Register!Parse
    BY <1>t DEF Register!Parse
  <2>2. view' = v /\ server' = server
    BY <1>6 DEF Register!PickFile
  <2>. HIDE DEF p
  <2>3. v \in Register!View /\ v.rows = {} /\ v.sent = view.sent
    BY <1>t, <2>1 DEF Register!View
  <2>. HIDE DEF v
  <2>. QED
    BY <2>2, <2>3, NoRows, RegisterViewStep
<1>. QED
  BY <1>1, <1>2, <1>3, <1>4, <1>5, <1>6

\* The rows of a sheet: as many as its lines, each for nobody or an exact match.
LEMMA ParsedRowsInv ==
  ASSUME NEW p \in Register!Parse
  PROVE  Register!ParsedRows(p) \in SUBSET Register!Row /\ RowsInv(Register!ParsedRows(p))
<1>. DEFINE lines == Registers[p.file]
            rows == Register!ParsedRows(p)
            f == [l \in lines |-> Register!Match(l, p)]
<1>1. /\ lines \in SUBSET Register!Line /\ IsFiniteSet(lines)
      /\ p.mode \in Register!Modes /\ p.loaded \in BOOLEAN
  BY RegisterAssumption DEF Register!Parse
<1>2. rows = {f[l] : l \in lines}
  BY DEF Register!ParsedRows
<1>3. \A l \in lines : /\ f[l] \in Register!Row
                       /\ f[l].employee # Missing => f[l].match = "exact"
  BY <1>1 DEF Register!Match, Register!Row, Register!Line
<1>. HIDE DEF lines, rows
<1>4. f \in Surjection(lines, rows)
  BY <1>2 DEF Surjection
<1>5. IsFiniteSet(rows)
  BY <1>1, <1>4, FS_Surjection
<1>. HIDE DEF f
<1>6. rows \in SUBSET Register!Row /\ RowsInv(rows)
  BY <1>2, <1>3, <1>5 DEF RowsInv
<1>. QED
  BY <1>6 DEF rows

LEMMA FileParsedInv ==
  ASSUME RegisterInv, NEW p \in view.parsing, Register!FileParsed(p) PROVE RegisterInv'
<1>t. /\ view \in Register!View /\ RowsInv(view.rows) /\ p \in Register!Parse
      /\ view.parsing \in SUBSET Register!Parse
  BY RegisterTypes
<1>. DEFINE rows == Register!ParsedRows(p)
            parsing == view.parsing \ {p}
            v == [view EXCEPT !.parsing = parsing]
            w == [v EXCEPT !.rows = rows, !.step = 2]
<1>1. (view' = v \/ view' = w) /\ server' = server
  BY DEF Register!FileParsed
<1>2. rows \in SUBSET Register!Row /\ RowsInv(rows) /\ 2 \in 0..3
  BY <1>t, ParsedRowsInv
<1>3. parsing \in SUBSET Register!Parse
  BY <1>t
<1>. HIDE DEF rows, parsing
<1>4. v \in Register!View /\ v.rows = view.rows /\ v.sent = view.sent
  BY <1>t, <1>3 DEF Register!View
<1>. HIDE DEF v
<1>5. w \in Register!View /\ w.rows = rows /\ w.sent = view.sent
  BY <1>2, <1>4 DEF Register!View
<1>. HIDE DEF w
<1>. QED
  BY <1>t, <1>1, <1>2, <1>4, <1>5, RegisterViewStep

LEMMA SetRowInv ==
  ASSUME RegisterInv, NEW r \in view.rows, NEW p \in People \cup {Missing},
         Register!SetRowEmployee(r, p)
  PROVE  RegisterInv'
<1>t. /\ view \in Register!View /\ RowsInv(view.rows) /\ r \in Register!Row
      /\ view.rows \in SUBSET Register!Row
  BY RegisterTypes
<1>. DEFINE b == p # Missing
            q == [r EXCEPT !.employee = p, !.picked = b]
            rows == (view.rows \ {r}) \cup {q}
            v == [view EXCEPT !.rows = rows]
<1>1. view' = v /\ server' = server
  BY DEF Register!SetRowEmployee
<1>2. q \in Register!Row /\ (q.employee # Missing => q.picked)
  BY <1>t DEF Register!Row
<1>. HIDE DEF q
<1>3. IsFiniteSet(view.rows \ {r})
  BY <1>t, FS_RemoveElement DEF RowsInv
<1>4. IsFiniteSet(rows)
  BY <1>3, FS_AddElement
<1>5. rows \in SUBSET Register!Row /\ RowsInv(rows)
  BY <1>t, <1>2, <1>4 DEF RowsInv
<1>. HIDE DEF rows
<1>6. v \in Register!View /\ v.rows = rows /\ v.sent = view.sent
  BY <1>t, <1>5 DEF Register!View
<1>. HIDE DEF v
<1>. QED
  BY <1>1, <1>5, <1>6, RegisterViewStep

\* The rows checked are each for an employee no other row is for.
LEMMA SendRowsInv == ASSUME RegisterInv, Register!Import PROVE RegisterInv'
<1>t. /\ view \in Register!View /\ RowsInv(view.rows) /\ view.mode \in Register!Modes
      /\ view.rows \in SUBSET Register!Row
  BY RegisterTypes
<1>. DEFINE rows == Register!ValidRows
            v == [view EXCEPT !.stage = "sent", !.open = TRUE, !.sent = rows,
                              !.sentMode = view.mode]
<1>1. view' = v /\ server' = server
  BY DEF Register!Import
<1>2. rows \in SUBSET view.rows
  BY DEF Register!ValidRows
<1>3. ASSUME NEW r \in rows
      PROVE  /\ r.match = "exact" \/ r.picked
             /\ r.employee # Missing
             /\ \A q \in rows : q.employee = r.employee => q = r
  <2>. DEFINE same == {q \in view.rows : q.employee = r.employee}
  <2>1. r.employee # Missing /\ Cardinality(same) = 1
    BY <1>3, RegisterCount DEF Register!ValidRows, Register!Valid
  <2>2. IsFiniteSet(same)
    BY <1>t, FS_Subset DEF RowsInv
  <2>3. r \in same /\ \A q \in rows : q.employee = r.employee => q \in same
    BY <1>2, <1>3
  <2>. HIDE DEF same
  <2>4. PICK x : same = {x}
    BY <2>1, <2>2, FS_Singleton
  <2>5. r.match = "exact" \/ r.picked
    BY <1>2, <1>3, <1>t, <2>1 DEF RowsInv
  <2>. QED
    BY <2>1, <2>3, <2>4, <2>5
<1>. HIDE DEF rows
<1>4. v \in Register!View /\ v.rows = view.rows /\ v.sent = rows
  BY <1>t, <1>2 DEF Register!View
<1>. HIDE DEF v
<1>5. Register!EachRowIsSomeone'
  BY <1>1, <1>3, <1>4 DEF Register!EachRowIsSomeone
<1>6. Register!TypeOK'
  BY <1>1, <1>4 DEF RegisterInv, Register!TypeOK
<1>. QED
  BY <1>1, <1>4, <1>5, <1>6, <1>t DEF RegisterInv

LEMMA HandleRowsInv == ASSUME RegisterInv, Register!Handle PROVE RegisterInv'
<1>t. view \in Register!View /\ RowsInv(view.rows)
  BY RegisterTypes
<1>. DEFINE v == [view EXCEPT !.stage = "done"]
<1>1. view' = v /\ server' = Register!Results(view.sent, view.sentMode)
  BY DEF Register!Handle
<1>2. v \in Register!View /\ v.rows = view.rows /\ v.sent = view.sent
  BY <1>t DEF Register!View
<1>. HIDE DEF v
<1>3. Register!Results(view.sent, view.sentMode) \in [People -> {"none", "sheet", "system"}]
  BY DEF RegisterInv, Register!TypeOK, Register!Results
<1>. QED
  BY <1>1, <1>2, <1>3, <1>t DEF RegisterInv, Register!TypeOK, Register!EachRowIsSomeone

LEMMA RegisterStep ==
  ASSUME RegisterInv, [Register!Next]_(Register!vars) PROVE RegisterInv'
<1>1. CASE UNCHANGED Register!vars
  BY <1>1 DEF Register!vars, RegisterInv, Register!TypeOK, RowsInv, Register!EachRowIsSomeone
<1>. QED
  BY <1>1, ModalInv, FileParsedInv, SetRowInv, SendRowsInv, HandleRowsInv
  DEF Register!Next

-----------------------------------------------------------------------------
(* EmployeeDocuments.  A stored version has a place of its own among those  *)
(* of its slot, and the ones it will retire are in that slot.               *)

Versions == UNION {[1..n -> Documents!Doc] : n \in 0..MaxDocs}

CurrentIn(s, slot) == {d \in DOMAIN s : s[d].life = "current" /\ s[d].slot = slot}

\* One version a slot, and another one for each that was replaced.
VersionInv(s) ==
    /\ \A slot \in Slots : Cardinality(CurrentIn(s, slot)) <= 1
    /\ \A d \in DOMAIN s : s[d].life = "replaced" =>
         \E e \in DOMAIN s : e # d /\ s[e].slot = s[d].slot /\ s[e].life # "stored"

\* An upload whose bytes are stored has a version of its own, in the slot of those
\* it is going to retire.
CallInv(c, s) ==
    c.kind = "upload" =>
        /\ c.slot \in Slots
        /\ c.stage = "stored" =>
             /\ c.doc \in DOMAIN s /\ s[c.doc].slot = c.slot
             /\ c.over \subseteq DOMAIN s /\ c.doc \notin c.over
             /\ \A o \in c.over : s[o].slot = c.slot

DocumentsInv ==
    /\ view \in Documents!View /\ server \in Versions
    /\ VersionInv(server)
    /\ \A c \in view.calls : CallInv(c, server)

\* Versions are added and never change their slot, nor lose their row.
Grows(s, t) ==
    /\ DOMAIN s \subseteq DOMAIN t
    /\ \A d \in DOMAIN s : /\ t[d].slot = s[d].slot
                           /\ s[d].life # "stored" => t[d].life # "stored"

\* The page counts as this module does.
LEMMA DocumentsCount == \A S : Documents!Cardinality(S) = Cardinality(S)
  BY DEF Documents!Cardinality, Cardinality

LEMMA DocumentsTypes ==
  ASSUME DocumentsInv
  PROVE  /\ Documents!TypeOK
         /\ view.calls \in SUBSET Documents!Call /\ view.list \in SUBSET Documents!Shown
         /\ \A d \in DOMAIN server : d \in Documents!Ids /\ server[d] \in Documents!Doc
<1>1. \E n \in 0..MaxDocs : server \in [1..n -> Documents!Doc]
  BY DEF DocumentsInv, Versions
<1>2. \A d \in DOMAIN server : d \in Documents!Ids
  BY <1>1, DocumentsAssumption DEF Documents!Ids
<1>. QED
  BY <1>1, <1>2 DEF DocumentsInv, Documents!TypeOK, Documents!View

LEMMA CurrentFinite ==
  ASSUME NEW s \in Versions, NEW slot
  PROVE  /\ IsFiniteSet(CurrentIn(s, slot)) /\ IsFiniteSet(DOMAIN s)
         /\ Cardinality(CurrentIn(s, slot)) \in Nat
         /\ Cardinality(DOMAIN s) \in Nat /\ DOMAIN s = 1..Cardinality(DOMAIN s)
<1>1. PICK n \in 0..MaxDocs : DOMAIN s = 1..n
  BY DEF Versions
<1>2. n \in Nat
  BY <1>1, DocumentsAssumption
<1>3. IsFiniteSet(DOMAIN s) /\ Cardinality(DOMAIN s) = n
  BY <1>1, <1>2, FS_Interval
<1>4. IsFiniteSet(CurrentIn(s, slot))
  BY <1>3, FS_Subset DEF CurrentIn
<1>. QED
  BY <1>1, <1>2, <1>3, <1>4, FS_CardinalityType

LEMMA CallsGrow ==
  ASSUME NEW s, NEW t, Grows(s, t), NEW c, CallInv(c, s) PROVE CallInv(c, t)
  BY DEF Grows, CallInv

LEMMA DocumentsViewStep ==
  ASSUME DocumentsInv, NEW v \in Documents!View, view' = v, server' = server,
         \A c \in v.calls : CallInv(c, server)
  PROVE  DocumentsInv'
  BY DEF DocumentsInv

LEMMA DocumentsInit == ASSUME Documents!Init PROVE DocumentsInv
<1>1. PICK w \in DocumentWays, slot \in Slots :
         view = [ways |-> w, list |-> {}, file |-> FALSE, slot |-> slot,
                 rejecting |-> Missing, opening |-> FALSE, preview |-> FALSE,
                 calls |-> {}]
  BY DEF Documents!Init
<1>2. view \in Documents!View /\ view.calls = {}
  BY <1>1 DEF Documents!View
<1>3. server \in [1..0 -> Documents!Doc] /\ DOMAIN server = {}
  BY DEF Documents!Init
<1>4. 0 \in 0..MaxDocs
  BY DocumentsAssumption
<1>5. server \in Versions
  BY <1>3, <1>4 DEF Versions
<1>6. \A sl \in Slots : CurrentIn(server, sl) = {}
  BY <1>3 DEF CurrentIn
<1>7. VersionInv(server)
  BY <1>3, <1>6, FS_EmptySet DEF VersionInv
<1>. QED
  BY <1>2, <1>5, <1>7 DEF DocumentsInv

\* What sends nothing leaves the calls alone.
LEMMA PanelDocsInv ==
  ASSUME DocumentsInv,
         \/ Documents!ReadList \/ Documents!ChooseUpload \/ Documents!Close
         \/ Documents!OpenPreview \/ Documents!PreviewArrives
         \/ \E r \in view.list : Documents!AskReject(r)
  PROVE  DocumentsInv'
<1>t. /\ view \in Documents!View /\ view.list \in SUBSET Documents!Shown
      /\ \A d \in DOMAIN server : d \in Documents!Ids /\ server[d] \in Documents!Doc
  BY DocumentsTypes DEF DocumentsInv
<1>0. ASSUME NEW v \in Documents!View, view' = v, server' = server, v.calls = view.calls
      PROVE  DocumentsInv'
  BY <1>0, DocumentsViewStep DEF DocumentsInv
<1>1. CASE Documents!ReadList
  <2>. DEFINE l == {[doc |-> d, slot |-> server[d].slot, status |-> server[d].status] :
                        d \in {d \in DOMAIN server : server[d].life = "current"}}
              v == [view EXCEPT !.list = l]
  <2>1. l \in SUBSET Documents!Shown
    BY <1>t DEF Documents!Shown, Documents!Doc
  <2>2. view' = v /\ server' = server
    BY <1>1 DEF Documents!ReadList
  <2>. HIDE DEF l
  <2>3. v \in Documents!View /\ v.calls = view.calls
    BY <1>t, <2>1 DEF Documents!View
  <2>. HIDE DEF v
  <2>. QED
    BY <1>0, <2>2, <2>3
<1>2. CASE Documents!ChooseUpload
  <2>1. ASSUME view' = [view EXCEPT !.file = TRUE] PROVE DocumentsInv'
    <3>. DEFINE v == [view EXCEPT !.file = TRUE]
    <3>1. v \in Documents!View /\ v.calls = view.calls
      BY <1>t DEF Documents!View
    <3>2. view' = v /\ server' = server
      BY <1>2, <2>1 DEF Documents!ChooseUpload
    <3>. HIDE DEF v
    <3>. QED
      BY <1>0, <3>1, <3>2
  <2>2. ASSUME NEW slot \in Slots, view' = [view EXCEPT !.slot = slot] PROVE DocumentsInv'
    <3>. DEFINE v == [view EXCEPT !.slot = slot]
    <3>1. v \in Documents!View /\ v.calls = view.calls
      BY <1>t DEF Documents!View
    <3>2. view' = v /\ server' = server
      BY <1>2, <2>2 DEF Documents!ChooseUpload
    <3>. HIDE DEF v
    <3>. QED
      BY <1>0, <3>1, <3>2
  <2>. QED
    BY <1>2, <2>1, <2>2 DEF Documents!ChooseUpload
<1>3. CASE Documents!Close
  <2>. DEFINE v == [view EXCEPT !.preview = FALSE, !.rejecting = Missing]
  <2>1. v \in Documents!View /\ v.calls = view.calls
    BY <1>t DEF Documents!View
  <2>2. view' = v /\ server' = server
    BY <1>3 DEF Documents!Close
  <2>. HIDE DEF v
  <2>. QED
    BY <1>0, <2>1, <2>2
<1>4. CASE Documents!OpenPreview
  <2>. DEFINE v == [view EXCEPT !.opening = TRUE]
  <2>1. v \in Documents!View /\ v.calls = view.calls
    BY <1>t DEF Documents!View
  <2>2. view' = v /\ server' = server
    BY <1>4 DEF Documents!OpenPreview
  <2>. HIDE DEF v
  <2>. QED
    BY <1>0, <2>1, <2>2
<1>5. CASE Documents!PreviewArrives
  <2>1. PICK more \in BOOLEAN, shown \in BOOLEAN :
          view' = [view EXCEPT !.opening = more, !.preview = @ \/ shown]
    BY <1>5 DEF Documents!PreviewArrives
  <2>. DEFINE b == view.preview \/ shown
              v == [view EXCEPT !.opening = more, !.preview = b]
  <2>2. b \in BOOLEAN
    OBVIOUS
  <2>3. view' = v /\ server' = server
    BY <1>5, <2>1 DEF Documents!PreviewArrives
  <2>. HIDE DEF b
  <2>4. v \in Documents!View /\ v.calls = view.calls
    BY <1>t, <2>2 DEF Documents!View
  <2>. HIDE DEF v
  <2>. QED
    BY <1>0, <2>3, <2>4
<1>6. ASSUME NEW r \in view.list, Documents!AskReject(r) PROVE DocumentsInv'
  <2>. DEFINE v == [view EXCEPT !.rejecting = r.doc]
  <2>1. r.doc \in Documents!Ids
    BY <1>t DEF Documents!Shown
  <2>2. v \in Documents!View /\ v.calls = view.calls
    BY <1>t, <2>1 DEF Documents!View
  <2>3. view' = v /\ server' = server
    BY <1>6 DEF Documents!AskReject
  <2>. HIDE DEF v
  <2>. QED
    BY <1>0, <2>2, <2>3
<1>. QED
  BY <1>1, <1>2, <1>3, <1>4, <1>5, <1>6

\* What is sent has stored nothing yet.
LEMMA SendsInv ==
  ASSUME DocumentsInv,
         \/ Documents!Upload \/ Documents!Reject \/ Documents!Others
         \/ \E r \in view.list : Documents!Verify(r) \/ Documents!Delete(r)
  PROVE  DocumentsInv'
<1>t. /\ view \in Documents!View /\ view.list \in SUBSET Documents!Shown
      /\ \A d \in DOMAIN server : d \in Documents!Ids
      /\ view.calls \in SUBSET Documents!Call
      /\ \A c \in view.calls : CallInv(c, server)
  BY DocumentsTypes DEF DocumentsInv
<1>0. ASSUME NEW c \in Documents!Call, CallInv(c, server),
             view' = Documents!Send(view, c), server' = server
      PROVE  DocumentsInv'
  <2>. DEFINE v == [view EXCEPT !.calls = view.calls \cup {c}]
  <2>1. v \in Documents!View /\ v.calls = view.calls \cup {c}
    BY <1>t DEF Documents!View
  <2>2. view' = v
    BY <1>0 DEF Documents!Send
  <2>. HIDE DEF v
  <2>3. \A d \in v.calls : CallInv(d, server)
    BY <1>t, <1>0, <2>1
  <2>. QED
    BY <1>0, <2>1, <2>2, <2>3, DocumentsViewStep
<1>u. ASSUME NEW mine \in BOOLEAN, NEW slot \in Slots,
             view' = Documents!Send(view, [Documents!Call0("upload", mine) EXCEPT !.slot = slot]),
             server' = server
      PROVE  DocumentsInv'
  <2>. DEFINE c == [Documents!Call0("upload", mine) EXCEPT !.slot = slot]
  <2>1. c \in Documents!Call /\ CallInv(c, server)
    BY DEF Documents!Call0, Documents!Call, CallInv
  <2>. HIDE DEF c
  <2>2. view' = Documents!Send(view, c)
    BY <1>u DEF c
  <2>. QED
    BY <1>0, <1>u, <2>1, <2>2
<1>r. ASSUME NEW mine \in BOOLEAN, NEW kind \in {"verify", "reject", "delete"},
             NEW d \in Documents!Ids, server' = server,
             view' = Documents!Send(view, [Documents!Call0(kind, mine) EXCEPT !.doc = d])
      PROVE  DocumentsInv'
  <2>. DEFINE c == [Documents!Call0(kind, mine) EXCEPT !.doc = d]
  <2>1. c \in Documents!Call /\ CallInv(c, server)
    BY DEF Documents!Call0, Documents!Call, CallInv
  <2>. HIDE DEF c
  <2>2. view' = Documents!Send(view, c)
    BY <1>r DEF c
  <2>. QED
    BY <1>0, <1>r, <2>1, <2>2
<1>1. CASE Documents!Upload
  BY <1>1, <1>u, <1>t DEF Documents!Upload, Documents!View
<1>2. CASE Documents!Reject
  <2>1. view.rejecting \in Documents!Ids
    BY <1>2, <1>t DEF Documents!Reject, Documents!View
  <2>. QED
    BY <1>2, <1>r, <2>1 DEF Documents!Reject
<1>3. CASE Documents!Others
  BY <1>3, <1>u, <1>r, <1>t DEF Documents!Others
<1>4. ASSUME NEW r \in view.list, Documents!Verify(r) \/ Documents!Delete(r)
      PROVE  DocumentsInv'
  <2>1. r.doc \in Documents!Ids
    BY <1>t DEF Documents!Shown
  <2>. QED
    BY <1>4, <1>r, <2>1 DEF Documents!Verify, Documents!Delete
<1>. QED
  BY <1>1, <1>2, <1>3, <1>4

\* What a call leaves of the calls.
LEMMA CallStep ==
  ASSUME DocumentsInv, NEW c \in view.calls, NEW d \in Documents!Call,
         view' = Documents!Step(c, d), NEW t \in Versions, server' = t,
         Grows(server, t), VersionInv(t), CallInv(d, t)
  PROVE  DocumentsInv'
<1>t. view \in Documents!View /\ view.calls \in SUBSET Documents!Call
  BY DocumentsTypes DEF DocumentsInv
<1>. DEFINE calls == (view.calls \ {c}) \cup {d}
            v == [view EXCEPT !.calls = calls]
<1>1. view' = v
  BY DEF Documents!Step
<1>2. calls \in SUBSET Documents!Call /\ \A e \in calls : CallInv(e, t)
  BY <1>t, CallsGrow DEF DocumentsInv
<1>. HIDE DEF calls
<1>3. v \in Documents!View /\ v.calls = calls
  BY <1>t, <1>2 DEF Documents!View
<1>. HIDE DEF v
<1>. QED
  BY <1>1, <1>2, <1>3 DEF DocumentsInv

\* Bytes without a row count for nothing yet.
LEMMA StoreInv ==
  ASSUME DocumentsInv, NEW c \in view.calls, Documents!Store(c) PROVE DocumentsInv'
<1>t. /\ view.calls \in SUBSET Documents!Call /\ server \in Versions
      /\ VersionInv(server) /\ CallInv(c, server)
      /\ \A d \in DOMAIN server : d \in Documents!Ids /\ server[d] \in Documents!Doc
  BY DocumentsTypes DEF DocumentsInv
<1>. DEFINE k == Cardinality(DOMAIN server)
            n == k + 1
            f == [slot |-> c.slot, status |-> "PENDING", life |-> "stored"]
            t == [d \in 1..n |-> IF d = n THEN f ELSE server[d]]
            over == Documents!Current(c.slot)
            e == [c EXCEPT !.stage = "stored", !.doc = n, !.over = over]
<1>0. k < MaxDocs /\ c.kind = "upload"
  BY DocumentsCount DEF Documents!Store
<1>s. server' = t
  BY DocumentsCount DEF Documents!Store
<1>v. view' = Documents!Step(c, e)
  BY DocumentsCount DEF Documents!Store
<1>1. server' = t /\ view' = Documents!Step(c, e) /\ k < MaxDocs /\ c.kind = "upload"
  BY <1>0, <1>s, <1>v
<1>2. k \in Nat /\ DOMAIN server = 1..k
  BY <1>t, CurrentFinite
<1>3. f \in Documents!Doc /\ f.life = "stored" /\ f.slot = c.slot /\ c.slot \in Slots
  <2>1. c.slot \in Slots
    BY <1>0, <1>t DEF CallInv
  <2>. QED
    BY <2>1 DEF Documents!Doc, Documents!Status
<1>4. over \in SUBSET (1..k) /\ \A o \in over : server[o].slot = c.slot
  BY <1>2 DEF Documents!Current
<1>. HIDE DEF f, k, over
<1>5. /\ n \in 0..MaxDocs /\ n \in 1..n /\ n \notin 1..k /\ n \in 1..MaxDocs
      /\ \A d \in 1..n : d = n \/ d \in 1..k
      /\ 1..k \subseteq 1..n /\ 1..k \subseteq 1..MaxDocs
  BY <1>1, <1>2, DocumentsAssumption
<1>. HIDE DEF n
<1>6. t \in [1..n -> Documents!Doc] /\ DOMAIN t = 1..n
  BY <1>2, <1>3, <1>5, <1>t
<1>7. t[n] = f /\ \A d \in 1..k : t[d] = server[d]
  BY <1>5
<1>. HIDE DEF t
<1>8. t \in Versions
  BY <1>5, <1>6 DEF Versions
<1>9. Grows(server, t)
  BY <1>2, <1>5, <1>6, <1>7 DEF Grows
<1>10. VersionInv(t)
  <2>1. \A slot \in Slots : CurrentIn(t, slot) = CurrentIn(server, slot)
    BY <1>2, <1>3, <1>5, <1>6, <1>7 DEF CurrentIn
  <2>2. ASSUME NEW d \in DOMAIN t, t[d].life = "replaced"
        PROVE  \E g \in DOMAIN t : g # d /\ t[g].slot = t[d].slot /\ t[g].life # "stored"
    <3>1. d \in 1..k
      BY <1>3, <1>5, <1>6, <1>7, <2>2
    <3>. QED
      BY <1>2, <1>5, <1>6, <1>7, <1>t, <2>2, <3>1 DEF VersionInv
  <2>. QED
    BY <1>t, <2>1, <2>2 DEF VersionInv
<1>11. e \in Documents!Call /\ e.kind = "upload" /\ e.slot = c.slot /\ e.doc = n /\ e.over = over
  BY <1>1, <1>t, <1>4, <1>5 DEF Documents!Call, Documents!Ids
<1>. HIDE DEF e
<1>12. CallInv(e, t)
  BY <1>3, <1>4, <1>5, <1>6, <1>7, <1>11 DEF CallInv
<1>. QED
  BY <1>1, <1>8, <1>9, <1>10, <1>11, <1>12, CallStep

\* The unique index answers for the slot, and no other gets a version; the one
\* inserted stands for those it retires.
LEMMA CommitInv ==
  ASSUME DocumentsInv, NEW c \in view.calls, Documents!Commit(c) PROVE DocumentsInv'
<1>t. /\ view.calls \in SUBSET Documents!Call /\ server \in Versions
      /\ VersionInv(server) /\ CallInv(c, server)
      /\ \A d \in DOMAIN server : d \in Documents!Ids /\ server[d] \in Documents!Doc
  BY DocumentsTypes DEF DocumentsInv
<1>. DEFINE t == Documents!Inserted(c)
            e == [c EXCEPT !.stage = "done", !.over = {}]
<1>1. /\ server' = t /\ view' = Documents!Step(c, e)
      /\ c.kind = "upload" /\ c.stage = "stored" /\ Documents!Unique(t, c.slot)
  BY DEF Documents!Commit
<1>2. /\ c.slot \in Slots /\ c.doc \in DOMAIN server /\ server[c.doc].slot = c.slot
      /\ c.over \subseteq DOMAIN server /\ c.doc \notin c.over
      /\ \A o \in c.over : server[o].slot = c.slot
  BY <1>1, <1>t DEF CallInv
<1>3. DOMAIN t = DOMAIN server
  BY DEF Documents!Inserted, Documents!Retire
<1>4. /\ \A d \in (DOMAIN server) \ {c.doc} :
           t[d] = IF d \in c.over THEN [server[d] EXCEPT !.life = "replaced"] ELSE server[d]
      /\ t[c.doc] = [server[c.doc] EXCEPT !.life = "current"]
  BY <1>2 DEF Documents!Inserted, Documents!Retire
<1>. HIDE DEF t
<1>u. Cardinality(CurrentIn(t, c.slot)) <= 1
  BY <1>1, DocumentsCount DEF Documents!Unique, CurrentIn
<1>l. \A x \in Documents!Doc, l \in {"current", "replaced"} :
        /\ [x EXCEPT !.life = l] \in Documents!Doc
        /\ [x EXCEPT !.life = l].slot = x.slot /\ [x EXCEPT !.life = l].life = l
  BY DEF Documents!Doc
<1>5. \A d \in DOMAIN server :
        /\ t[d] \in Documents!Doc /\ t[d].slot = server[d].slot
        /\ d \in c.over => t[d].life = "replaced"
        /\ d \notin c.over /\ d # c.doc => t[d].life = server[d].life
        /\ d = c.doc => t[d].life = "current"
  <2>. SUFFICES ASSUME NEW d \in DOMAIN server
                PROVE  /\ t[d] \in Documents!Doc /\ t[d].slot = server[d].slot
                       /\ d \in c.over => t[d].life = "replaced"
                       /\ d \notin c.over /\ d # c.doc => t[d].life = server[d].life
                       /\ d = c.doc => t[d].life = "current"
    OBVIOUS
  <2>1. server[d] \in Documents!Doc
    BY <1>t
  <2>2. CASE d = c.doc
    BY <1>2, <1>4, <1>l, <2>1, <2>2
  <2>3. CASE d # c.doc /\ d \in c.over
    <3>1. t[d] = [server[d] EXCEPT !.life = "replaced"]
      BY <1>4, <2>3
    <3>2. t[d] \in Documents!Doc /\ t[d].slot = server[d].slot /\ t[d].life = "replaced"
      BY <1>l, <2>1, <3>1
    <3>. QED
      BY <2>3, <3>2
  <2>4. CASE d # c.doc /\ d \notin c.over
    BY <1>4, <2>1, <2>4
  <2>. QED
    BY <2>2, <2>3, <2>4
<1>6. t \in Versions
  <2>1. PICK n \in 0..MaxDocs : server \in [1..n -> Documents!Doc]
    BY <1>t DEF Versions
  <2>2. t = [d \in DOMAIN t |-> t[d]]
    BY <1>1 DEF Documents!Inserted, Documents!Retire, t
  <2>3. t \in [1..n -> Documents!Doc]
    BY <1>3, <1>5, <2>1, <2>2
  <2>. QED
    BY <2>3 DEF Versions
<1>7. Grows(server, t)
  BY <1>3, <1>5 DEF Grows
<1>8. VersionInv(t)
  <2>1. ASSUME NEW slot \in Slots PROVE Cardinality(CurrentIn(t, slot)) <= 1
    <3>1. CASE slot = c.slot
      BY <1>u, <3>1
    <3>2. CASE slot # c.slot
      <4>1. CurrentIn(t, slot) \subseteq CurrentIn(server, slot)
        BY <1>2, <1>3, <1>5, <3>2 DEF CurrentIn
      <4>2. Cardinality(CurrentIn(t, slot)) <= Cardinality(CurrentIn(server, slot))
        BY <1>t, <4>1, CurrentFinite, FS_Subset
      <4>3. Cardinality(CurrentIn(t, slot)) \in Nat /\ Cardinality(CurrentIn(server, slot)) \in Nat
        BY <1>t, <1>6, CurrentFinite
      <4>4. Cardinality(CurrentIn(server, slot)) <= 1
        BY <1>t DEF VersionInv
      <4>. QED
        BY <4>2, <4>3, <4>4
    <3>. QED
      BY <3>1, <3>2
  <2>2. ASSUME NEW d \in DOMAIN t, t[d].life = "replaced"
        PROVE  \E g \in DOMAIN t : g # d /\ t[g].slot = t[d].slot /\ t[g].life # "stored"
    <3>1. CASE d \in c.over
      BY <1>2, <1>3, <1>5, <3>1
    <3>2. CASE d \notin c.over
      <4>1. d # c.doc /\ server[d].life = "replaced"
        BY <1>3, <1>5, <2>2, <3>2
      <4>2. PICK g \in DOMAIN server :
              g # d /\ server[g].slot = server[d].slot /\ server[g].life # "stored"
        BY <1>t, <1>3, <4>1 DEF VersionInv
      <4>3. t[g].life # "stored" /\ t[g].slot = t[d].slot
        BY <1>3, <1>5, <1>7, <4>2 DEF Grows
      <4>. QED
        BY <1>3, <4>2, <4>3
    <3>. QED
      BY <3>1, <3>2
  <2>. QED
    BY <2>1, <2>2 DEF VersionInv
<1>9. e \in Documents!Call /\ CallInv(e, t)
  BY <1>t, <1>1, <1>2 DEF Documents!Call, CallInv
<1>. QED
  BY <1>1, <1>6, <1>7, <1>8, <1>9, CallStep

\* A review leaves versions where they are; a deletion leaves fewer.
LEMMA ReviewInv ==
  ASSUME DocumentsInv, NEW c \in view.calls, Documents!Review(c) PROVE DocumentsInv'
<1>t. /\ view.calls \in SUBSET Documents!Call /\ server \in Versions
      /\ VersionInv(server) /\ CallInv(c, server)
      /\ \A d \in DOMAIN server : d \in Documents!Ids /\ server[d] \in Documents!Doc
  BY DocumentsTypes DEF DocumentsInv
<1>. DEFINE e == [c EXCEPT !.stage = "done"]
            x == CASE c.kind = "verify" -> [server[c.doc] EXCEPT !.status = "VERIFIED"]
                   [] c.kind = "reject" -> [server[c.doc] EXCEPT !.status = "REJECTED"]
                   [] c.kind = "delete" -> [server[c.doc] EXCEPT !.life = "removed"]
            t == [server EXCEPT ![c.doc] = x]
<1>1. view' = Documents!Step(c, e) /\ c.kind # "upload" /\ server[c.doc].life = "current"
  BY DEF Documents!Review
<1>k. c.kind \in {"verify", "reject", "delete"}
  BY <1>1, <1>t DEF Documents!Call
<1>2. server' = t
  BY <1>k DEF Documents!Review
<1>5. x \in {[server[c.doc] EXCEPT !.status = "VERIFIED"],
              [server[c.doc] EXCEPT !.status = "REJECTED"],
              [server[c.doc] EXCEPT !.life = "removed"]}
  BY <1>k
<1>. HIDE DEF x
<1>3. /\ DOMAIN t = DOMAIN server /\ t = [d \in DOMAIN t |-> t[d]]
      /\ \A d \in DOMAIN server : t[d] = IF d = c.doc THEN x ELSE server[d]
  OBVIOUS
<1>. HIDE DEF t
<1>l. \A y \in Documents!Doc :
        /\ [y EXCEPT !.status = "VERIFIED"] \in Documents!Doc
        /\ [y EXCEPT !.status = "REJECTED"] \in Documents!Doc
        /\ [y EXCEPT !.life = "removed"] \in Documents!Doc
        /\ [y EXCEPT !.status = "VERIFIED"].slot = y.slot
        /\ [y EXCEPT !.status = "REJECTED"].slot = y.slot
        /\ [y EXCEPT !.life = "removed"].slot = y.slot
        /\ [y EXCEPT !.status = "VERIFIED"].life = y.life
        /\ [y EXCEPT !.status = "REJECTED"].life = y.life
        /\ [y EXCEPT !.life = "removed"].life = "removed"
  BY DEF Documents!Doc, Documents!Status
<1>4. c.doc \in DOMAIN server =>
        /\ x \in Documents!Doc /\ x.slot = server[c.doc].slot
        /\ x.life \in {"current", "removed"}
  <2>. HAVE c.doc \in DOMAIN server
  <2>1. server[c.doc] \in Documents!Doc
    BY <1>t
  <2>2. CASE x = [server[c.doc] EXCEPT !.status = "VERIFIED"]
    BY <1>1, <1>l, <2>1, <2>2
  <2>3. CASE x = [server[c.doc] EXCEPT !.status = "REJECTED"]
    BY <1>1, <1>l, <2>1, <2>3
  <2>4. CASE x = [server[c.doc] EXCEPT !.life = "removed"]
    BY <1>l, <2>1, <2>4
  <2>. QED
    BY <1>5, <2>2, <2>3, <2>4
<1>6. \A d \in DOMAIN server :
        /\ t[d] \in Documents!Doc /\ t[d].slot = server[d].slot
        /\ t[d].life = "current" => server[d].life = "current"
        /\ t[d].life = "replaced" <=> server[d].life = "replaced"
        /\ t[d].life = "stored" <=> server[d].life = "stored"
  BY <1>1, <1>3, <1>4, <1>t
<1>7. t \in Versions
  <2>1. PICK n \in 0..MaxDocs : server \in [1..n -> Documents!Doc]
    BY <1>t DEF Versions
  <2>3. t \in [1..n -> Documents!Doc]
    BY <1>3, <1>6, <2>1
  <2>. QED
    BY <2>3 DEF Versions
<1>8. Grows(server, t)
  BY <1>3, <1>6 DEF Grows
<1>9. VersionInv(t)
  <2>1. ASSUME NEW slot \in Slots PROVE Cardinality(CurrentIn(t, slot)) <= 1
    <3>1. CurrentIn(t, slot) \subseteq CurrentIn(server, slot)
      BY <1>3, <1>6 DEF CurrentIn
    <3>2. Cardinality(CurrentIn(t, slot)) <= Cardinality(CurrentIn(server, slot))
      BY <1>t, <3>1, CurrentFinite, FS_Subset
    <3>3. Cardinality(CurrentIn(t, slot)) \in Nat /\ Cardinality(CurrentIn(server, slot)) \in Nat
      BY <1>t, <1>7, CurrentFinite
    <3>4. Cardinality(CurrentIn(server, slot)) <= 1
      BY <1>t DEF VersionInv
    <3>. QED
      BY <3>2, <3>3, <3>4
  <2>2. ASSUME NEW d \in DOMAIN t, t[d].life = "replaced"
        PROVE  \E g \in DOMAIN t : g # d /\ t[g].slot = t[d].slot /\ t[g].life # "stored"
    BY <1>3, <1>6, <1>t, <2>2 DEF VersionInv
  <2>. QED
    BY <2>1, <2>2 DEF VersionInv
<1>10. e \in Documents!Call /\ CallInv(e, t)
  BY <1>t, <1>1 DEF Documents!Call, CallInv
<1>. QED
  BY <1>1, <1>2, <1>7, <1>8, <1>9, <1>10, CallStep

LEMMA DocAnswerInv ==
  ASSUME DocumentsInv, NEW c \in view.calls, Documents!Answer(c) PROVE DocumentsInv'
<1>t. view \in Documents!View
  BY DEF DocumentsInv
<1>. DEFINE calls == view.calls \ {c}
            v == [view EXCEPT !.calls = calls]
            f == [v EXCEPT !.file = FALSE]
            r == [v EXCEPT !.rejecting = Missing]
<1>1. server' = server /\ (view' = v \/ view' = Documents!Succeed(v, c))
  BY DEF Documents!Answer
<1>2. calls \subseteq view.calls
  OBVIOUS
<1>3. Documents!Succeed(v, c) \in {v, f, r}
  BY DEF Documents!Succeed
<1>. HIDE DEF calls
<1>4. v \in Documents!View /\ v.calls = calls
  BY <1>t, <1>2 DEF Documents!View
<1>. HIDE DEF v
<1>5. f \in Documents!View /\ f.calls = calls /\ r \in Documents!View /\ r.calls = calls
  BY <1>4 DEF Documents!View
<1>. HIDE DEF f, r
<1>6. \A d \in calls : CallInv(d, server)
  BY <1>2 DEF DocumentsInv
<1>. QED
  BY <1>1, <1>3, <1>4, <1>5, <1>6, DocumentsViewStep

LEMMA DocumentsStep ==
  ASSUME DocumentsInv, [Documents!Next]_(Documents!vars) PROVE DocumentsInv'
<1>1. CASE UNCHANGED Documents!vars
  BY <1>1 DEF Documents!vars, DocumentsInv, VersionInv, CurrentIn, CallInv
<1>. QED
  BY <1>1, PanelDocsInv, SendsInv, StoreInv, CommitInv, ReviewInv, DocAnswerInv
  DEF Documents!Next

LEMMA DocumentsKeep == ASSUME DocumentsInv PROVE Documents!VersionsReplaceEachOther
<1>1. \A slot \in Slots : Documents!Current(slot) = CurrentIn(server, slot)
  BY DEF Documents!Current, CurrentIn
<1>. QED
  BY <1>1, DocumentsCount DEF DocumentsInv, VersionInv, Documents!VersionsReplaceEachOther

-----------------------------------------------------------------------------
(* ClientDocuments.  Between its two calls an upload has a file that no     *)
(* document has yet.                                                        *)

Uploads == [at : {"idle", "store", "stored", "record", "recorded"},
            category : Categories \cup {Missing}, file : (1..MaxFiles) \cup {Missing}]
PapersServer == [files : 0..MaxFiles, records : SUBSET Papers!Record]

\* A document on record has a file stored for it, and for it alone.
Filed(s) == \A r \in s.records : /\ r.file <= s.files
                                 /\ \A q \in s.records : q.file = r.file => q = r

\* An upload under way knows its category, and between its two calls has a file
\* that no document has.
UploadInv(u, s) ==
    /\ u.at # "idle" => u.category \in Categories
    /\ u.at \in {"stored", "record"} =>
         /\ u.file \in 1..MaxFiles /\ u.file <= s.files
         /\ \A r \in s.records : r.file # u.file

PapersInv ==
    /\ Papers!TypeOK
    /\ Filed(server)
    /\ UploadInv(view.upload, server)

LEMMA PapersTypes ==
  ASSUME PapersInv
  PROVE  /\ view \in Papers!View /\ server \in PapersServer /\ view.upload \in Uploads
         /\ view.review # Missing => view.review \in Papers!Decision
         /\ view.category \in Categories
  BY DEF PapersInv, Papers!TypeOK, Papers!View, PapersServer, Uploads

LEMMA PapersViewStep ==
  ASSUME PapersInv, NEW v \in Papers!View, view' = v, server' = server,
         UploadInv(v.upload, server)
  PROVE  PapersInv'
  BY DEF PapersInv, Papers!TypeOK

LEMMA PapersInit == ASSUME Papers!Init PROVE PapersInv
<1>1. PICK c \in Categories :
         view = [tab |-> "ALL", stale |-> FALSE, list |-> Missing,
                 form |-> FALSE, picked |-> FALSE, category |-> c,
                 upload |-> Papers!NoUpload, review |-> Missing]
  BY DEF Papers!Init
<1>2. Papers!NoUpload \in Uploads /\ Papers!NoUpload.at = "idle"
  BY DEF Papers!NoUpload, Uploads
<1>3. view \in Papers!View /\ view.upload = Papers!NoUpload
  <2>1. "ALL" \in Papers!Tabs /\ Missing \in (SUBSET Papers!Record) \cup {Missing}
    BY DEF Papers!Tabs
  <2>. QED
    BY <1>1, <1>2, <2>1 DEF Papers!View, Uploads
<1>4. server \in PapersServer /\ server.records = {}
  <2>1. 0 \in 0..MaxFiles
    BY DocumentsAssumption
  <2>. QED
    BY <2>1 DEF Papers!Init, PapersServer
<1>. QED
  BY <1>2, <1>3, <1>4 DEF PapersInv, Papers!TypeOK, PapersServer, Filed, UploadInv

\* The panel: what is not an upload.
LEMMA PanelInv ==
  ASSUME PapersInv,
         \/ Papers!ChooseTab \/ Papers!ReadList \/ Papers!FillForm \/ Papers!Verified
         \/ \E r \in view.list : view.list # Missing /\ Papers!Decide(r)
  PROVE  PapersInv'
<1>t. view \in Papers!View /\ server \in PapersServer /\ UploadInv(view.upload, server)
  BY PapersTypes DEF PapersInv
<1>0. ASSUME NEW v \in Papers!View, view' = v, server' = server, v.upload = view.upload
      PROVE  PapersInv'
  BY <1>t, <1>0, PapersViewStep
<1>1. CASE Papers!ChooseTab
  <2>1. PICK t \in Papers!Tabs, aged \in BOOLEAN :
          view' = [view EXCEPT !.tab = t, !.stale = @ \/ aged]
    BY <1>1 DEF Papers!ChooseTab
  <2>. DEFINE b == view.stale \/ aged
              v == [view EXCEPT !.tab = t, !.stale = b]
  <2>2. b \in BOOLEAN
    OBVIOUS
  <2>3. view' = v /\ server' = server
    BY <1>1, <2>1 DEF Papers!ChooseTab
  <2>. HIDE DEF b
  <2>4. v \in Papers!View /\ v.upload = view.upload
    BY <1>t, <2>2 DEF Papers!View
  <2>. HIDE DEF v
  <2>. QED
    BY <1>0, <2>3, <2>4
<1>2. CASE Papers!ReadList
  <2>. DEFINE l == {r \in server.records : view.tab \in {"ALL", r.category}}
              v == [view EXCEPT !.stale = FALSE, !.list = l]
  <2>1. l \in SUBSET Papers!Record
    BY <1>t DEF PapersServer
  <2>2. view' = v /\ server' = server
    BY <1>2 DEF Papers!ReadList
  <2>. HIDE DEF l
  <2>3. v \in Papers!View /\ v.upload = view.upload
    BY <1>t, <2>1 DEF Papers!View
  <2>. HIDE DEF v
  <2>. QED
    BY <1>0, <2>2, <2>3
<1>3. CASE Papers!FillForm
  <2>1. ASSUME NEW b \in BOOLEAN, view' = [view EXCEPT !.form = b] PROVE PapersInv'
    <3>. DEFINE v == [view EXCEPT !.form = b]
    <3>1. v \in Papers!View /\ v.upload = view.upload
      BY <1>t DEF Papers!View
    <3>2. view' = v /\ server' = server
      BY <1>3, <2>1 DEF Papers!FillForm
    <3>. HIDE DEF v
    <3>. QED
      BY <1>0, <3>1, <3>2
  <2>2. ASSUME view' = [view EXCEPT !.picked = TRUE] PROVE PapersInv'
    <3>. DEFINE v == [view EXCEPT !.picked = TRUE]
    <3>1. v \in Papers!View /\ v.upload = view.upload
      BY <1>t DEF Papers!View
    <3>2. view' = v /\ server' = server
      BY <1>3, <2>2 DEF Papers!FillForm
    <3>. HIDE DEF v
    <3>. QED
      BY <1>0, <3>1, <3>2
  <2>3. ASSUME NEW c \in Categories, view' = [view EXCEPT !.category = c] PROVE PapersInv'
    <3>. DEFINE v == [view EXCEPT !.category = c]
    <3>1. v \in Papers!View /\ v.upload = view.upload
      BY <1>t DEF Papers!View
    <3>2. view' = v /\ server' = server
      BY <1>3, <2>3 DEF Papers!FillForm
    <3>. HIDE DEF v
    <3>. QED
      BY <1>0, <3>1, <3>2
  <2>. QED
    BY <1>3, <2>1, <2>2, <2>3 DEF Papers!FillForm
<1>4. CASE Papers!Verified
  <2>. DEFINE v == [view EXCEPT !.review = Missing, !.stale = TRUE]
  <2>1. v \in Papers!View /\ v.upload = view.upload
    BY <1>t DEF Papers!View
  <2>2. view' = v /\ server' = server
    BY <1>4 DEF Papers!Verified
  <2>. HIDE DEF v
  <2>. QED
    BY <1>0, <2>1, <2>2
<1>5. ASSUME NEW r \in view.list, view.list # Missing, Papers!Decide(r) PROVE PapersInv'
  <2>1. PICK d \in {"APPROVED", "REJECTED"} :
          view' = [view EXCEPT !.review = [file |-> r.file, status |-> d, done |-> FALSE]]
    BY <1>5 DEF Papers!Decide
  <2>. DEFINE n == [file |-> r.file, status |-> d, done |-> FALSE]
              v == [view EXCEPT !.review = n]
  <2>2. r \in Papers!Record
    <3>1. view.list \in (SUBSET Papers!Record) \cup {Missing}
      BY <1>t DEF Papers!View
    <3>2. view.list \in SUBSET Papers!Record
      BY <1>5, <3>1
    <3>. QED
      BY <1>5, <3>2
  <2>3. n \in Papers!Decision
    BY <2>2 DEF Papers!Record, Papers!Decision
  <2>4. view' = v /\ server' = server
    BY <1>5, <2>1 DEF Papers!Decide
  <2>. HIDE DEF n
  <2>5. v \in Papers!View /\ v.upload = view.upload
    BY <1>t, <2>3 DEF Papers!View
  <2>. HIDE DEF v
  <2>. QED
    BY <1>0, <2>4, <2>5
<1>. QED
  BY <1>1, <1>2, <1>3, <1>4, <1>5

\* An upload starts, goes on to its record, and ends one way or another.
LEMMA UploadsInv ==
  ASSUME PapersInv,
         Papers!Upload \/ Papers!SendRecord \/ Papers!Uploaded \/ Papers!Fails
  PROVE  PapersInv'
<1>t. /\ view \in Papers!View /\ view.upload \in Uploads
      /\ view.category \in Categories /\ UploadInv(view.upload, server)
  BY PapersTypes DEF PapersInv
<1>n. Papers!NoUpload \in Uploads /\ UploadInv(Papers!NoUpload, server)
  BY DEF Papers!NoUpload, Uploads, UploadInv
<1>1. CASE Papers!Upload
  <2>. DEFINE u == [view.upload EXCEPT !.at = "store", !.category = view.category]
              v == [view EXCEPT !.upload = u]
  <2>1. view' = v /\ server' = server
    BY <1>1 DEF Papers!Upload
  <2>2. u \in Uploads /\ UploadInv(u, server)
    BY <1>t DEF Uploads, UploadInv
  <2>. HIDE DEF u
  <2>3. v \in Papers!View /\ v.upload = u
    BY <1>t, <2>2 DEF Papers!View, Uploads
  <2>. HIDE DEF v
  <2>. QED
    BY <2>1, <2>2, <2>3, PapersViewStep
<1>2. CASE Papers!SendRecord
  <2>. DEFINE u == [view.upload EXCEPT !.at = "record"]
              v == [view EXCEPT !.upload = u]
  <2>1. view' = v /\ server' = server /\ view.upload.at = "stored"
    BY <1>2 DEF Papers!SendRecord
  <2>2. u \in Uploads /\ UploadInv(u, server)
    BY <1>t, <2>1 DEF Uploads, UploadInv
  <2>. HIDE DEF u
  <2>3. v \in Papers!View /\ v.upload = u
    BY <1>t, <2>2 DEF Papers!View, Uploads
  <2>. HIDE DEF v
  <2>. QED
    BY <2>1, <2>2, <2>3, PapersViewStep
<1>3. CASE Papers!Uploaded
  <2>. DEFINE v == [view EXCEPT !.upload = Papers!NoUpload, !.stale = TRUE,
                                !.form = FALSE, !.picked = FALSE]
  <2>1. view' = v /\ server' = server
    BY <1>3 DEF Papers!Uploaded
  <2>2. v \in Papers!View /\ v.upload = Papers!NoUpload
    BY <1>t, <1>n DEF Papers!View, Uploads
  <2>. HIDE DEF v
  <2>. QED
    BY <1>n, <2>1, <2>2, PapersViewStep
<1>4. CASE Papers!Fails
  <2>. DEFINE v == [view EXCEPT !.upload = Papers!NoUpload]
              w == [view EXCEPT !.review = Missing]
  <2>1. (view' = v \/ view' = w) /\ server' = server
    BY <1>4 DEF Papers!Fails
  <2>2. /\ v \in Papers!View /\ v.upload = Papers!NoUpload
        /\ w \in Papers!View /\ w.upload = view.upload
    BY <1>t, <1>n DEF Papers!View, Uploads
  <2>. HIDE DEF v, w
  <2>. QED
    BY <1>t, <1>n, <2>1, <2>2, PapersViewStep
<1>. QED
  BY <1>1, <1>2, <1>3, <1>4

\* The file stored is after those of every document.
LEMMA StoreFileInv == ASSUME PapersInv, Papers!StoreFile PROVE PapersInv'
<1>t. /\ view \in Papers!View /\ view.upload \in Uploads /\ server \in PapersServer
      /\ UploadInv(view.upload, server) /\ Filed(server)
  BY PapersTypes DEF PapersInv
<1>. DEFINE n == server.files + 1
            u == [view.upload EXCEPT !.at = "stored", !.file = n]
            v == [view EXCEPT !.upload = u]
            s == [server EXCEPT !.files = n]
<1>1. view' = v /\ server' = s /\ view.upload.at = "store"
  BY DEF Papers!StoreFile
<1>2. server.files \in 0..MaxFiles /\ server.files < MaxFiles
  BY <1>t DEF Papers!StoreFile, PapersServer
<1>3. n \in 1..MaxFiles /\ n \in 0..MaxFiles /\ n > server.files
  BY <1>2, DocumentsAssumption
<1>4. \A r \in server.records : r.file \in Nat /\ r.file <= server.files
  BY <1>t DEF Filed, PapersServer, Papers!Record
<1>5. \A r \in server.records : r.file # n /\ r.file <= n
  BY <1>2, <1>4
<1>. HIDE DEF n
<1>6. /\ u \in Uploads /\ u.at = "stored" /\ u.file = n
      /\ u.category = view.upload.category
  BY <1>t, <1>3 DEF Uploads
<1>7. s \in PapersServer /\ s.files = n /\ s.records = server.records
  BY <1>t, <1>3 DEF PapersServer
<1>. HIDE DEF u, s
<1>8. v \in Papers!View /\ v.upload = u
  BY <1>t, <1>6 DEF Papers!View, Uploads
<1>. HIDE DEF v
<1>9. Filed(s)
  BY <1>t, <1>5, <1>7 DEF Filed
<1>e. n <= n
  BY <1>3
<1>10. UploadInv(u, s)
  BY <1>t, <1>1, <1>3, <1>5, <1>6, <1>7, <1>e DEF UploadInv
<1>. QED
  BY <1>1, <1>7, <1>8, <1>9, <1>10 DEF PapersInv, Papers!TypeOK, PapersServer

LEMMA CreateRecordInv == ASSUME PapersInv, Papers!CreateRecord PROVE PapersInv'
<1>t. /\ view \in Papers!View /\ view.upload \in Uploads /\ server \in PapersServer
      /\ UploadInv(view.upload, server) /\ Filed(server)
  BY PapersTypes DEF PapersInv
<1>. DEFINE r == [file |-> view.upload.file, category |-> view.upload.category,
                  status |-> "PENDING"]
            u == [view.upload EXCEPT !.at = "recorded"]
            v == [view EXCEPT !.upload = u]
            s == [server EXCEPT !.records = server.records \cup {r}]
<1>1. view' = v /\ server' = s /\ view.upload.at = "record"
  BY DEF Papers!CreateRecord
<1>2. /\ r \in Papers!Record /\ r.file <= server.files
      /\ \A q \in server.records : q.file # r.file
  BY <1>1, <1>t DEF UploadInv, Papers!Record
<1>. HIDE DEF r
<1>3. u \in Uploads /\ u.at = "recorded" /\ u.category \in Categories
  BY <1>1, <1>t DEF Uploads, UploadInv
<1>4. /\ s \in PapersServer /\ s.files = server.files
      /\ s.records = server.records \cup {r}
  BY <1>t, <1>2 DEF PapersServer
<1>. HIDE DEF u, s
<1>5. v \in Papers!View /\ v.upload = u
  BY <1>t, <1>3 DEF Papers!View, Uploads
<1>. HIDE DEF v
<1>6. Filed(s)
  BY <1>t, <1>2, <1>4 DEF Filed
<1>. QED
  BY <1>1, <1>3, <1>4, <1>5, <1>6 DEF PapersInv, Papers!TypeOK, PapersServer, UploadInv

\* A decision on a document changes its status, and no file.
LEMMA DecisionInv ==
  ASSUME PapersInv,
         Papers!Verify \/ \E r \in server.records : Papers!Colleague(r)
  PROVE  PapersInv'
<1>t. /\ view \in Papers!View /\ view.upload \in Uploads /\ server \in PapersServer
      /\ UploadInv(view.upload, server) /\ Filed(server)
      /\ view.review # Missing => view.review \in Papers!Decision
  BY PapersTypes DEF PapersInv
<1>0. ASSUME NEW records \in SUBSET Papers!Record,
             \A r \in records : \E q \in server.records : q.file = r.file,
             \A r, q \in records : q.file = r.file => q = r,
             server' = [server EXCEPT !.records = records],
             view' \in Papers!View, view'.upload = view.upload
      PROVE  PapersInv'
  <2>. DEFINE s == [server EXCEPT !.records = records]
  <2>1. s \in PapersServer /\ s.files = server.files /\ s.records = records
    BY <1>t DEF PapersServer
  <2>2. server' = s
    BY <1>0
  <2>. HIDE DEF s
  <2>3. Filed(s)
    BY <1>t, <1>0, <2>1 DEF Filed
  <2>4. UploadInv(view.upload, s)
    BY <1>t, <1>0, <2>1 DEF UploadInv
  <2>5. PICK w : w = view'
    OBVIOUS
  <2>6. w \in Papers!View /\ UploadInv(w.upload, s)
    BY <1>0, <2>4, <2>5
  <2>. QED
    BY <2>1, <2>2, <2>3, <2>5, <2>6 DEF PapersInv, Papers!TypeOK, PapersServer
<1>1. CASE Papers!Verify
  <2>. DEFINE n == [view.review EXCEPT !.done = TRUE]
              v == [view EXCEPT !.review = n]
              f(r) == IF r.file = view.review.file
                      THEN [r EXCEPT !.status = view.review.status] ELSE r
              records == {f(r) : r \in server.records}
  <2>1. view' = v /\ server' = [server EXCEPT !.records = records]
    BY <1>1 DEF Papers!Verify
  <2>2. view.review \in Papers!Decision
    BY <1>t, <1>1 DEF Papers!Verify
  <2>3. n \in Papers!Decision
    BY <2>2 DEF Papers!Decision
  <2>. HIDE DEF n
  <2>4. v \in Papers!View /\ v.upload = view.upload
    BY <1>t, <2>3 DEF Papers!View
  <2>. HIDE DEF v
  <2>5. \A r \in server.records : f(r) \in Papers!Record /\ f(r).file = r.file
    BY <1>t, <2>2 DEF PapersServer, Papers!Record, Papers!Decision
  <2>. HIDE DEF f
  <2>6. /\ records \in SUBSET Papers!Record
        /\ \A r \in records : \E q \in server.records : q.file = r.file
        /\ \A r, q \in records : q.file = r.file => q = r
    BY <1>t, <2>5 DEF Filed
  <2>. HIDE DEF records
  <2>. QED
    BY <1>0, <2>1, <2>4, <2>6
<1>2. ASSUME NEW r \in server.records, Papers!Colleague(r) PROVE PapersInv'
  <2>1. PICK d \in {"APPROVED", "REJECTED"} :
          server' = [server EXCEPT !.records = (@ \ {r}) \cup {[r EXCEPT !.status = d]}]
    BY <1>2 DEF Papers!Colleague
  <2>. DEFINE n == [r EXCEPT !.status = d]
              records == (server.records \ {r}) \cup {n}
  <2>2. server' = [server EXCEPT !.records = records] /\ view' = view
    BY <1>2, <2>1 DEF Papers!Colleague
  <2>3. n \in Papers!Record /\ n.file = r.file
    BY <1>t DEF PapersServer, Papers!Record
  <2>. HIDE DEF n
  <2>4. /\ records \in SUBSET Papers!Record
        /\ \A p \in records : \E q \in server.records : q.file = p.file
        /\ \A p, q \in records : q.file = p.file => q = p
    BY <1>t, <2>3 DEF Filed, PapersServer
  <2>. HIDE DEF records
  <2>. QED
    BY <1>0, <1>t, <2>2, <2>4
<1>. QED
  BY <1>1, <1>2

LEMMA PapersStep ==
  ASSUME PapersInv, [Papers!Next]_(Papers!vars) PROVE PapersInv'
<1>1. CASE UNCHANGED Papers!vars
  BY <1>1 DEF Papers!vars, PapersInv, Papers!TypeOK, Filed, UploadInv
<1>. QED
  BY <1>1, PanelInv, UploadsInv, StoreFileInv, CreateRecordInv, DecisionInv
  DEF Papers!Next

LEMMA PapersKeep == ASSUME PapersInv PROVE Papers!RecordsHaveTheirFiles
  BY DEF PapersInv, Filed, Papers!RecordsHaveTheirFiles

-----------------------------------------------------------------------------
(* CycleDesk.  What makes a fetch safe to take for current is what can be   *)
(* on its way when the page hears of a run or of a deletion.                *)

\* A cycle read past its draft is past it, results are only asked for then.
ReadInv(c, f, s) ==
    /\ c.cycle \notin {Missing, "DRAFT"} => f.cycle # "DRAFT" /\ s \notin {"NONE", "DRAFT"}
    /\ f.cycle \notin {Missing, "DRAFT"} => s \notin {"NONE", "DRAFT"}
    /\ c.summary # Missing \/ f.summary # Missing => c.cycle \notin {Missing, "DRAFT", "LOCKED"}

\* No results from before are on their way to whoever heard of the run ...
HeardInv(v) ==
    v.heard => /\ v.flights.summary # "before"
               /\ "summary" \notin v.stale => v.cache.summary # "before"

\* ... and nothing of a cycle from before its deletion is.
ForgotInv(v, s) ==
    v.forgot => /\ s = "DELETED" /\ v.flights.registers # "known"
                /\ "registers" \in v.stale \/ v.cache.registers # "known"

DeletedInv(call, s) == call = [kind |-> "delete", stage |-> "done"] => s = "DELETED"

CyclesInv ==
    /\ Cycles!TypeOK
    /\ ReadInv(view.cache, view.flights, server)
    /\ HeardInv(view)
    /\ ForgotInv(view, server)
    /\ DeletedInv(view.call, server)

CallOf == [kind : Cycles!Kinds, stage : {"sent", "working", "done"}]

LEMMA CyclesTypes ==
  ASSUME CyclesInv
  PROVE  /\ view \in Cycles!View /\ server \in Cycles!Row
         /\ view.cache \in Cycles!Cache /\ view.flights \in Cycles!Cache
         /\ view.stale \in SUBSET Cycles!Keys
         /\ view.call \in CallOf \cup {Missing}
         /\ view.polling \in BOOLEAN
         /\ ReadInv(view.cache, view.flights, server)
         /\ HeardInv(view) /\ ForgotInv(view, server) /\ DeletedInv(view.call, server)
  BY DEF CyclesInv, Cycles!TypeOK, Cycles!View, CallOf

LEMMA CyclesViewStep ==
  ASSUME CyclesInv, NEW v \in Cycles!View, view' = v, server' = server,
         ReadInv(v.cache, v.flights, server), HeardInv(v), ForgotInv(v, server),
         DeletedInv(v.call, server)
  PROVE  CyclesInv'
  BY DEF CyclesInv, Cycles!TypeOK

\* What leaves cache and fetches alone, and makes nothing fresh.
LEMMA DeskStep ==
  ASSUME CyclesInv, NEW v \in Cycles!View, view' = v, server' = server,
         v.cache = view.cache, v.flights = view.flights, view.stale \subseteq v.stale,
         v.heard => view.heard, v.forgot = view.forgot, DeletedInv(v.call, server)
  PROVE  CyclesInv'
  BY CyclesTypes, CyclesViewStep DEF HeardInv, ForgotInv

LEMMA NothingSent == \A s : DeletedInv(Missing, s)
<1>1. [kind |-> "delete", stage |-> "done"]
        \in [kind : Cycles!Kinds, stage : {"sent", "working", "done"}]
  BY DEF Cycles!Kinds
<1>. QED
  BY <1>1, CyclesAssumption DEF DeletedInv

\* An entry of the cache.
Entry(k) == CASE k = "cycles"  -> Cycles!Listed \cup {Missing}
              [] k = "cycle"   -> Cycles!Row \cup {Missing}
              [] k = "summary" -> {"before", "since", Missing}
              [] OTHER         -> {"known", "after", Missing}

LEMMA SetEntry ==
  ASSUME NEW c \in Cycles!Cache, NEW k \in Cycles!Keys, NEW x \in Entry(k)
  PROVE  /\ [c EXCEPT ![k] = x] \in Cycles!Cache
         /\ [c EXCEPT ![k] = x].cycles = IF k = "cycles" THEN x ELSE c.cycles
         /\ [c EXCEPT ![k] = x].cycle = IF k = "cycle" THEN x ELSE c.cycle
         /\ [c EXCEPT ![k] = x].summary = IF k = "summary" THEN x ELSE c.summary
         /\ [c EXCEPT ![k] = x].registers = IF k = "registers" THEN x ELSE c.registers
  BY DEF Cycles!Cache, Cycles!Keys, Entry

LEMMA EntryIn ==
  ASSUME NEW c \in Cycles!Cache, NEW k \in Cycles!Keys
  PROVE  c[k] \in Entry(k) /\ Missing \in Entry(k)
  BY DEF Cycles!Cache, Cycles!Keys, Entry

LEMMA EntryOf ==
  ASSUME NEW c \in Cycles!Cache
  PROVE  /\ c["cycle"] = c.cycle /\ c["summary"] = c.summary
         /\ c["registers"] = c.registers /\ c["cycles"] = c.cycles
  BY DEF Cycles!Cache

LEMMA CyclesInit == ASSUME Cycles!Init PROVE CyclesInv
<1>1. PICK t \in Tours :
        view = [tour |-> t, page |-> "list", dialog |-> "none", polling |-> FALSE,
                cache |-> Cycles!Empty, stale |-> {}, flights |-> Cycles!Empty,
                call |-> Missing, heard |-> FALSE, forgot |-> FALSE]
  BY DEF Cycles!Init
<1>2. /\ Cycles!Empty \in Cycles!Cache /\ Cycles!Empty.cycle = Missing
      /\ Cycles!Empty.summary = Missing
  BY DEF Cycles!Empty, Cycles!Cache, Cycles!Keys
<1>3. view \in Cycles!View
  BY <1>1, <1>2 DEF Cycles!View, Cycles!Pages
<1>4. server = "NONE" /\ "NONE" \in Cycles!Row
  BY DEF Cycles!Init, Cycles!Row, Cycles!Absent
<1>5. DeletedInv(view.call, server)
  BY <1>1, NothingSent
<1>. QED
  BY <1>1, <1>2, <1>3, <1>4, <1>5
  DEF CyclesInv, Cycles!TypeOK, ReadInv, HeardInv, ForgotInv

-----------------------------------------------------------------------------
(* The query cache *)

\* A fetch is answered by the cycle as it is.
LEMMA AskInv ==
  ASSUME CyclesInv, NEW k \in Cycles!Keys, Cycles!Ask(k) PROVE CyclesInv'
<1>t. /\ view \in Cycles!View /\ server \in Cycles!Row
      /\ view.cache \in Cycles!Cache /\ view.flights \in Cycles!Cache
      /\ ReadInv(view.cache, view.flights, server)
      /\ HeardInv(view) /\ ForgotInv(view, server) /\ DeletedInv(view.call, server)
  BY CyclesTypes
<1>. DEFINE x == Cycles!Read(k)
            f == [view.flights EXCEPT ![k] = x]
            v == [view EXCEPT !.flights = f]
<1>1. /\ view' = v /\ server' = server /\ k \in Cycles!Observed(view)
      /\ k \in {"cycles", "registers"} \/ server \notin {"NONE", "DELETED"}
  BY DEF Cycles!Ask, Cycles!Exists, Cycles!Absent
<1>2. /\ x \in Entry(k) /\ (x # "before" \/ k # "summary")
      /\ k = "cycle" => x = server
  BY <1>t DEF Cycles!Read, Entry, Cycles!Listed, Cycles!Keys
<1>v. view.page \in {"list", "detail", "registers"}
  BY <1>t DEF Cycles!View, Cycles!Pages
<1>3. k = "summary" => view.cache.cycle \notin {Missing, "DRAFT", "LOCKED"}
  <2>1. CASE view.page = "list"
    BY <1>1, <2>1 DEF Cycles!Observed
  <2>2. CASE view.page = "detail"
    BY <1>1, <2>2 DEF Cycles!Observed
  <2>3. CASE view.page = "registers"
    BY <1>1, <2>3 DEF Cycles!Observed
  <2>. QED
    BY <1>v, <2>1, <2>2, <2>3
<1>p. /\ x \in Entry(k) /\ (k = "summary" => x # "before")
      /\ k = "registers" /\ server = "DELETED" => x # "known"
  BY <1>t DEF Cycles!Read, Entry, Cycles!Listed, Cycles!Keys, Cycles!Exists, Cycles!Absent
<1>. HIDE DEF x
<1>4. /\ f \in Cycles!Cache
      /\ f.cycle = IF k = "cycle" THEN x ELSE view.flights.cycle
      /\ f.summary = IF k = "summary" THEN x ELSE view.flights.summary
      /\ f.registers = IF k = "registers" THEN x ELSE view.flights.registers
  BY <1>t, <1>p, SetEntry
<1>. HIDE DEF f
<1>5. /\ v \in Cycles!View /\ v.cache = view.cache /\ v.flights = f /\ v.stale = view.stale
      /\ v.heard = view.heard /\ v.forgot = view.forgot /\ v.call = view.call
  BY <1>t, <1>4 DEF Cycles!View
<1>. HIDE DEF v
<1>6. ReadInv(view.cache, f, server)
  BY <1>t, <1>1, <1>2, <1>3, <1>4 DEF ReadInv
<1>7. HeardInv(v)
  BY <1>t, <1>p, <1>4, <1>5 DEF HeardInv
<1>8. ForgotInv(v, server)
  BY <1>t, <1>p, <1>4, <1>5 DEF ForgotInv
<1>. QED
  BY <1>t, <1>1, <1>5, <1>6, <1>7, <1>8, CyclesViewStep

LEMMA ArriveInv ==
  ASSUME CyclesInv, NEW k \in Cycles!Keys, Cycles!Arrive(k) PROVE CyclesInv'
<1>t. /\ view \in Cycles!View /\ server \in Cycles!Row /\ view.polling \in BOOLEAN
      /\ view.cache \in Cycles!Cache /\ view.flights \in Cycles!Cache
      /\ view.stale \in SUBSET Cycles!Keys
      /\ ReadInv(view.cache, view.flights, server)
      /\ HeardInv(view) /\ ForgotInv(view, server) /\ DeletedInv(view.call, server)
  BY CyclesTypes
<1>. DEFINE x == view.flights[k]
            m == Missing
            c == [view.cache EXCEPT ![k] = x]
            f == [view.flights EXCEPT ![k] = m]
            stale == view.stale \ {k}
            b == IF k = "cycle" /\ view.page = "detail"
                 THEN Cycles!Polls(view.cache.cycle, x, view.polling) ELSE view.polling
            v == [view EXCEPT !.cache = c, !.flights = f, !.stale = stale, !.polling = b]
<1>1. x # Missing /\ view' = v /\ server' = server
  BY DEF Cycles!Arrive
<1>i. x \in Entry(k) /\ m \in Entry(k)
  BY <1>t, EntryIn
<1>b. b \in BOOLEAN
  <2>1. ASSUME NEW old, NEW new PROVE Cycles!Polls(old, new, view.polling) \in BOOLEAN
    <3>1. CASE new # old
      BY <3>1 DEF Cycles!Polls
    <3>2. CASE new = old
      BY <1>t, <3>2 DEF Cycles!Polls
    <3>. QED
      BY <3>1, <3>2
  <2>. QED
    BY <1>t, <2>1
<1>e. /\ k = "cycle" => x = view.flights.cycle
      /\ k = "summary" => x = view.flights.summary
      /\ k = "registers" => x = view.flights.registers
  BY <1>t, EntryOf
<1>2. /\ x \in Entry(k) /\ m \in Entry(k) /\ b \in BOOLEAN /\ stale \in SUBSET Cycles!Keys
      /\ k = "cycle" => x = view.flights.cycle
      /\ k = "summary" => x = view.flights.summary
      /\ k = "registers" => x = view.flights.registers
  BY <1>t, <1>i, <1>b, <1>e
<1>. HIDE DEF x, b
<1>3. /\ c \in Cycles!Cache
      /\ c.cycle = IF k = "cycle" THEN x ELSE view.cache.cycle
      /\ c.summary = IF k = "summary" THEN x ELSE view.cache.summary
      /\ c.registers = IF k = "registers" THEN x ELSE view.cache.registers
  BY <1>t, <1>2, SetEntry
<1>4. /\ f \in Cycles!Cache
      /\ f.cycle = IF k = "cycle" THEN m ELSE view.flights.cycle
      /\ f.summary = IF k = "summary" THEN m ELSE view.flights.summary
      /\ f.registers = IF k = "registers" THEN m ELSE view.flights.registers
  BY <1>t, <1>2, SetEntry
<1>s. \A j : j # k => (j \in stale <=> j \in view.stale)
  OBVIOUS
<1>m. m = Missing
  OBVIOUS
<1>. HIDE DEF c, f, m, stale
<1>5. /\ v \in Cycles!View /\ v.cache = c /\ v.flights = f /\ v.stale = stale
      /\ v.heard = view.heard /\ v.forgot = view.forgot /\ v.call = view.call
  BY <1>t, <1>2, <1>3, <1>4 DEF Cycles!View
<1>. HIDE DEF v
<1>6. ReadInv(c, f, server)
  BY <1>t, <1>1, <1>2, <1>3, <1>4, <1>m, CyclesAssumption
  DEF ReadInv, Cycles!Row, Cycles!Cache
<1>7. HeardInv(v)
  BY <1>t, <1>1, <1>2, <1>3, <1>4, <1>5, <1>s, <1>m, CyclesAssumption DEF HeardInv
<1>8. ForgotInv(v, server)
  BY <1>t, <1>1, <1>2, <1>3, <1>4, <1>5, <1>s, <1>m, CyclesAssumption DEF ForgotInv
<1>. QED
  BY <1>t, <1>1, <1>5, <1>6, <1>7, <1>8, CyclesViewStep

LEMMA OpenInv ==
  ASSUME CyclesInv, NEW p \in Cycles!Pages, Cycles!Open(p) PROVE CyclesInv'
<1>t. /\ view \in Cycles!View /\ view.stale \in SUBSET Cycles!Keys
      /\ DeletedInv(view.call, server)
  BY CyclesTypes
<1>1. PICK aged \in {{}, {k \in Cycles!Keys : view.cache[k] # Missing}} :
        view' = Cycles!Opened([view EXCEPT !.stale = @ \cup aged], p)
  BY DEF Cycles!Open
<1>. DEFINE stale == view.stale \cup aged
            u == [view EXCEPT !.stale = stale]
            b == p = "detail" /\ u.cache.cycle \in Cycles!Working
            v == [u EXCEPT !.page = p, !.dialog = "none", !.heard = FALSE, !.polling = b]
<1>2. view' = v /\ server' = server
  BY <1>1 DEF Cycles!Open, Cycles!Opened
<1>3. stale \in SUBSET Cycles!Keys /\ view.stale \subseteq stale
  BY <1>t
<1>. HIDE DEF stale
<1>4. /\ u \in Cycles!View /\ u.cache = view.cache /\ u.flights = view.flights
      /\ u.stale = stale /\ u.forgot = view.forgot /\ u.call = view.call
  BY <1>t, <1>3 DEF Cycles!View
<1>5. b \in BOOLEAN
  OBVIOUS
<1>. HIDE DEF u, b
<1>6. /\ v \in Cycles!View /\ v.cache = u.cache /\ v.flights = u.flights /\ v.heard = FALSE
      /\ v.stale = u.stale /\ v.forgot = u.forgot /\ v.call = u.call
  BY <1>4, <1>5 DEF Cycles!View
<1>. HIDE DEF v
<1>. QED
  BY <1>t, <1>2, <1>3, <1>4, <1>6, DeskStep

LEMMA SendsCallInv ==
  ASSUME CyclesInv,
         \/ Cycles!Create \/ Cycles!Run \/ Cycles!ImportRegister \/ Cycles!Approve
         \/ Cycles!Delete \/ Cycles!Dialog
  PROVE  CyclesInv'
<1>t. view \in Cycles!View /\ DeletedInv(view.call, server)
  BY CyclesTypes
<1>1. ASSUME NEW kind \in Cycles!Kinds, Cycles!Send(kind), server' = server PROVE CyclesInv'
  <2>. DEFINE call == [kind |-> kind, stage |-> "sent"]
              v == [view EXCEPT !.call = call]
  <2>1. view' = v
    BY <1>1 DEF Cycles!Send
  <2>2. call \in CallOf /\ DeletedInv(call, server)
    BY DEF CallOf, DeletedInv
  <2>. HIDE DEF call
  <2>3. /\ v \in Cycles!View /\ v.cache = view.cache /\ v.flights = view.flights
        /\ v.stale = view.stale /\ v.heard = view.heard /\ v.forgot = view.forgot
        /\ v.call = call
    BY <1>t, <2>2 DEF Cycles!View, CallOf
  <2>. HIDE DEF v
  <2>. QED
    BY <1>1, <2>1, <2>2, <2>3, DeskStep
<1>2. ASSUME NEW d \in {"none", "new", "delete", "import"},
             view' = [view EXCEPT !.dialog = d], server' = server
      PROVE  CyclesInv'
  <2>. DEFINE v == [view EXCEPT !.dialog = d]
  <2>1. /\ v \in Cycles!View /\ v.cache = view.cache /\ v.flights = view.flights
        /\ v.stale = view.stale /\ v.heard = view.heard /\ v.forgot = view.forgot
        /\ v.call = view.call
    BY <1>t DEF Cycles!View
  <2>2. view' = v
    BY <1>2
  <2>. HIDE DEF v
  <2>. QED
    BY <1>t, <1>2, <2>1, <2>2, DeskStep
<1>3. CASE Cycles!Dialog
  BY <1>2, <1>3 DEF Cycles!Dialog
<1>. QED
  BY <1>1, <1>3 DEF Cycles!Create, Cycles!Run, Cycles!ImportRegister, Cycles!Approve,
     Cycles!Delete, Cycles!Kinds

-----------------------------------------------------------------------------
(* payroll-service *)

\* A cycle does not return to its draft, nor from its deletion.
Onwards(s, t) ==
    /\ t \in Cycles!Row
    /\ s \notin {"NONE", "DRAFT"} => t \notin {"NONE", "DRAFT"}
    /\ s = "DELETED" => t = "DELETED"

LEMMA StartedIs ==
  ASSUME server \in Cycles!Row, NEW kind \in Cycles!Kinds, Cycles!Starts(kind)
  PROVE  /\ Onwards(server, Cycles!Started(kind))
         /\ kind = "delete" => Cycles!Started(kind) = "DELETED"
  BY DEF Onwards, Cycles!Row, Cycles!Kinds, Cycles!Starts, Cycles!Started, Cycles!Status,
     Cycles!Absent, Cycles!Runnable, Cycles!Exists

LEMMA ServerStep ==
  ASSUME CyclesInv, NEW t, server' = t, Onwards(server, t),
         NEW v \in Cycles!View, view' = v, v.cache = view.cache, v.flights = view.flights,
         v.stale = view.stale, v.heard = view.heard, v.forgot = view.forgot,
         DeletedInv(v.call, t)
  PROVE  CyclesInv'
<1>1. /\ ReadInv(view.cache, view.flights, server)
      /\ HeardInv(view) /\ ForgotInv(view, server)
  BY CyclesTypes
<1>2. ReadInv(v.cache, v.flights, t) /\ HeardInv(v) /\ ForgotInv(v, t)
  BY <1>1 DEF ReadInv, HeardInv, ForgotInv, Onwards
<1>. QED
  BY <1>2 DEF CyclesInv, Cycles!TypeOK, Onwards

LEMMA ServerInv ==
  ASSUME CyclesInv, NEW kind \in Cycles!Kinds, Cycles!Handle(kind) \/ Cycles!Colleague(kind)
  PROVE  CyclesInv'
<1>t. /\ view \in Cycles!View /\ server \in Cycles!Row
      /\ view.call \in CallOf \cup {Missing} /\ DeletedInv(view.call, server)
  BY CyclesTypes
<1>1. /\ Onwards(server, Cycles!Started(kind))
      /\ kind = "delete" => Cycles!Started(kind) = "DELETED"
      /\ server' = Cycles!Started(kind)
  BY <1>t, StartedIs DEF Cycles!Handle, Cycles!Colleague
<1>2. CASE Cycles!Colleague(kind)
  <2>1. view' = view
    BY <1>2 DEF Cycles!Colleague
  <2>2. DeletedInv(view.call, Cycles!Started(kind))
    BY <1>t, <1>1 DEF DeletedInv, Onwards
  <2>. QED
    BY <1>t, <1>1, <2>1, <2>2, ServerStep
<1>3. CASE Cycles!Handle(kind)
  <2>. DEFINE stage == IF kind \in {"create", "delete"} THEN "done" ELSE "working"
              call == [kind |-> kind, stage |-> stage]
              v == [view EXCEPT !.call = call]
  <2>0. view.call = [kind |-> kind, stage |-> "sent"]
    BY <1>3 DEF Cycles!Handle, Cycles!At
  <2>1. [view.call EXCEPT !.stage = stage] = call
    BY <2>0
  <2>2. view' = v
    BY <1>3, <2>1 DEF Cycles!Handle
  <2>3. call \in CallOf /\ DeletedInv(call, Cycles!Started(kind))
    BY <1>1 DEF CallOf, DeletedInv
  <2>. HIDE DEF call
  <2>4. /\ v \in Cycles!View /\ v.cache = view.cache /\ v.flights = view.flights
        /\ v.stale = view.stale /\ v.heard = view.heard /\ v.forgot = view.forgot
        /\ v.call = call
    BY <1>t, <2>3 DEF Cycles!View, CallOf
  <2>. HIDE DEF v
  <2>. QED
    BY <1>1, <2>2, <2>3, <2>4, ServerStep
<1>. QED
  BY <1>2, <1>3

\* The end of a run of this console makes what was read of the results old.
LEMMA OutdatedIs ==
  ASSUME NEW c \in Cycles!Cache
  PROVE  /\ Cycles!Outdated(c) \in Cycles!Cache
         /\ Cycles!Outdated(c).cycle = c.cycle
         /\ Cycles!Outdated(c).registers = c.registers
         /\ Cycles!Outdated(c).summary # Missing => c.summary # Missing
  BY DEF Cycles!Outdated, Cycles!Cache

LEMMA EndsInv ==
  ASSUME CyclesInv, Cycles!RunEnds \/ Cycles!ApprovalEnds PROVE CyclesInv'
<1>t. /\ view \in Cycles!View /\ server \in Cycles!Row
      /\ view.cache \in Cycles!Cache /\ view.flights \in Cycles!Cache
      /\ ReadInv(view.cache, view.flights, server)
      /\ HeardInv(view) /\ ForgotInv(view, server) /\ DeletedInv(view.call, server)
  BY CyclesTypes
<1>1. PICK t : t = server'
  OBVIOUS
<1>2. Onwards(server, t)
  BY <1>1 DEF Onwards, Cycles!RunEnds, Cycles!ApprovalEnds, Cycles!Row, Cycles!Status,
     Cycles!Absent
<1>3. CASE view' = view
  <2>1. DeletedInv(view.call, t)
    BY <1>t, <1>2 DEF DeletedInv, Onwards
  <2>. QED
    BY <1>t, <1>1, <1>2, <1>3, <2>1, ServerStep
<1>4. ASSUME NEW kind \in {"run", "import", "approve"}, Cycles!At(kind, "working"),
             view' = [view EXCEPT !.call.stage = "done"]
      PROVE  CyclesInv'
  <2>. DEFINE call == [kind |-> kind, stage |-> "done"]
              v == [view EXCEPT !.call = call]
  <2>1. [view.call EXCEPT !.stage = "done"] = call
    BY <1>4 DEF Cycles!At
  <2>2. view' = v
    BY <1>4, <2>1
  <2>3. call \in CallOf /\ DeletedInv(call, t)
    BY DEF CallOf, DeletedInv, Cycles!Kinds
  <2>. HIDE DEF call
  <2>4. /\ v \in Cycles!View /\ v.cache = view.cache /\ v.flights = view.flights
        /\ v.stale = view.stale /\ v.heard = view.heard /\ v.forgot = view.forgot
        /\ v.call = call
    BY <1>t, <2>3 DEF Cycles!View, CallOf
  <2>. HIDE DEF v
  <2>. QED
    BY <1>1, <1>2, <2>2, <2>3, <2>4, ServerStep
<1>5. ASSUME NEW kind \in {"run", "import"}, Cycles!At(kind, "working"),
             view' = [view EXCEPT !.call.stage = "done", !.cache = Cycles!Outdated(@),
                                  !.flights = Cycles!Outdated(@), !.heard = FALSE]
      PROVE  CyclesInv'
  <2>. DEFINE call == [kind |-> kind, stage |-> "done"]
              c == Cycles!Outdated(view.cache)
              f == Cycles!Outdated(view.flights)
              v == [view EXCEPT !.call = call, !.cache = c, !.flights = f, !.heard = FALSE]
  <2>1. [view.call EXCEPT !.stage = "done"] = call
    BY <1>5 DEF Cycles!At
  <2>2. view' = v
    BY <1>5, <2>1
  <2>3. call \in CallOf /\ DeletedInv(call, t)
    BY DEF CallOf, DeletedInv, Cycles!Kinds
  <2>4. /\ c \in Cycles!Cache /\ c.cycle = view.cache.cycle
        /\ c.registers = view.cache.registers
        /\ c.summary # Missing => view.cache.summary # Missing
        /\ f \in Cycles!Cache /\ f.cycle = view.flights.cycle
        /\ f.registers = view.flights.registers
        /\ f.summary # Missing => view.flights.summary # Missing
    BY <1>t, OutdatedIs
  <2>. HIDE DEF call, c, f
  <2>5. /\ v \in Cycles!View /\ v.cache = c /\ v.flights = f /\ v.heard = FALSE
        /\ v.stale = view.stale /\ v.forgot = view.forgot /\ v.call = call
    BY <1>t, <2>3, <2>4 DEF Cycles!View, CallOf
  <2>. HIDE DEF v
  <2>6. ReadInv(c, f, t) /\ HeardInv(v) /\ ForgotInv(v, t)
    BY <1>t, <1>2, <2>4, <2>5 DEF ReadInv, HeardInv, ForgotInv, Onwards
  <2>. QED
    BY <1>1, <1>2, <2>2, <2>3, <2>5, <2>6 DEF CyclesInv, Cycles!TypeOK, Onwards
<1>. QED
  BY <1>3, <1>4, <1>5 DEF Cycles!RunEnds, Cycles!ApprovalEnds

-----------------------------------------------------------------------------
(* Answers *)

\* An invalidation makes what was read stale, by the prefix of its key, and cancels
\* the fetch of what is shown of it.
LEMMA InvalidateIs ==
  ASSUME NEW v \in Cycles!View, NEW keys \in SUBSET Cycles!Keys, NEW w,
         w = Cycles!Invalidate(v, keys)
  PROVE  /\ w \in Cycles!View /\ w.cache = v.cache /\ v.stale \subseteq w.stale
         /\ w.heard = v.heard /\ w.forgot = v.forgot /\ w.call = v.call
         /\ w.page = v.page /\ w.dialog = v.dialog
         /\ w.flights.cycle \in {Missing, v.flights.cycle}
         /\ w.flights.summary \in {Missing, v.flights.summary}
         /\ w.flights.registers \in {Missing, v.flights.registers}
         /\ "cycle" \in keys =>
              /\ v.cache.summary # Missing => "summary" \in w.stale
              /\ Cycles!NoneLeft(v, "summary", "before") => w.flights.summary # "before"
         /\ "registers" \in keys =>
              /\ v.cache.registers # Missing => "registers" \in w.stale
              /\ Cycles!NoneLeft(v, "registers", "known") => w.flights.registers # "known"
<1>. DEFINE held == Cycles!Held(v, keys)
            dropped == held \cap Cycles!Observed(v)
            stale == v.stale \cup held
            f == [k \in Cycles!Keys |-> IF k \in dropped THEN Missing ELSE v.flights[k]]
<1>t. v.cache \in Cycles!Cache /\ v.flights \in Cycles!Cache /\ v.stale \in SUBSET Cycles!Keys
  BY DEF Cycles!View
<1>1. w = [v EXCEPT !.stale = stale, !.flights = f]
  BY DEF Cycles!Invalidate
<1>2. /\ held \in SUBSET Cycles!Keys
      /\ "cycle" \in keys /\ v.cache["summary"] # Missing => "summary" \in held
      /\ "registers" \in keys /\ v.cache["registers"] # Missing => "registers" \in held
  BY DEF Cycles!Held, Cycles!Prefixed, Cycles!Keys
<1>. HIDE DEF held
<1>3. stale \in SUBSET Cycles!Keys /\ v.stale \subseteq stale /\ held \subseteq stale
  BY <1>t, <1>2
<1>4. /\ f \in Cycles!Cache
      /\ f.cycle \in {Missing, v.flights.cycle}
      /\ f.summary = IF "summary" \in dropped THEN Missing ELSE v.flights.summary
      /\ f.registers = IF "registers" \in dropped THEN Missing ELSE v.flights.registers
  BY <1>t DEF Cycles!Cache, Cycles!Keys
<1>5. /\ "cycle" \in keys /\ Cycles!NoneLeft(v, "summary", "before")
           => "summary" \in dropped \/ v.flights["summary"] # "before"
      /\ "registers" \in keys /\ Cycles!NoneLeft(v, "registers", "known")
           => "registers" \in dropped \/ v.flights["registers"] # "known"
  BY <1>2 DEF Cycles!NoneLeft
<1>. HIDE DEF f, stale, dropped
<1>6. /\ w \in Cycles!View /\ w.cache = v.cache /\ w.stale = stale /\ w.flights = f
      /\ w.heard = v.heard /\ w.forgot = v.forgot /\ w.call = v.call
      /\ w.page = v.page /\ w.dialog = v.dialog
  BY <1>1, <1>3, <1>4 DEF Cycles!View
<1>. QED
  BY <1>t, <1>2, <1>3, <1>4, <1>5, <1>6, EntryOf, CyclesAssumption

LEMMA InvalidateInv ==
  ASSUME NEW s, NEW v \in Cycles!View, NEW keys \in SUBSET Cycles!Keys, NEW w,
         w = Cycles!Invalidate(v, keys),
         ReadInv(v.cache, v.flights, s), HeardInv(v), ForgotInv(v, s)
  PROVE  ReadInv(w.cache, w.flights, s) /\ HeardInv(w) /\ ForgotInv(w, s)
  BY InvalidateIs, CyclesAssumption DEF ReadInv, HeardInv, ForgotInv

LEMMA AnswersInv ==
  ASSUME CyclesInv, NEW kind \in Cycles!Kinds, Cycles!Answer(kind) PROVE CyclesInv'
<1>t. /\ view \in Cycles!View /\ ReadInv(view.cache, view.flights, server)
      /\ HeardInv(view) /\ ForgotInv(view, server) /\ DeletedInv(view.call, server)
  BY CyclesTypes
<1>. DEFINE u == [view EXCEPT !.call = Missing]
            w == Cycles!Invalidate(u, Cycles!Affects(kind))
<1>1. view' = Cycles!Succeed(u, kind) /\ server' = server
  BY DEF Cycles!Answer
<1>2. view.call = [kind |-> kind, stage |-> "done"]
  BY DEF Cycles!Answer, Cycles!At
<1>3. kind = "delete" => server = "DELETED"
  BY <1>t, <1>2 DEF DeletedInv
<1>4. /\ u \in Cycles!View /\ u.call = Missing /\ u.cache = view.cache
      /\ u.flights = view.flights /\ u.stale = view.stale
      /\ u.heard = view.heard /\ u.forgot = view.forgot
  BY <1>t DEF Cycles!View
<1>. HIDE DEF u
<1>5. ReadInv(u.cache, u.flights, server) /\ HeardInv(u) /\ ForgotInv(u, server)
  BY <1>t, <1>4 DEF HeardInv, ForgotInv
<1>6. Cycles!Affects(kind) \in SUBSET Cycles!Keys
  BY DEF Cycles!Affects, Cycles!Keys
<1>w. PICK x : x = w
  OBVIOUS
<1>7. /\ x \in Cycles!View /\ x.call = Missing
      /\ ReadInv(x.cache, x.flights, server) /\ HeardInv(x) /\ ForgotInv(x, server)
  BY <1>4, <1>5, <1>6, <1>w, InvalidateIs, InvalidateInv
<1>8. \A v \in Cycles!View :
         /\ view' = v /\ v.call = Missing /\ v.cache = x.cache /\ v.flights = x.flights
         /\ HeardInv(v) /\ ForgotInv(v, server)
         => CyclesInv'
  BY <1>1, <1>7, CyclesViewStep, NothingSent
<1>9. CASE kind = "create"
  <2>. DEFINE b == x.cache.cycle \in Cycles!Working
              v == [x EXCEPT !.page = "detail", !.dialog = "none", !.heard = FALSE,
                             !.polling = b]
  <2>1. view' = v
    BY <1>1, <1>9, <1>w DEF Cycles!Succeed, Cycles!Opened
  <2>2. b \in BOOLEAN
    OBVIOUS
  <2>. HIDE DEF b
  <2>3. /\ v \in Cycles!View /\ v.call = x.call /\ v.cache = x.cache
        /\ v.flights = x.flights /\ v.stale = x.stale /\ v.heard = FALSE
        /\ v.forgot = x.forgot
    BY <1>7, <2>2 DEF Cycles!View, Cycles!Pages
  <2>. HIDE DEF v
  <2>4. HeardInv(v) /\ ForgotInv(v, server)
    BY <1>7, <2>3 DEF HeardInv, ForgotInv
  <2>. QED
    BY <1>7, <1>8, <2>1, <2>3, <2>4
<1>10. CASE kind \in {"run", "import"}
  <2>. DEFINE h == Cycles!NoneLeft(u, "summary", "before")
              v == [x EXCEPT !.polling = TRUE, !.heard = h]
              y == [x EXCEPT !.heard = h]
  <2>1. view' = x \/ view' = v \/ view' = y
    BY <1>1, <1>10, <1>w DEF Cycles!Succeed, Cycles!OnDetail
  <2>h. h \in BOOLEAN
    BY DEF Cycles!NoneLeft
  <2>4. "cycle" \in Cycles!Affects(kind)
    BY <1>10 DEF Cycles!Affects
  <2>5. h => /\ x.flights.summary # "before"
             /\ "summary" \notin x.stale => x.cache.summary # "before"
    BY <1>4, <1>6, <1>w, <2>4, InvalidateIs, CyclesAssumption
  <2>. HIDE DEF h
  <2>2. /\ v \in Cycles!View /\ v.call = x.call /\ v.cache = x.cache /\ v.heard = h
        /\ v.flights = x.flights /\ v.stale = x.stale /\ v.forgot = x.forgot
        /\ y \in Cycles!View /\ y.call = x.call /\ y.cache = x.cache /\ y.heard = h
        /\ y.flights = x.flights /\ y.stale = x.stale /\ y.forgot = x.forgot
    BY <1>7, <2>h DEF Cycles!View
  <2>. HIDE DEF v, y
  <2>3. ForgotInv(v, server) /\ ForgotInv(y, server)
    BY <1>7, <2>2 DEF ForgotInv
  <2>6. HeardInv(v) /\ HeardInv(y)
    BY <2>2, <2>5 DEF HeardInv
  <2>. QED
    BY <1>7, <1>8, <2>1, <2>2, <2>3, <2>6
<1>11. CASE kind = "approve"
  BY <1>1, <1>7, <1>8, <1>11, <1>w DEF Cycles!Succeed
<1>12. CASE kind = "delete"
  <2>. DEFINE d == IF x.dialog = "delete" THEN "none" ELSE x.dialog
              b == Cycles!NoneLeft(u, "registers", "known")
              v == [x EXCEPT !.dialog = d, !.forgot = b]
  <2>1. view' = v
    BY <1>1, <1>12, <1>w DEF Cycles!Succeed
  <2>2. d \in {"none", "new", "delete", "import"} /\ b \in BOOLEAN
    BY <1>7 DEF Cycles!View, Cycles!NoneLeft
  <2>3. /\ b => x.flights.registers # "known"
        /\ x.cache.registers # "known" \/ "registers" \in x.stale
    BY <1>4, <1>6, <1>12, <1>w, InvalidateIs, CyclesAssumption DEF Cycles!Affects
  <2>. HIDE DEF d, b
  <2>4. /\ v \in Cycles!View /\ v.call = x.call /\ v.cache = x.cache
        /\ v.flights = x.flights /\ v.stale = x.stale /\ v.heard = x.heard
        /\ v.forgot = b
    BY <1>7, <2>2 DEF Cycles!View
  <2>. HIDE DEF v
  <2>6. HeardInv(v) /\ ForgotInv(v, server)
    BY <1>3, <1>7, <1>12, <2>3, <2>4 DEF HeardInv, ForgotInv
  <2>. QED
    BY <1>7, <1>8, <2>1, <2>4, <2>6
<1>. QED
  BY <1>9, <1>10, <1>11, <1>12 DEF Cycles!Kinds

LEMMA FailsInv ==
  ASSUME CyclesInv, NEW kind \in Cycles!Kinds, Cycles!Fail(kind) PROVE CyclesInv'
<1>t. /\ view \in Cycles!View /\ ReadInv(view.cache, view.flights, server)
      /\ HeardInv(view) /\ ForgotInv(view, server)
  BY CyclesTypes
<1>. DEFINE u == [view EXCEPT !.call = Missing]
<1>1. server' = server /\ (view' = u \/ view' = Cycles!Invalidate(u, {"cycle"}))
  BY DEF Cycles!Fail
<1>2. /\ u \in Cycles!View /\ u.call = Missing /\ u.cache = view.cache
      /\ u.flights = view.flights /\ u.stale = view.stale
      /\ u.heard = view.heard /\ u.forgot = view.forgot
  BY <1>t DEF Cycles!View
<1>. HIDE DEF u
<1>3. ReadInv(u.cache, u.flights, server) /\ HeardInv(u) /\ ForgotInv(u, server)
  BY <1>t, <1>2 DEF HeardInv, ForgotInv
<1>4. {"cycle"} \in SUBSET Cycles!Keys
  BY DEF Cycles!Keys
<1>w. PICK x : x = Cycles!Invalidate(u, {"cycle"})
  OBVIOUS
<1>5. /\ x \in Cycles!View /\ x.call = Missing
      /\ ReadInv(x.cache, x.flights, server) /\ HeardInv(x) /\ ForgotInv(x, server)
  BY <1>2, <1>3, <1>4, <1>w, InvalidateIs, InvalidateInv
<1>6. DeletedInv(Missing, server)
  BY NothingSent
<1>. QED
  BY <1>1, <1>2, <1>3, <1>5, <1>6, <1>w, CyclesViewStep

LEMMA CyclesStep ==
  ASSUME CyclesInv, [Cycles!Next]_(Cycles!vars) PROVE CyclesInv'
<1>1. CASE UNCHANGED Cycles!vars
  BY <1>1 DEF Cycles!vars, CyclesInv, Cycles!TypeOK, ReadInv, HeardInv, ForgotInv, DeletedInv
<1>. QED
  BY <1>1, AskInv, ArriveInv, OpenInv, SendsCallInv, ServerInv, EndsInv, AnswersInv, FailsInv
  DEF Cycles!Next

LEMMA CyclesShow == ASSUME CyclesInv PROVE Cycles!OwnRunIsShown /\ Cycles!DeletedIsForgotten
  BY DEF CyclesInv, HeardInv, ForgotInv, Cycles!OwnRunIsShown, Cycles!DeletedIsForgotten

-----------------------------------------------------------------------------
(* The console: one page at a time, and the other pages' state is not there. *)

ConsoleInv ==
    /\ page \in Visited
    /\ page = "attendance" => Attendance!PageInv
    /\ page = "sheet"      => SheetInv
    /\ page = "import"     => ImportInv
    /\ page = "register"   => RegisterInv
    /\ page = "documents"  => DocumentsInv
    /\ page = "papers"     => PapersInv
    /\ page = "employees"  => Employees!PageInv /\ Employees!OnceInv
    /\ page = "clients"    => Clients!PageInv
    /\ page = "cycles"     => CyclesInv

\* The bounds of the pages' own proofs are those of the console.
LEMMA FormBounds ==
  /\ Employees!Bounds /\ Employees!EmployeesAreFinite
  /\ Clients!Bounds
<1>1. \A S : Employees!IsFiniteSet(S) <=> IsFiniteSet(S)
  BY DEF Employees!IsFiniteSet, IsFiniteSet
<1>. QED
  BY <1>1, FormsAssumption
  DEF Employees!Bounds, Employees!EmployeesAreFinite, Clients!Bounds

LEMMA ConsoleInit == ASSUME Init PROVE ConsoleInv
<1>1. page \in Visited /\ page \in AllPages
  BY VisitedAssumption DEF Init
<1>2. page = "attendance" => Attendance!PageInv
  BY AttendanceAssumption, Attendance!PageInit DEF Init
<1>3. page = "sheet" => SheetInv
  BY SheetInit DEF Init
<1>4. page = "import" => ImportInv
  BY ImportInit DEF Init
<1>5. page = "register" => RegisterInv
  BY RegisterInit DEF Init
<1>6. page = "documents" => DocumentsInv
  BY DocumentsInit DEF Init
<1>7. page = "papers" => PapersInv
  BY PapersInit DEF Init
<1>8. page = "employees" => Employees!PageInv /\ Employees!OnceInv
  <2>1. page = "employees" => Employees!Init
    BY DEF Init
  <2>. QED
    BY <2>1, FormBounds, Employees!PageInit, Employees!OnceInit
<1>9. page = "clients" => Clients!PageInv
  <2>1. page = "clients" => Clients!Init
    BY DEF Init
  <2>. QED
    BY <2>1, FormBounds, Clients!PageInit
<1>10. page = "cycles" => CyclesInv
  BY CyclesInit DEF Init
<1>. QED
  BY <1>1, <1>2, <1>3, <1>4, <1>5, <1>6, <1>7, <1>8, <1>9, <1>10 DEF ConsoleInv

\* A step is one of the page that is open, which stays open.
LEMMA OnItsPage ==
  ASSUME [Next]_vars
  PROVE  /\ page' = page
         /\ page = "attendance" => [Attendance!Next]_(Attendance!vars)
         /\ page = "sheet"      => [Sheet!Next]_(Sheet!vars)
         /\ page = "import"     => [Import!Next]_(Import!vars)
         /\ page = "register"   => [Register!Next]_(Register!vars)
         /\ page = "documents"  => [Documents!Next]_(Documents!vars)
         /\ page = "papers"     => [Papers!Next]_(Papers!vars)
         /\ page = "employees"  => [Employees!Next]_(Employees!vars)
         /\ page = "clients"    => [Clients!Next]_(Clients!vars)
         /\ page = "cycles"     => [Cycles!Next]_(Cycles!vars)
<1>1. CASE UNCHANGED vars
  BY <1>1 DEF vars, Attendance!vars, Sheet!vars, Import!vars, Register!vars,
     Documents!vars, Papers!vars, Employees!vars, Clients!vars, Cycles!vars
<1>2. CASE Next
  BY <1>2 DEF Next, On
<1>. QED
  BY <1>1, <1>2

LEMMA ConsoleStep ==
  ASSUME ConsoleInv, [Next]_vars
  PROVE  ConsoleInv' /\ (page = "attendance" => Attendance!MonthsAreFrozen)
<1>1. page' = page /\ page \in Visited
  BY OnItsPage DEF ConsoleInv
<1>2. page = "attendance" => Attendance!PageInv' /\ Attendance!MonthsAreFrozen
  <2>1. page = "attendance" => Attendance!PageInv /\ [Attendance!Next]_(Attendance!vars)
    BY OnItsPage DEF ConsoleInv
  <2>. QED
    BY <2>1, AttendanceAssumption, Attendance!PageStep
<1>3. page = "sheet" => SheetInv'
  BY OnItsPage, SheetStep DEF ConsoleInv
<1>4. page = "import" => ImportInv'
  BY OnItsPage, ImportStep DEF ConsoleInv
<1>5. page = "register" => RegisterInv'
  BY OnItsPage, RegisterStep DEF ConsoleInv
<1>6. page = "documents" => DocumentsInv'
  BY OnItsPage, DocumentsStep DEF ConsoleInv
<1>7. page = "papers" => PapersInv'
  BY OnItsPage, PapersStep DEF ConsoleInv
<1>8. page = "employees" => Employees!PageInv' /\ Employees!OnceInv'
  <2>1. page = "employees" => /\ Employees!PageInv /\ Employees!OnceInv
                              /\ [Employees!Next]_(Employees!vars)
    BY OnItsPage DEF ConsoleInv
  <2>. QED
    BY <2>1, FormBounds, Employees!PageStep, Employees!OnceStep
<1>9. page = "clients" => Clients!PageInv'
  <2>1. page = "clients" => /\ Clients!PageInv
                            /\ [Clients!Next]_(Clients!vars)
    BY OnItsPage DEF ConsoleInv
  <2>. QED
    BY <2>1, FormBounds, Clients!PageStep
<1>10. page = "cycles" => CyclesInv'
  BY OnItsPage, CyclesStep DEF ConsoleInv
<1>. QED
  BY <1>1, <1>2, <1>3, <1>4, <1>5, <1>6, <1>7, <1>8, <1>9, <1>10 DEF ConsoleInv

LEMMA ConsoleAlways ==
  Spec => []ConsoleInv /\ [][page = "attendance" => Attendance!MonthsAreFrozen]_vars
<1>1. Init => ConsoleInv
  BY ConsoleInit
<1>2. ConsoleInv /\ [Next]_vars
        => ConsoleInv' /\ (page = "attendance" => Attendance!MonthsAreFrozen)
  BY ConsoleStep
<1>. QED
  BY <1>1, <1>2, PTL DEF Spec

-----------------------------------------------------------------------------
(* Theorems *)

\* Whichever page is open, it and the servers it writes to stay well formed.
THEOREM ConsoleTyping == Spec => []TypeOK
<1>1. ConsoleInv => TypeOK
  <2>. SUFFICES ASSUME ConsoleInv PROVE TypeOK
    OBVIOUS
  <2>1. page \in Visited /\ page \in AllPages
    BY VisitedAssumption DEF ConsoleInv
  <2>2. page = "attendance" => Attendance!TypeOK
    BY Attendance!PageIsEnough DEF ConsoleInv
  <2>3. page = "sheet" => Sheet!TypeOK
    BY SheetTypes DEF ConsoleInv
  <2>4. page = "import" => Import!TypeOK
    BY DEF ConsoleInv, ImportInv
  <2>5. page = "register" => Register!TypeOK
    BY DEF ConsoleInv, RegisterInv
  <2>6. page = "documents" => Documents!TypeOK
    BY DocumentsTypes DEF ConsoleInv
  <2>7. page = "papers" => Papers!TypeOK
    BY DEF ConsoleInv, PapersInv
  <2>8. page = "employees" => Employees!TypeOK
    BY DEF ConsoleInv, Employees!PageInv
  <2>9. page = "clients" => Clients!TypeOK
    BY DEF ConsoleInv, Clients!PageInv
  <2>10. page = "cycles" => Cycles!TypeOK
    BY DEF ConsoleInv, CyclesInv
  <2>. QED
    BY <2>1, <2>2, <2>3, <2>4, <2>5, <2>6, <2>7, <2>8, <2>9, <2>10 DEF TypeOK, AllPages
<1>. QED
  BY <1>1, ConsoleAlways, PTL

\* saveAllDirty() of the attendance page sends a grid to the month it was built
\* for, whichever months are picked before the answer (Attendance.tsx).
THEOREM GridMonthOnConsole == Spec => []GridSavesItsOwnMonth
<1>1. ConsoleInv => GridSavesItsOwnMonth
  BY Attendance!PageIsEnough DEF ConsoleInv, GridSavesItsOwnMonth
<1>. QED
  BY <1>1, ConsoleAlways, PTL

\* bulk_upsert changes no record of a month that is validated or locked.
THEOREM FrozenMonthOnConsole == Spec => SettledMonthIsFrozen
  BY ConsoleAlways, PTL DEF SettledMonthIsFrozen

\* quickTotals() of the page and _calc() of attendance-service agree on the payable
\* days of every row, for a month of any length and any number typed.
THEOREM QuickEntryAgrees == Spec => []QuickShowsStoredPayable
<1>1. ConsoleInv => QuickShowsStoredPayable
  BY SheetQuick DEF ConsoleInv, QuickShowsStoredPayable
<1>. QED
  BY <1>1, ConsoleAlways, PTL

\* summariseDays() agrees with _calc() too, on the days as they were saved and on
\* those buildGrid() lays over the month for a record without any: as many working
\* days are marked as the record says were lost.  Half days are left out, and totals
\* with losses of half days or of more days than are worked (Faithful).
THEOREM GridAgrees == Spec => []GridShowsStoredPayable
<1>1. ConsoleInv => GridShowsStoredPayable
  BY SheetGrid DEF ConsoleInv, GridShowsStoredPayable
<1>. QED
  BY <1>1, ConsoleAlways, PTL

\* An import that reports no salary error has paid everyone it made on a monthly
\* wage, whatever was taken already, refused or interrupted (BulkImport.tsx).
THEOREM EveryoneImportedIsPaid == Spec => []NobodyLeftUnpaid
<1>1. ConsoleInv => NobodyLeftUnpaid
  BY ImportPays DEF ConsoleInv, NobodyLeftUnpaid
<1>. QED
  BY <1>1, ConsoleAlways, PTL

\* No sheet, and no parse of it that answers late, has the register import send a
\* row that nobody was matched to or chosen for, or two rows of one employee.
THEOREM RegisterRowsAreMatched == Spec => []EachRowIsSomeone
<1>1. ConsoleInv => EachRowIsSomeone
  BY DEF ConsoleInv, RegisterInv, EachRowIsSomeone
<1>. QED
  BY <1>1, ConsoleAlways, PTL

\* Of any number of uploads, replacements and deletions in flight, none leaves two
\* current versions in a slot, nor a slot whose last version was retired for
\* nothing (EmployeeDocuments.tsx over the handlers of blobstore-service).
THEOREM OneVersionCurrent == Spec => []VersionsReplaceEachOther
<1>1. ConsoleInv => VersionsReplaceEachOther
  BY DocumentsKeep DEF ConsoleInv, VersionsReplaceEachOther
<1>. QED
  BY <1>1, ConsoleAlways, PTL

\* A client's document never names a file that was not stored, or that another
\* document names: the file is stored by a call that comes before the record.
THEOREM PapersAreFiled == Spec => []RecordsHaveTheirFiles
<1>1. ConsoleInv => RecordsHaveTheirFiles
  BY PapersKeep DEF ConsoleInv, RecordsHaveTheirFiles
<1>. QED
  BY <1>1, ConsoleAlways, PTL

\* Nobody is paid by a CTC typed for somebody else (openEmployee(), Employees.tsx).
THEOREM PayOnConsole == Spec => []PaidAsTyped
<1>1. ConsoleInv => PaidAsTyped
  BY DEF ConsoleInv, Employees!PageInv, PaidAsTyped
<1>. QED
  BY <1>1, ConsoleAlways, PTL

\* One form of employees makes one employee, and one more for each error it showed.
THEOREM EmployeesOnConsole == Spec => []OneSaveOneEmployee
<1>1. ConsoleInv => OneSaveOneEmployee
  BY Employees!OnceIsEnough DEF ConsoleInv, OneSaveOneEmployee
<1>. QED
  BY <1>1, ConsoleAlways, PTL

\* No client holds a portal password typed for another (ClientForm, Clients.tsx).
THEOREM SecretsOnConsole == Spec => []SecretsAsTyped
<1>1. ConsoleInv => SecretsAsTyped
  BY DEF ConsoleInv, Clients!PageInv, SecretsAsTyped
<1>. QED
  BY <1>1, ConsoleAlways, PTL

\* Whoever ran a cycle and stays on its page is not shown the results of before as
\* current, however fetches, polls and other users' runs overtake each other: the
\* invalidation cancels the fetch that would bring them (CycleDetail.tsx), unless it
\* is the first one, which TanStack Query keeps.
THEOREM OwnResultsAreNew == Spec => []OwnRunIsShown
<1>1. ConsoleInv => OwnRunIsShown
  BY CyclesShow DEF ConsoleInv, OwnRunIsShown
<1>. QED
  BY <1>1, ConsoleAlways, PTL

\* After a deletion was heard of, nothing the registers showed of the cycle before it
\* is taken for current again (the onSuccess of the deletion, Cycles.tsx), if no fetch
\* of them that nothing cancels was under way; what is read afterwards may be.
THEOREM DeletedStaysForgotten == Spec => []DeletedIsForgotten
<1>1. ConsoleInv => DeletedIsForgotten
  BY CyclesShow DEF ConsoleInv, DeletedIsForgotten
<1>. QED
  BY <1>1, ConsoleAlways, PTL

=============================================================================
