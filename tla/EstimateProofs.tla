---------------------------- MODULE EstimateProofs ----------------------------
(***************************************************************************)
(* For any missing days, workers and attempts: the ranges asked are the    *)
(* gaps, and whatever is split, retried, cancelled or asked twice, a       *)
(* returned estimate has every missing day in it once and the retries are  *)
(* bounded by the parts the ranges can be split into.                      *)
(***************************************************************************)
EXTENDS CostEstimate, TotalProofs, SequenceTheorems, TLAPS

\* The ranges of some missing days: none is empty, and each missing day is in one.
Covering(days, spans) ==
    /\ spans \in Seq(Span)
    /\ \A i \in 1..Len(spans) :
          /\ spans[i].start < spans[i].end
          /\ Days(spans[i]) \subseteq days[spans[i].key]
    /\ \A k \in Key : \A d \in days[k] :
          \E i \in 1..Len(spans) : \A n \in 1..Len(spans) :
              spans[n].key = k /\ d \in Days(spans[n]) <=> n = i

\* ... and none could be longer.
Whole(days, spans) ==
    \A i \in 1..Len(spans) :
        /\ spans[i].start - 1 \notin days[spans[i].key]
        /\ spans[i].end \notin days[spans[i].key]

-----------------------------------------------------------------------------
(* The ranges of one bucket: the gaps among its days up to `last`, in order *)

Gaps(k, days, last, spans) ==
    /\ spans \in Seq(Span)
    /\ \A i \in 1..Len(spans) :
          /\ spans[i].key = k
          /\ spans[i].start < spans[i].end /\ spans[i].end <= last + 1
          /\ Days(spans[i]) \subseteq days
          /\ spans[i].start - 1 \notin days
          /\ spans[i].end \notin days \/ spans[i].end = last + 1
    /\ \A d \in days : d <= last => \E i \in 1..Len(spans) : d \in Days(spans[i])
    /\ \A i, n \in 1..Len(spans) : i < n => spans[i].end < spans[n].start

LEMMA SpanIs ==
    /\ LastDay \in Nat
    /\ \A span \in Span : /\ span.key \in Key /\ span.start \in Nat /\ span.end \in Nat
                          /\ span = [key |-> span.key, start |-> span.start, end |-> span.end]
    /\ \A k \in Key, start \in Day, day \in Day :
          [key |-> k, start |-> start, end |-> day + 1] \in Span
<1>1. LastDay \in Nat
  BY EstimateAssumption
<1>2. \A day \in Day : day + 1 \in 2..(LastDay + 1)
  BY <1>1 DEF Day
<1>. QED
  BY <1>1, <1>2 DEF Span, Day

LEMMA WithDayFollows ==
    ASSUME NEW k \in Key, NEW spans \in Seq(Span), NEW day \in Day, Follows(spans, day)
    PROVE  /\ WithDay(k, spans, day) \in Seq(Span)
           /\ Len(WithDay(k, spans, day)) = Len(spans) /\ Len(spans) \in Nat \ {0}
           /\ \A i \in 1..(Len(spans) - 1) : WithDay(k, spans, day)[i] = spans[i]
           /\ WithDay(k, spans, day)[Len(spans)] = [spans[Len(spans)] EXCEPT !.end = day + 1]
           /\ spans[Len(spans)].end = day
<1>1. Len(spans) \in Nat \ {0} /\ spans[Len(spans)] \in Span /\ spans[Len(spans)].end = day
  BY DEF Follows, Last
<1> DEFINE span == [spans[Len(spans)] EXCEPT !.end = day + 1]
<1>2. span \in Span
  <2>1. day + 1 \in 2..(LastDay + 1)
    BY SpanIs DEF Day
  <2>. QED
    BY ONLY <1>1, <2>1 DEF Span, span
<1>3. Front(spans) \in Seq(Span) /\ Len(Front(spans)) = Len(spans) - 1
      /\ \A i \in 1..(Len(spans) - 1) : Front(spans)[i] = spans[i]
  <2>1. Len(spans) \in Nat /\ Len(spans) - 1 \in Nat /\ 1 + (Len(spans) - 1) - 1 = Len(spans) - 1
    BY <1>1
  <2>2. SubSeq(spans, 1, Len(spans) - 1) \in Seq(Span)
    BY <1>1
  <2>. QED
    BY <1>1, <2>1, <2>2 DEF Front
<1>4. WithDay(k, spans, day) = Front(spans) \o <<span>>
  BY DEF WithDay, Last
<1>5. <<span>> \in Seq(Span) /\ Len(<<span>>) = 1 /\ <<span>>[1] = span
  BY <1>2
<1> HIDE DEF span
<1>6. /\ Front(spans) \o <<span>> \in Seq(Span)
      /\ Len(Front(spans) \o <<span>>) = Len(spans)
      /\ \A i \in 1..(Len(spans) - 1) : (Front(spans) \o <<span>>)[i] = spans[i]
      /\ (Front(spans) \o <<span>>)[Len(spans)] = span
  BY <1>1, <1>3, <1>5
<1>. QED
  BY <1>1, <1>4, <1>6 DEF span

LEMMA WithDayBegins ==
    ASSUME NEW k \in Key, NEW spans \in Seq(Span), NEW day \in Day, ~ Follows(spans, day)
    PROVE  /\ WithDay(k, spans, day) \in Seq(Span)
           /\ Len(WithDay(k, spans, day)) = Len(spans) + 1
           /\ \A i \in 1..Len(spans) : WithDay(k, spans, day)[i] = spans[i]
           /\ WithDay(k, spans, day)[Len(spans) + 1] =
                 [key |-> k, start |-> day, end |-> day + 1]
           /\ spans = << >> \/ spans[Len(spans)].end # day
<1> DEFINE span == [key |-> k, start |-> day, end |-> day + 1]
<1>1. span \in Span
  BY SpanIs
<1>2. WithDay(k, spans, day) = Append(spans, span)
  BY DEF WithDay
<1> HIDE DEF span
<1>3. /\ Append(spans, span) \in Seq(Span) /\ Len(Append(spans, span)) = Len(spans) + 1
      /\ \A i \in 1..Len(spans) : Append(spans, span)[i] = spans[i]
      /\ Append(spans, span)[Len(spans) + 1] = span
  BY <1>1
<1>4. spans = << >> \/ spans[Len(spans)].end # day
  BY DEF Follows, Last
<1>. QED
  BY <1>2, <1>3, <1>4 DEF span

\* One more day.
LEMMA GapsStep ==
    ASSUME NEW k \in Key, NEW days \in SUBSET Day, NEW day \in Day,
           NEW spans, Gaps(k, days, day - 1, spans)
    PROVE  Gaps(k, days, day, IF day \in days THEN WithDay(k, spans, day) ELSE spans)
<1>0. /\ spans \in Seq(Span) /\ Len(spans) \in Nat /\ day \in Nat \ {0}
      /\ (day - 1) + 1 = day
  BY EstimateAssumption DEF Gaps, Day
<1>1. \A i \in 1..Len(spans) :
         /\ spans[i].start \in Nat /\ spans[i].end \in Nat /\ spans[i].key = k
         /\ spans[i].start < spans[i].end /\ spans[i].end <= day
         /\ Days(spans[i]) \subseteq days
         /\ spans[i].start - 1 \notin days
         /\ spans[i].end \notin days \/ spans[i].end = day
  <2>1. \A i \in 1..Len(spans) : spans[i].start \in Nat /\ spans[i].end \in Nat
    BY <1>0, SpanIs
  <2>. QED
    BY <1>0, <2>1 DEF Gaps
<1>2. \A i, n \in 1..Len(spans) : i < n => spans[i].end < spans[n].start
  BY DEF Gaps
<1>3. \A d \in days : d < day => \E i \in 1..Len(spans) : d \in Days(spans[i])
  BY <1>0, EstimateAssumption DEF Gaps, Day
<1>4. days \subseteq Nat
  BY EstimateAssumption DEF Day
<1>5. CASE day \notin days
  <2>1. \A d \in days : d <= day => d < day
    BY <1>0, <1>4, <1>5
  <2>. QED
    BY <1>0, <1>1, <1>2, <1>3, <1>5, <2>1 DEF Gaps
\* Only the last range can end where this day begins.
<1>6. ASSUME NEW i \in 1..Len(spans), spans[i].end = day
      PROVE  i = Len(spans)
  <2>1. SUFFICES ASSUME i < Len(spans) PROVE FALSE
    BY <1>0
  <2>2. Len(spans) \in 1..Len(spans)
    BY <1>0
  <2>. QED
    BY <1>1, <1>2, <1>6, <2>1, <2>2
<1>7. CASE day \in days /\ Follows(spans, day)
  <2> DEFINE s == WithDay(k, spans, day)
             len == Len(spans)
  <2>1. /\ s \in Seq(Span) /\ Len(s) = len /\ len \in Nat \ {0}
        /\ \A i \in 1..(len - 1) : s[i] = spans[i]
        /\ s[len] = [spans[len] EXCEPT !.end = day + 1] /\ spans[len].end = day
    BY <1>0, <1>7, WithDayFollows
  <2>2. spans[len] \in Span /\ len \in 1..len
    BY <1>0, <2>1
  <2>3. s[len].key = k /\ s[len].start = spans[len].start /\ s[len].end = day + 1
    BY <1>1, <2>1, <2>2 DEF Span
  <2> HIDE DEF s, len
  <2>4. Days(s[len]) = Days(spans[len]) \cup {day}
    BY <1>0, <1>1, <2>1, <2>2, <2>3 DEF Days, len
  <2>5. ASSUME NEW i \in 1..len
        PROVE  /\ s[i].key = k
               /\ s[i].start < s[i].end /\ s[i].end <= day + 1
               /\ Days(s[i]) \subseteq days
               /\ s[i].start - 1 \notin days
               /\ s[i].end \notin days \/ s[i].end = day + 1
    <3>1. CASE i = len
      <4>1. /\ spans[len].start \in Nat /\ spans[len].start < day
            /\ Days(spans[len]) \subseteq days /\ spans[len].start - 1 \notin days
        BY <1>1, <2>1, <2>2 DEF len
      <4>. QED
        BY <1>0, <1>7, <2>3, <2>4, <3>1, <4>1
    <3>2. CASE i # len
      <4>1. i \in 1..(len - 1) /\ s[i] = spans[i] /\ i \in 1..Len(spans)
        BY <2>1, <3>2 DEF len
      <4>2. spans[i].end # day
        BY <1>6, <3>2, <4>1 DEF len
      <4>. QED
        BY <1>0, <1>1, <4>1, <4>2
    <3>. QED
      BY <3>1, <3>2
  <2>6. ASSUME NEW d \in days, d <= day
        PROVE  \E i \in 1..len : d \in Days(s[i])
    <3>1. CASE d = day
      BY <2>2, <2>4, <3>1
    <3>2. CASE d < day
      <4>1. PICK i \in 1..Len(spans) : d \in Days(spans[i])
        BY <1>3, <3>2
      <4>2. d \in Days(s[i])
        BY <2>1, <2>4, <4>1 DEF len
      <4>. QED
        BY <4>1, <4>2 DEF len
    <3>. QED
      BY <1>0, <1>4, <2>6, <3>1, <3>2
  <2>7. ASSUME NEW i \in 1..len, NEW n \in 1..len, i < n
        PROVE  s[i].end < s[n].start
    <3>1. i \in 1..(len - 1) /\ s[i] = spans[i]
      BY <2>1, <2>7
    <3>2. s[n].start = spans[n].start
      <4>1. n = len \/ n \in 1..(len - 1)
        BY <2>1
      <4>. QED
        BY <2>1, <2>3, <4>1
    <3>. QED
      BY <1>2, <2>7, <3>1, <3>2 DEF len
  <2>. QED
    BY <1>7, <2>1, <2>5, <2>6, <2>7 DEF Gaps, s
<1>8. CASE day \in days /\ ~ Follows(spans, day)
  <2> DEFINE s == WithDay(k, spans, day)
             len == Len(spans)
  <2>1. /\ s \in Seq(Span) /\ Len(s) = len + 1 /\ len \in Nat
        /\ \A i \in 1..len : s[i] = spans[i]
        /\ s[len + 1].key = k /\ s[len + 1].start = day /\ s[len + 1].end = day + 1
        /\ spans = << >> \/ spans[len].end # day
    <3>1. /\ s \in Seq(Span) /\ Len(s) = len + 1
          /\ \A i \in 1..len : s[i] = spans[i]
          /\ s[len + 1] = [key |-> k, start |-> day, end |-> day + 1]
          /\ spans = << >> \/ spans[len].end # day
      BY <1>0, <1>8, WithDayBegins
    <3>. QED
      BY <1>0, <3>1
  <2> HIDE DEF s
  <2>2. \A i \in 1..len : spans[i].end < day
    <3> SUFFICES ASSUME NEW i \in 1..len PROVE spans[i].end # day
      BY <1>0, <1>1
    <3>1. spans # << >>
      OBVIOUS
    <3>. QED
      BY <1>6, <2>1, <3>1
  <2>3. day - 1 \notin days
    <3> SUFFICES ASSUME day - 1 \in days PROVE FALSE
      OBVIOUS
    <3>1. day - 1 < day
      BY <1>0
    <3>2. PICK i \in 1..len : day - 1 \in Days(spans[i])
      BY <1>3, <3>1
    <3>. QED
      BY <1>0, <1>1, <2>2, <3>2 DEF Days
  <2>4. Days(s[len + 1]) = {day}
    BY <1>0, <2>1 DEF Days
  <2>5. ASSUME NEW i \in 1..(len + 1)
        PROVE  /\ s[i].key = k
               /\ s[i].start < s[i].end /\ s[i].end <= day + 1
               /\ Days(s[i]) \subseteq days
               /\ s[i].start - 1 \notin days
               /\ s[i].end \notin days \/ s[i].end = day + 1
    <3>1. CASE i = len + 1
      BY <1>0, <1>8, <2>1, <2>3, <2>4, <3>1
    <3>2. CASE i # len + 1
      <4>1. i \in 1..len /\ s[i] = spans[i]
        BY <2>1, <3>2
      <4>. QED
        BY <1>0, <1>1, <2>2, <4>1
    <3>. QED
      BY <3>1, <3>2
  <2>6. ASSUME NEW d \in days, d <= day
        PROVE  \E i \in 1..(len + 1) : d \in Days(s[i])
    <3>1. CASE d = day
      BY <2>1, <2>4, <3>1
    <3>2. CASE d < day
      <4>1. PICK i \in 1..Len(spans) : d \in Days(spans[i])
        BY <1>3, <3>2
      <4>2. d \in Days(s[i]) /\ i \in 1..(len + 1)
        BY <2>1, <4>1
      <4>. QED
        BY <4>2
    <3>. QED
      BY <1>0, <1>4, <2>6, <3>1, <3>2
  <2>7. ASSUME NEW i \in 1..(len + 1), NEW n \in 1..(len + 1), i < n
        PROVE  s[i].end < s[n].start
    <3>1. i \in 1..len /\ s[i] = spans[i]
      BY <2>1, <2>7
    <3>2. CASE n = len + 1
      BY <2>1, <2>2, <3>1, <3>2
    <3>3. CASE n # len + 1
      <4>1. n \in 1..len /\ s[n] = spans[n]
        BY <2>1, <3>3
      <4>. QED
        BY <1>2, <2>7, <3>1, <4>1
    <3>. QED
      BY <3>2, <3>3
  <2>. QED
    BY <1>8, <2>1, <2>5, <2>6, <2>7 DEF Gaps, s
<1>. QED
  BY <1>5, <1>7, <1>8


RangeStep(k, days, f, day) ==
    IF day = 0 THEN << >>
    ELSE IF day \in days THEN WithDay(k, f[day - 1], day)
    ELSE f[day - 1]

UpTo(k, days) == CHOOSE f : f = [day \in 0..LastDay |-> RangeStep(k, days, f, day)]

LEMMA RangesOfIs == \A k, days : RangesOf(k, days) = UpTo(k, days)[LastDay]
BY DEF RangesOf, UpTo, RangeStep

LEMMA UpToIs ==
    ASSUME NEW k \in Key, NEW days
    PROVE  \A day \in 0..LastDay : UpTo(k, days)[day] = RangeStep(k, days, UpTo(k, days), day)
<1> DEFINE step == [day \in 1..LastDay |-> [spans \in Seq(Span) |->
                       IF day \in days THEN WithDay(k, spans, day) ELSE spans]]
<1>1. LastDay \in Nat
  BY SpanIs
<1>2. << >> \in Seq(Span)
  OBVIOUS
<1>3. ASSUME NEW day \in 1..LastDay, NEW spans \in Seq(Span)
      PROVE  /\ step[day][spans] \in Seq(Span)
             /\ step[day][spans] = IF day \in days THEN WithDay(k, spans, day) ELSE spans
  <2>1. WithDay(k, spans, day) \in Seq(Span)
    BY WithDayFollows, WithDayBegins DEF Day
  <2>. QED
    BY <2>1
<1> HIDE DEF step
<1>4. PICK f \in [0..LastDay -> Seq(Span)] :
          Recurs(f, LastDay, << >>, step)
  <2>1. step \in [1..LastDay -> [Seq(Span) -> Seq(Span)]]
    BY <1>3 DEF step
  <2>. QED
    BY <1>1, <1>2, <2>1, Recursion
<1>5. ASSUME NEW day \in 0..LastDay
      PROVE  f[day] = RangeStep(k, days, f, day)
  <2>1. CASE day = 0
    BY <1>4, <2>1 DEF RangeStep, Recurs
  <2>2. CASE day # 0
    <3>1. day \in 1..LastDay /\ day - 1 \in 0..LastDay
      BY <1>1, <2>2
    <3>. QED
      BY <1>3, <1>4, <2>2, <3>1 DEF RangeStep, Recurs
  <2>. QED
    BY <2>1, <2>2
<1>6. f = [day \in 0..LastDay |-> RangeStep(k, days, f, day)]
  BY <1>4, <1>5
<1>7. \E g : g = [day \in 0..LastDay |-> RangeStep(k, days, g, day)]
  BY <1>6
<1>8. UpTo(k, days) = [day \in 0..LastDay |-> RangeStep(k, days, UpTo(k, days), day)]
  BY <1>7 DEF UpTo
<1>. QED
  BY <1>8

\* The ranges of a bucket are its gaps.
LEMMA RangesAreGaps ==
    ASSUME NEW k \in Key, NEW days \in SUBSET Day
    PROVE  Gaps(k, days, LastDay, RangesOf(k, days))
<1> DEFINE Good == {day \in Nat : day <= LastDay => Gaps(k, days, day, UpTo(k, days)[day])}
<1>0. LastDay \in Nat
  BY SpanIs
<1>1. 0 \in Good
  <2>1. UpTo(k, days)[0] = << >>
    BY <1>0, UpToIs DEF RangeStep
  <2>2. << >> \in Seq(Span) /\ Len(<< >>) = 0
    OBVIOUS
  <2>3. \A d \in days : ~ (d <= 0)
    BY <1>0 DEF Day
  <2>4. Gaps(k, days, 0, << >>)
    BY <2>2, <2>3 DEF Gaps
  <2>. QED
    BY <2>1, <2>4
<1>2. ASSUME NEW n \in Nat, n \in Good
      PROVE  n + 1 \in Good
  <2> SUFFICES ASSUME n + 1 <= LastDay
               PROVE  Gaps(k, days, n + 1, UpTo(k, days)[n + 1])
    OBVIOUS
  <2> DEFINE day == n + 1
             spans == UpTo(k, days)[n]
  <2>1. day \in Day /\ day - 1 = n /\ day \in 0..LastDay /\ day # 0
    BY <1>0 DEF Day
  <2>2. Gaps(k, days, day - 1, spans)
    BY <1>2, <1>0, <2>1
  <2>3. UpTo(k, days)[day] = IF day \in days THEN WithDay(k, spans, day) ELSE spans
    BY <2>1, UpToIs DEF RangeStep
  <2> HIDE DEF day, spans
  <2>4. Gaps(k, days, day, UpTo(k, days)[day])
    BY <2>1, <2>2, <2>3, GapsStep
  <2>. QED
    BY <2>4 DEF day
<1>3. Nat \subseteq Good
  <2> HIDE DEF Good
  <2>. QED
    BY <1>1, <1>2, OnNumbers
<1>4. Gaps(k, days, LastDay, UpTo(k, days)[LastDay])
  BY <1>0, <1>3
<1>. QED
  BY <1>4, RangesOfIs

-----------------------------------------------------------------------------
(* One bucket after the other *)

FlatStep(seqs, f, i) == IF i = 1 THEN seqs[i] ELSE f[i - 1] \o seqs[i]

Flat(seqs) == CHOOSE f : f = [i \in 1..Len(seqs) |-> FlatStep(seqs, f, i)]

LEMMA FlattenIsFlat ==
    \A seqs : FlattenSeq(seqs) = IF Len(seqs) = 0 THEN seqs ELSE Flat(seqs)[Len(seqs)]
BY DEF FlattenSeq, Flat, FlatStep

LEMMA FlatIs ==
    ASSUME NEW S, NEW seqs \in Seq(Seq(S))
    PROVE  \A i \in 1..Len(seqs) : Flat(seqs)[i] = FlatStep(seqs, Flat(seqs), i)
<1> DEFINE step == [i \in 1..Len(seqs) |-> [s \in Seq(S) |-> s \o seqs[i]]]
<1>1. Len(seqs) \in Nat /\ \A i \in 1..Len(seqs) : seqs[i] \in Seq(S)
  OBVIOUS
<1>2. << >> \in Seq(S)
  OBVIOUS
<1>3. ASSUME NEW i \in 1..Len(seqs), NEW s \in Seq(S)
      PROVE  step[i][s] \in Seq(S) /\ step[i][s] = s \o seqs[i]
  <2>1. s \o seqs[i] \in Seq(S)
    BY <1>1, ConcatProperties
  <2>. QED
    BY <2>1
<1> HIDE DEF step
<1>4. PICK f \in [0..Len(seqs) -> Seq(S)] :
          Recurs(f, Len(seqs), << >>, step)
  <2>1. step \in [1..Len(seqs) -> [Seq(S) -> Seq(S)]]
    BY <1>3 DEF step
  <2>. QED
    BY <1>1, <1>2, <2>1, Recursion
<1> DEFINE g == [i \in 1..Len(seqs) |-> f[i]]
<1>5. ASSUME NEW i \in 1..Len(seqs)
      PROVE  g[i] = FlatStep(seqs, g, i)
  <2>1. i - 1 \in 0..Len(seqs)
    BY <1>1
  <2>2. g[i] = f[i - 1] \o seqs[i]
    BY <1>3, <1>4, <2>1 DEF Recurs
  <2>3. CASE i = 1
    <3>1. f[i - 1] = << >>
      BY <1>4, <2>3 DEF Recurs
    <3>2. << >> \o seqs[i] = seqs[i]
      BY <1>1, ConcatEmptySeq
    <3>. QED
      BY <2>2, <2>3, <3>1, <3>2 DEF FlatStep
  <2>4. CASE i # 1
    <3>1. i - 1 \in 1..Len(seqs)
      BY <1>1, <2>4
    <3>2. g[i - 1] = f[i - 1]
      BY <3>1
    <3>. QED
      BY <2>2, <2>4, <3>2 DEF FlatStep
  <2>. QED
    BY <2>3, <2>4
<1>6. g = [i \in 1..Len(seqs) |-> FlatStep(seqs, g, i)]
  BY <1>5
<1>7. \E h : h = [i \in 1..Len(seqs) |-> FlatStep(seqs, h, i)]
  <2> HIDE DEF g
  <2>. QED
    BY <1>6
<1>8. Flat(seqs) = [i \in 1..Len(seqs) |-> FlatStep(seqs, Flat(seqs), i)]
  BY <1>7 DEF Flat
<1>. QED
  BY <1>8


\* The ranges of the first n buckets, given the days of each.
Buckets(days, n, spans) ==
    /\ spans \in Seq(Span)
    /\ \A i \in 1..Len(spans) :
          /\ spans[i].key \in 1..n
          /\ spans[i].start < spans[i].end
          /\ Days(spans[i]) \subseteq days[spans[i].key]
          /\ spans[i].start - 1 \notin days[spans[i].key]
          /\ spans[i].end \notin days[spans[i].key]
    /\ \A k \in 1..n : \A d \in days[k] :
          \E i \in 1..Len(spans) : \A m \in 1..Len(spans) :
              spans[m].key = k /\ d \in Days(spans[m]) <=> m = i

\* A day is in one gap at most.
LEMMA GapsApart ==
    ASSUME NEW k, NEW days, NEW spans, Gaps(k, days, LastDay, spans),
           NEW i \in 1..Len(spans), NEW n \in 1..Len(spans),
           NEW d \in Days(spans[i]), d \in Days(spans[n])
    PROVE  i = n
<1>1. /\ spans[i].start \in Nat /\ spans[i].end \in Nat
      /\ spans[n].start \in Nat /\ spans[n].end \in Nat
  BY SpanIs DEF Gaps
<1>2. /\ i < n => spans[i].end < spans[n].start
      /\ n < i => spans[n].end < spans[i].start
  BY DEF Gaps
<1>3. Len(spans) \in Nat
  BY DEF Gaps
<1>. QED
  BY <1>1, <1>2, <1>3 DEF Days

LEMMA BucketsStep ==
    ASSUME NEW n \in Nat, NEW days, days[n + 1] \in SUBSET Day,
           NEW spans, Buckets(days, n, spans),
           NEW gaps, Gaps(n + 1, days[n + 1], LastDay, gaps)
    PROVE  Buckets(days, n + 1, spans \o gaps)
<1> DEFINE s == spans \o gaps
           a == Len(spans)
           b == Len(gaps)
<1>0. spans \in Seq(Span) /\ gaps \in Seq(Span) /\ a \in Nat /\ b \in Nat /\ LastDay \in Nat
  BY SpanIs DEF Buckets, Gaps
<1>1. /\ s \in Seq(Span) /\ Len(s) = a + b
      /\ \A i \in 1..a : s[i] = spans[i]
      /\ \A i \in 1..b : s[a + i] = gaps[i]
  BY <1>0
<1> HIDE DEF s
<1>2. \A i \in 1..(a + b) : i \in 1..a \/ \E m \in 1..b : i = a + m
  <2> SUFFICES ASSUME NEW i \in 1..(a + b), i \notin 1..a
               PROVE  \E m \in 1..b : i = a + m
    OBVIOUS
  <2>1. i - a \in 1..b /\ i = a + (i - a)
    BY <1>0
  <2>. QED
    BY <2>1
<1>3. ASSUME NEW i \in 1..b
      PROVE  /\ gaps[i].key = n + 1
             /\ gaps[i].start < gaps[i].end
             /\ Days(gaps[i]) \subseteq days[n + 1]
             /\ gaps[i].start - 1 \notin days[n + 1]
             /\ gaps[i].end \notin days[n + 1]
  BY <1>0 DEF Gaps, Day
<1>4. ASSUME NEW i \in 1..(a + b)
      PROVE  /\ s[i].key \in 1..(n + 1)
             /\ s[i].start < s[i].end
             /\ Days(s[i]) \subseteq days[s[i].key]
             /\ s[i].start - 1 \notin days[s[i].key]
             /\ s[i].end \notin days[s[i].key]
  <2>1. CASE i \in 1..a
    <3>1. s[i] = spans[i]
      BY <1>1, <2>1
    <3>2. spans[i].key \in 1..(n + 1)
      BY <2>1 DEF Buckets
    <3>. QED
      BY <2>1, <3>1, <3>2 DEF Buckets
  <2>2. ASSUME NEW m \in 1..b, i = a + m
        PROVE  <1>4!2
    <3>1. s[i] = gaps[m]
      BY <1>1, <2>2
    <3>2. n + 1 \in 1..(n + 1)
      OBVIOUS
    <3>. QED
      BY <1>3, <3>1, <3>2
  <2>. QED
    BY <1>2, <2>1, <2>2
<1>5. ASSUME NEW k \in 1..(n + 1), NEW d \in days[k]
      PROVE  \E i \in 1..(a + b) : \A m \in 1..(a + b) :
                 s[m].key = k /\ d \in Days(s[m]) <=> m = i
  <2>1. CASE k \in 1..n
    <3>1. PICK i \in 1..a : \A m \in 1..a : spans[m].key = k /\ d \in Days(spans[m]) <=> m = i
      BY <2>1 DEF Buckets
    <3>2. i \in 1..(a + b)
      BY <1>0
    <3>3. ASSUME NEW m \in 1..(a + b)
          PROVE  s[m].key = k /\ d \in Days(s[m]) <=> m = i
      <4>1. CASE m \in 1..a
        BY <1>1, <3>1, <4>1
      <4>2. ASSUME NEW l \in 1..b, m = a + l
            PROVE  s[m].key # k /\ m # i
        <5>0. s[m] = gaps[l] /\ gaps[l].key = n + 1
          BY <1>1, <1>3, <4>2
        <5>1. s[m].key = n + 1 /\ m > a
          BY <1>0, <4>2, <5>0
        <5>. QED
          BY <1>0, <2>1, <5>1
      <4>. QED
        BY <1>2, <4>1, <4>2
    <3>. QED
      BY <3>2, <3>3
  <2>2. CASE k = n + 1
    <3>1. d <= LastDay
      BY <1>0, <2>2 DEF Day
    <3>2. PICK l \in 1..b : d \in Days(gaps[l])
      BY <2>2, <3>1 DEF Gaps
    <3>3. a + l \in 1..(a + b)
      BY <1>0
    <3>4. ASSUME NEW m \in 1..(a + b)
          PROVE  s[m].key = k /\ d \in Days(s[m]) <=> m = a + l
      <4>1. CASE m \in 1..a
        <5>1. s[m] = spans[m] /\ spans[m].key \in 1..n
          BY <1>1, <4>1 DEF Buckets
        <5>. QED
          BY <1>0, <2>2, <4>1, <5>1
      <4>2. ASSUME NEW o \in 1..b, m = a + o
            PROVE  s[m].key = k /\ d \in Days(s[m]) <=> m = a + l
        <5>1. s[m] = gaps[o] /\ gaps[o].key = k
          BY <1>1, <1>3, <2>2, <4>2
        <5>2. d \in Days(gaps[o]) <=> o = l
          BY <3>2, GapsApart
        <5>3. m = a + l <=> o = l
          BY <1>0, <4>2
        <5>. QED
          BY <5>1, <5>2, <5>3
      <4>. QED
        BY <1>2, <4>1, <4>2
    <3>. QED
      BY <3>3, <3>4
  <2>. QED
    BY <2>1, <2>2
<1>6. Buckets(days, n + 1, s)
  <2> DEFINE len == Len(s)
  <2>1. len = a + b
    BY <1>1
  <2> HIDE DEF a, b, len
  <2>2. \A i \in 1..len :
           /\ s[i].key \in 1..(n + 1)
           /\ s[i].start < s[i].end
           /\ Days(s[i]) \subseteq days[s[i].key]
           /\ s[i].start - 1 \notin days[s[i].key]
           /\ s[i].end \notin days[s[i].key]
    BY <1>4, <2>1
  <2>3. \A k \in 1..(n + 1) : \A d \in days[k] :
           \E i \in 1..len : \A m \in 1..len :
               s[m].key = k /\ d \in Days(s[m]) <=> m = i
    <3> SUFFICES ASSUME NEW k \in 1..(n + 1), NEW d \in days[k]
                 PROVE  \E i \in 1..len : \A m \in 1..len :
                            s[m].key = k /\ d \in Days(s[m]) <=> m = i
      OBVIOUS
    <3>1. PICK i \in 1..(a + b) : \A m \in 1..(a + b) :
              s[m].key = k /\ d \in Days(s[m]) <=> m = i
      BY <1>5
    <3>. QED
      BY <2>1, <3>1
  <2>. QED
    BY <1>1, <2>2, <2>3, Zenon DEF Buckets, len
<1>. QED
  BY <1>6 DEF s

\* The ranges asked are the gaps of every bucket.
LEMMA RangesCover ==
    ASSUME NEW days \in Missing
    PROVE  Covering(days, CostRanges(days)) /\ Whole(days, CostRanges(days))
<1> DEFINE N == Cardinality(Key)
           seqs == [k \in Key |-> RangesOf(k, days[k])]
<1>1. days \in [Key -> SUBSET Day] /\ Key = 1..N /\ IsFiniteSet(Key) /\ Key # {}
  BY EstimateAssumption
<1>2. N \in Nat /\ N >= 1
  <2>1. N \in Nat
    BY <1>1, FS_CardinalityType
  <2>. QED
    BY <1>1, <2>1
<1>3. \A k \in Key : Gaps(k, days[k], LastDay, RangesOf(k, days[k]))
  BY <1>1, RangesAreGaps
<1>4. seqs \in Seq(Seq(Span)) /\ Len(seqs) = N
  <2>1. \A k \in 1..N : RangesOf(k, days[k]) \in Seq(Span)
    BY <1>1, <1>3 DEF Gaps
  <2>2. seqs = [k \in 1..N |-> RangesOf(k, days[k])]
    BY <1>1
  <2> HIDE DEF N
  <2>. QED
    BY <1>2, <2>1, <2>2
<1>5. \A k \in Key : seqs[k] = RangesOf(k, days[k])
  OBVIOUS
<1>6. CostRanges(days) = Flat(seqs)[N]
  BY <1>2, <1>4, FlattenIsFlat DEF CostRanges
<1>7. \A i \in 1..N : Flat(seqs)[i] = FlatStep(seqs, Flat(seqs), i)
  BY <1>4, FlatIs
<1> HIDE DEF N, seqs
<1> DEFINE Good == {n \in Nat : n + 1 <= N => Buckets(days, n + 1, Flat(seqs)[n + 1])}
<1>8. ASSUME NEW n \in Nat, n + 1 <= N, NEW spans, Buckets(days, n, spans)
      PROVE  Buckets(days, n + 1, spans \o seqs[n + 1])
  <2>1. n + 1 \in Key
    BY <1>1, <1>2, <1>8
  <2>2. days[n + 1] \in SUBSET Day /\ Gaps(n + 1, days[n + 1], LastDay, seqs[n + 1])
    BY <1>1, <1>3, <1>5, <2>1
  <2>. QED
    BY <1>8, <2>2, BucketsStep
<1>9. 0 \in Good
  <2>1. << >> \in Seq(Span) /\ Len(<< >>) = 0
    OBVIOUS
  <2>2. Buckets(days, 0, << >>)
    BY <2>1 DEF Buckets
  <2>3. Buckets(days, 1, << >> \o seqs[1])
    <3>1. 0 \in Nat /\ 0 + 1 <= N /\ 0 + 1 = 1
      BY <1>2
    <3>2. Buckets(days, 0 + 1, << >> \o seqs[0 + 1])
      BY ONLY <1>8, <2>2, <3>1
    <3>. QED
      BY <3>1, <3>2
  <2>4. seqs[1] \in Seq(Span)
    BY <1>2, <1>4
  <2>5. << >> \o seqs[1] = seqs[1]
    BY <2>4, ConcatEmptySeq
  <2>6. Flat(seqs)[1] = seqs[1]
    BY <1>2, <1>7 DEF FlatStep
  <2>. QED
    BY <2>3, <2>5, <2>6
<1>10. ASSUME NEW n \in Nat, n \in Good
       PROVE  n + 1 \in Good
  <2> SUFFICES ASSUME (n + 1) + 1 <= N
               PROVE  Buckets(days, (n + 1) + 1, Flat(seqs)[(n + 1) + 1])
    OBVIOUS
  <2> DEFINE spans == Flat(seqs)[n + 1]
             m == n + 1
  <2>1. Buckets(days, m, spans) /\ m \in Nat /\ m + 1 <= N
    BY <1>2, <1>10
  <2>2. m + 1 \in 1..N /\ m + 1 # 1 /\ (m + 1) - 1 = n + 1
    BY <1>2, <2>1
  <2>3. Flat(seqs)[m + 1] = spans \o seqs[m + 1]
    BY <1>7, <2>2 DEF FlatStep
  <2> HIDE DEF spans
  <2>4. Buckets(days, m + 1, spans \o seqs[m + 1])
    BY <1>8, <2>1
  <2>. QED
    BY <2>3, <2>4
<1>11. Nat \subseteq Good
  <2> HIDE DEF Good
  <2>. QED
    BY <1>9, <1>10, OnNumbers
<1>12. Buckets(days, N, CostRanges(days))
  <2>1. N - 1 \in Nat /\ (N - 1) + 1 = N
    BY <1>2
  <2>2. N - 1 \in Good
    BY <1>11, <2>1
  <2>. QED
    BY <1>2, <1>6, <2>1, <2>2
<1>. QED
  BY <1>1, <1>12 DEF Buckets, Covering, Whole

-----------------------------------------------------------------------------
(* One range *)

Sums == [Op -> [Day -> Nat]]

Work == [state : {"queued", "running"} \cup Ended, span : Span, op : Op,
         todo : Seq(Span), tries : 0..(MaxAttempts - 1), sum : Sums]

\* What is left to ask is the rest of the range, in order and without a hole; what was
\* answered before it has been added once.
Rest(span, todo) ==
    /\ Len(todo) > 0
    /\ span.start <= todo[1].start
    /\ todo[Len(todo)].end = span.end
    /\ \A n \in 1..Len(todo) : todo[n].start < todo[n].end
    /\ \A n \in 1..(Len(todo) - 1) : todo[n].end = todo[n + 1].start

Once(sum, first, end) == \A d \in Day : sum[d] = IF d \in first..(end - 1) THEN 1 ELSE 0

AtWork(j) == j.state \in {"queued", "running"}

Quoted(j) ==
    /\ AtWork(j) =>
          /\ Rest(j.span, j.todo)
          /\ Once(j.sum[j.op], j.span.start, j.todo[1].start)
          /\ j.op = "cost" => Once(j.sum["size"], j.span.start, j.span.start)
          /\ j.op = "size" => Once(j.sum["cost"], j.span.start, j.span.end)
    /\ j.state = "quoted" =>
          \A op \in Op : Once(j.sum[op], j.span.start, j.span.end)

LEMMA ZeroTyped == Zero \in Sums
BY DEF Zero, Sums

LEMMA FreshQuoted ==
    ASSUME NEW span \in Span, span.start < span.end
    PROVE  /\ Fresh(span) \in Work /\ Quoted(Fresh(span)) /\ Fresh(span).span = span
           /\ Unbegun(span) \in Work /\ Quoted(Unbegun(span)) /\ Unbegun(span).span = span
           /\ Fresh(span).state = "running" /\ Unbegun(span).state = "queued"
<1>1. <<span>> \in Seq(Span) /\ Len(<<span>>) = 1 /\ <<span>>[1] = span
  OBVIOUS
<1>2. span.start \in Day /\ span.end \in Nat
  BY EstimateAssumption DEF Span, Day
<1>3. 0 \in 0..(MaxAttempts - 1)
  BY EstimateAssumption
<1>4. Fresh(span) \in Work /\ Unbegun(span) \in Work
  BY <1>1, <1>3, ZeroTyped DEF Fresh, Unbegun, Work, Op
<1>5. Rest(span, <<span>>)
  BY <1>1, <1>2 DEF Rest, Day
<1>6. \A op \in Op : Once(Zero[op], span.start, span.start)
  BY <1>2 DEF Once, Zero, Day
<1>7. /\ Fresh(span).todo = <<span>> /\ Fresh(span).op = "cost" /\ Fresh(span).sum = Zero
      /\ Unbegun(span).todo = <<span>> /\ Unbegun(span).op = "cost" /\ Unbegun(span).sum = Zero
      /\ Fresh(span).span = span /\ Unbegun(span).span = span
      /\ Fresh(span).state = "running" /\ Unbegun(span).state = "queued"
  BY DEF Fresh, Unbegun
<1>. QED
  BY <1>1, <1>4, <1>5, <1>6, <1>7 DEF Quoted, Op

\* The answer to the first part left.
LEMMA AnswerQuotes ==
    ASSUME NEW j \in Work, j.state = "running", Quoted(j)
    PROVE  /\ Answered(j) \in Work /\ Quoted(Answered(j)) /\ Answered(j).span = j.span
           /\ Answered(j).state # "none"
<1> DEFINE head == Head(j.todo)
           sum == [j.sum EXCEPT ![j.op] =
                     [d \in Day |-> IF d \in Days(head) THEN @[d] + 1 ELSE @[d]]]
           k == [j EXCEPT !.sum = sum]
<1>0. /\ j.span \in Span /\ j.todo \in Seq(Span) /\ j.sum \in Sums /\ j.op \in Op
      /\ Rest(j.span, j.todo) /\ Len(j.todo) \in Nat \ {0}
  BY DEF Work, Quoted, AtWork, Rest
<1>1. head = j.todo[1] /\ head \in Span
  BY <1>0
<1>2. head.start \in Nat /\ head.end \in Nat /\ j.span.start \in Nat /\ j.span.end \in Nat
      /\ head.start < head.end /\ j.span.start <= head.start
  BY <1>0, <1>1 DEF Span, Day, Rest
<1>3. sum \in Sums
  BY <1>0 DEF Sums
<1>4. k \in Work /\ k.sum = sum /\ k.span = j.span /\ k.todo = j.todo /\ k.op = j.op
      /\ k.state = "running"
  BY <1>3 DEF Work
<1>5. Answered(j) = Advanced(k)
  BY DEF Answered
<1>6. Once(sum[j.op], j.span.start, head.end)
  BY <1>0, <1>1, <1>2 DEF Quoted, AtWork, Once, Days, Sums, Day
<1>7. \A op \in Op \ {j.op} : sum[op] = j.sum[op]
  BY <1>0 DEF Sums
<1>8. 0 \in 0..(MaxAttempts - 1)
  BY EstimateAssumption
<1> HIDE DEF head, sum, k
<1>9. CASE Len(j.todo) > 1
  <2> DEFINE a == [k EXCEPT !.todo = Tail(@), !.tries = 0]
  <2>1. Advanced(k) = a
    BY <1>4, <1>9 DEF Advanced
  <2>2. Tail(j.todo) \in Seq(Span) /\ Len(Tail(j.todo)) = Len(j.todo) - 1
        /\ \A n \in 1..(Len(j.todo) - 1) : Tail(j.todo)[n] = j.todo[n + 1]
    BY <1>0, <1>9
  <2>3. a \in Work /\ a.todo = Tail(j.todo) /\ a.sum = sum /\ a.span = j.span /\ a.op = j.op
        /\ a.state = "running"
    BY <1>4, <1>8, <2>2 DEF Work
  <2>4. Rest(j.span, Tail(j.todo)) /\ Tail(j.todo)[1].start = head.end
    <3>1. Tail(j.todo)[1] = j.todo[2] /\ Tail(j.todo)[Len(j.todo) - 1] = j.todo[Len(j.todo)]
      BY <1>0, <1>9, <2>2
    <3>2. j.todo[1].end = j.todo[2].start
      BY <1>0, <1>9 DEF Rest
    <3>3. j.todo[2] \in Span
      BY <1>0, <1>9
    <3>4. j.span.start <= j.todo[2].start
      BY <1>1, <1>2, <3>2
    <3>5. \A n \in 1..(Len(j.todo) - 1) : Tail(j.todo)[n].start < Tail(j.todo)[n].end
      BY <1>0, <1>9, <2>2 DEF Rest
    <3>6. \A n \in 1..(Len(j.todo) - 1 - 1) :
             Tail(j.todo)[n].end = Tail(j.todo)[n + 1].start
      BY <1>0, <1>9, <2>2 DEF Rest
    <3>. QED
      BY <1>0, <1>1, <1>9, <2>2, <3>1, <3>2, <3>4, <3>5, <3>6 DEF Rest
  <2>5. Quoted(a)
    <3>1. Once(a.sum[a.op], a.span.start, a.todo[1].start)
      BY <1>6, <2>3, <2>4
    <3>2. a.op = "cost" => Once(a.sum["size"], a.span.start, a.span.start)
      BY <1>7, <2>3 DEF Quoted, AtWork, Op
    <3>3. a.op = "size" => Once(a.sum["cost"], a.span.start, a.span.end)
      BY <1>7, <2>3 DEF Quoted, AtWork, Op
    <3>. QED
      BY <2>3, <2>4, <3>1, <3>2, <3>3 DEF Quoted
  <2>. QED
    BY <1>5, <2>1, <2>3, <2>5
<1>a. ASSUME Len(j.todo) = 1
      PROVE  head.end = j.span.end /\ j.span.start < j.span.end
  BY <1>0, <1>1, <1>2, <1>a DEF Rest
<1>10. CASE Len(j.todo) = 1 /\ j.op = "cost"
  <2> DEFINE a == [k EXCEPT !.op = "size", !.todo = <<k.span>>, !.tries = 0]
  <2>1. Advanced(k) = a
    BY <1>4, <1>10 DEF Advanced
  <2>2. <<j.span>> \in Seq(Span) /\ Len(<<j.span>>) = 1 /\ <<j.span>>[1] = j.span
    BY <1>0
  <2>3. a \in Work /\ a.todo = <<j.span>> /\ a.sum = sum /\ a.span = j.span /\ a.op = "size"
        /\ a.state = "running"
    BY <1>4, <1>8, <2>2 DEF Work, Op
  <2>4. Rest(j.span, <<j.span>>)
    BY <1>2, <1>10, <1>a, <2>2 DEF Rest
  <2>5. Once(sum["size"], j.span.start, j.span.start)
    BY <1>7, <1>10 DEF Quoted, AtWork, Op
  <2>6. Once(sum["cost"], j.span.start, j.span.end)
    BY <1>6, <1>10, <1>a
  <2>7. Quoted(a)
    BY <2>2, <2>3, <2>4, <2>5, <2>6 DEF Quoted
  <2>. QED
    BY <1>5, <2>1, <2>3, <2>7
<1>11. CASE Len(j.todo) = 1 /\ j.op = "size"
  <2> DEFINE a == [k EXCEPT !.state = "quoted", !.todo = << >>, !.tries = 0]
  <2>1. Advanced(k) = a
    BY <1>4, <1>11 DEF Advanced
  <2>2. << >> \in Seq(Span)
    OBVIOUS
  <2>3. a \in Work /\ a.sum = sum /\ a.span = j.span /\ a.state = "quoted"
    BY <1>4, <1>8, <2>2 DEF Work, Ended
  <2>4. Once(sum["size"], j.span.start, j.span.end)
    BY <1>6, <1>11, <1>a
  <2>5. Once(sum["cost"], j.span.start, j.span.end)
    BY <1>7, <1>11 DEF Quoted, AtWork, Op
  <2>6. Quoted(a)
    BY <2>3, <2>4, <2>5 DEF Quoted, AtWork, Op
  <2>. QED
    BY <1>5, <2>1, <2>3, <2>6
<1>12. \/ Len(j.todo) > 1
       \/ Len(j.todo) = 1 /\ j.op = "cost"
       \/ Len(j.todo) = 1 /\ j.op = "size"
  <2>1. Len(j.todo) > 1 \/ Len(j.todo) = 1
    <3>1. \A n \in Nat \ {0} : n > 1 \/ n = 1
      OBVIOUS
    <3>. QED
      BY <1>0, <3>1
  <2>2. j.op = "cost" \/ j.op = "size"
    BY ONLY <1>0 DEF Op
  <2>. QED
    BY ONLY <2>1, <2>2
<1>. QED
  BY <1>9, <1>10, <1>11, <1>12

\* A range of more than a day is split into two that are none of them empty.
LEMMA SplitQuotes ==
    ASSUME NEW j \in Work, j.state = "running", Quoted(j)
    PROVE  /\ SplitOrRaise(j) \in Work /\ Quoted(SplitOrRaise(j))
           /\ SplitOrRaise(j).span = j.span
<1> DEFINE head == Head(j.todo)
<1>0. /\ j.span \in Span /\ j.todo \in Seq(Span) /\ j.sum \in Sums /\ j.op \in Op
      /\ Rest(j.span, j.todo) /\ Len(j.todo) \in Nat \ {0}
  BY DEF Work, Quoted, AtWork, Rest
<1>1. head = j.todo[1] /\ head \in Span
  BY <1>0
<1>2. head.start \in Day /\ head.end \in Nat /\ head.start < head.end /\ LastDay \in Nat
      /\ head.end <= LastDay + 1
  <2>1. LastDay \in Nat
    BY EstimateAssumption
  <2>2. head.start \in Day /\ head.end \in 2..(LastDay + 1)
    BY ONLY <1>1 DEF Span
  <2>3. head.start < head.end
    BY ONLY <1>0, <1>1 DEF Rest
  <2>. QED
    BY ONLY <2>1, <2>2, <2>3
<1>3. 0 \in 0..(MaxAttempts - 1)
  BY EstimateAssumption
<1>4. Cardinality(Days(head)) = head.end - head.start
  <2>1. head.start \in Int /\ head.end - 1 \in Int /\ head.start <= head.end - 1
    BY <1>2 DEF Day
  <2>2. Cardinality(head.start..(head.end - 1)) = (head.end - 1) - head.start + 1
    BY ONLY <2>1, FS_Interval
  <2>. QED
    BY <1>2, <2>2 DEF Days, Day
<1> HIDE DEF head
<1>5. CASE Cardinality(Days(head)) <= 1
  <2> DEFINE a == [j EXCEPT !.state = "retryable", !.tries = 0]
  <2>1. SplitOrRaise(j) = a
    BY <1>5 DEF SplitOrRaise, head
  <2>2. a \in Work /\ a.state = "retryable" /\ a.span = j.span
    BY <1>3 DEF Work, Ended
  <2>. QED
    BY <2>1, <2>2 DEF Quoted, AtWork
<1>6. CASE ~(Cardinality(Days(head)) <= 1)
  <2> DEFINE mid == Midpoint(head)
             first == [head EXCEPT !.end = mid]
             second == [head EXCEPT !.start = mid]
             todo == <<first, second>> \o Tail(j.todo)
             a == [j EXCEPT !.todo = todo, !.tries = 0]
  <2>1. SplitOrRaise(j) = a
    BY <1>6 DEF SplitOrRaise, Halves, head
  <2>2. mid \in Day /\ mid \in 2..(LastDay + 1) /\ head.start < mid /\ mid < head.end
    BY <1>2, <1>4, <1>6 DEF Midpoint, Day
  <2>3. /\ first \in Span /\ first.start = head.start /\ first.end = mid
        /\ second \in Span /\ second.start = mid /\ second.end = head.end
    BY <1>1, <2>2 DEF Span
  <2> HIDE DEF mid, first, second
  <2>4. /\ Tail(j.todo) \in Seq(Span) /\ Len(Tail(j.todo)) = Len(j.todo) - 1
        /\ \A n \in 1..(Len(j.todo) - 1) : Tail(j.todo)[n] = j.todo[n + 1]
    BY <1>0
  <2>5. <<first, second>> \in Seq(Span) /\ Len(<<first, second>>) = 2
    BY <2>3
  <2>6. /\ todo \in Seq(Span) /\ Len(todo) = Len(j.todo) + 1
        /\ todo[1] = first /\ todo[2] = second
        /\ \A n \in 3..(Len(j.todo) + 1) : todo[n] = j.todo[n - 1]
    BY <1>0, <2>4, <2>5
  <2> HIDE DEF todo
  <2>7. a \in Work /\ a.todo = todo /\ a.sum = j.sum /\ a.span = j.span /\ a.op = j.op
        /\ a.state = "running"
    BY <1>3, <2>6 DEF Work
  <2>8. Rest(j.span, todo) /\ todo[1].start = j.todo[1].start
    <3>1. todo[1].start = j.todo[1].start /\ todo[1].start < todo[1].end
          /\ todo[1].end = todo[2].start /\ todo[2].start < todo[2].end
          /\ todo[2].end = j.todo[1].end
      BY <1>1, <2>2, <2>3, <2>6
    <3>a. /\ \A n \in 1..Len(j.todo) : j.todo[n].start < j.todo[n].end
          /\ \A n \in 1..(Len(j.todo) - 1) : j.todo[n].end = j.todo[n + 1].start
      BY <1>0 DEF Rest
    <3>2. ASSUME NEW n \in 1..Len(todo)
          PROVE  todo[n].start < todo[n].end
      <4>1. CASE n \in {1, 2}
        BY <3>1, <4>1
      <4>2. CASE n \in 3..(Len(j.todo) + 1)
        <5>1. n - 1 \in 1..Len(j.todo) /\ todo[n] = j.todo[n - 1]
          BY <1>0, <2>6, <4>2
        <5>. QED
          BY <3>a, <5>1
      <4>. QED
        BY <1>0, <2>6, <4>1, <4>2
    <3>3. ASSUME NEW n \in 1..(Len(todo) - 1)
          PROVE  todo[n].end = todo[n + 1].start
      <4>1. CASE n = 1
        BY <3>1, <4>1
      <4>2. CASE n = 2
        <5>1. 3 \in 3..(Len(j.todo) + 1) /\ 1 \in 1..(Len(j.todo) - 1)
          BY <1>0, <2>6, <4>2
        <5>2. todo[3] = j.todo[2]
          BY <2>6, <5>1
        <5>. QED
          BY <3>1, <3>a, <4>2, <5>1, <5>2
      <4>3. CASE n \in 3..Len(j.todo)
        <5>1. /\ n - 1 \in 1..(Len(j.todo) - 1) /\ (n - 1) + 1 = (n + 1) - 1
              /\ n \in 3..(Len(j.todo) + 1) /\ n + 1 \in 3..(Len(j.todo) + 1)
          BY <1>0, <4>3
        <5>2. todo[n] = j.todo[n - 1] /\ todo[n + 1] = j.todo[(n + 1) - 1]
          BY <2>6, <5>1
        <5>. QED
          BY <3>a, <5>1, <5>2
      <4>. QED
        BY <1>0, <2>6, <4>1, <4>2, <4>3
    <3>4. todo[Len(todo)].end = j.todo[Len(j.todo)].end
      BY <1>0, <2>6, <3>1
    <3>. QED
      BY <1>0, <2>6, <3>1, <3>2, <3>3, <3>4 DEF Rest
  <2>9. Quoted(a)
    BY <2>7, <2>8 DEF Quoted, AtWork
  <2>. QED
    BY <2>1, <2>7, <2>9
<1>. QED
  BY <1>5, <1>6

\* Whatever comes of a request.
LEMMA AskQuotes ==
    ASSUME NEW j \in Work, j.state = "running", Quoted(j), NEW answer \in Ask(j)
    PROVE  /\ answer[1] \in Work /\ Quoted(answer[1]) /\ answer[1].span = j.span
           /\ answer[2] \in BOOLEAN
<1>1. CASE answer = <<Answered(j), FALSE>>
  BY <1>1, AnswerQuotes
<1>2. CASE answer = <<[j EXCEPT !.state = "fatal"], FALSE>>
  BY <1>2 DEF Work, Ended, Quoted, AtWork
<1>3. CASE MayRetry(j) /\ answer = <<[j EXCEPT !.tries = @ + 1], TRUE>>
  <2>1. j.tries + 1 \in 0..(MaxAttempts - 1)
    BY <1>3, EstimateAssumption DEF MayRetry, Work
  <2>2. [j EXCEPT !.tries = @ + 1] \in Work
    BY <2>1 DEF Work
  <2>3. Quoted([j EXCEPT !.tries = @ + 1])
    BY DEF Quoted, AtWork, Work
  <2>. QED
    BY <1>3, <2>2, <2>3 DEF Work
<1>4. CASE answer = <<SplitOrRaise(j), FALSE>>
  BY <1>4, SplitQuotes
<1>. QED
  BY <1>1, <1>2, <1>3, <1>4 DEF Ask

-----------------------------------------------------------------------------
(* Types *)

MainOK ==
    /\ pc \in {"ready", "pool", "drain", "settle", "serial", "done"}
    /\ why \in {"none", "retryable", "fatal", "interrupted"}
    /\ result \in {"none", "ok", "retryable", "fatal", "interrupted", "exit"}
    /\ pc # "done" => result = "none"

\* A future is of its range, and the days it counts are those it has the answer for.
JobOK(j, span) == j = NoJob \/ (j \in Work /\ Quoted(j) /\ j.span = span)

WorkOK ==
    /\ missing \in Missing /\ Covering(missing, ranges)
    /\ next \in 1..(Len(ranges) + 1)
    /\ job \in [Index -> {NoJob} \cup Work]
    /\ \A i \in Index : JobOK(job[i], ranges[i])
    /\ turn = NoJob \/ (next > 1 /\ JobOK(turn, ranges[next - 1]))
    /\ batch \subseteq Index
    /\ estimate \in [Key -> Sums] /\ retries \in [Op -> Nat]

\* Where the main thread is: what it has not submitted is untouched, what it is about to
\* collect has ended, and it asks itself only when the pool does not.
StageOK ==
    /\ pc = "ready" => next = 1 /\ batch = {}
    /\ pc \in {"ready", "pool"} => \A i \in Index : i >= next => job[i] = NoJob
    /\ pc = "pool" => batch \subseteq JobsIn(Ended)
    /\ pc \in {"ready", "pool", "drain", "settle"} => turn = NoJob

Typed == MainOK /\ WorkOK /\ StageOK

LEMMA JobTypes ==
    ASSUME NEW j \in {NoJob} \cup Work
    PROVE  /\ j.state \in Ended \cup {"none", "queued", "running"}
           /\ j.state = "none" <=> j = NoJob
           /\ j.sum \in Sums
BY ZeroTyped DEF NoJob, Work, Ended

LEMMA TypesFollow == Typed => TypeOK
<1> SUFFICES ASSUME Typed PROVE TypeOK
  OBVIOUS
<1>1. ASSUME NEW j \in Jobs
      PROVE  /\ j.state \in Ended \cup {"none", "queued", "running"}
             /\ j.sum \in [Op -> [Day -> Nat]]
             /\ j.state # "none" => /\ j.span \in Span /\ j.op \in Op
                                    /\ j.todo \in Seq(Span) /\ j.tries \in 0..(MaxAttempts - 1)
  <2>1. j \in {NoJob} \cup Work
    BY <1>1 DEF Jobs, Typed, WorkOK, JobOK
  <2>. QED
    BY <2>1, JobTypes DEF Work, Sums
<1>. QED
  BY <1>1 DEF Typed, MainOK, WorkOK, TypeOK, Covering, Sums

LEMMA NobodyTyped == Nobody \in [Key -> Sums]
BY ZeroTyped DEF Nobody

LEMMA TypedInit == Init => Typed
<1> SUFFICES ASSUME Init PROVE Typed
  OBVIOUS
<1>1. Covering(missing, ranges)
  BY RangesCover DEF Init
<1>2. next = 1 /\ Len(ranges) \in Nat
  BY <1>1 DEF Init, Covering
<1>3. MainOK
  BY DEF Init, MainOK
<1>4. job = [i \in Index |-> NoJob] /\ retries = [op \in Op |-> 0]
  BY DEF Init
<1>5. WorkOK
  BY <1>1, <1>2, <1>4, NobodyTyped DEF Init, WorkOK, JobOK
<1>6. StageOK
  BY <1>2, <1>4 DEF Init, StageOK
<1>. QED
  BY <1>3, <1>5, <1>6 DEF Typed

LEMMA MainStep ==
    ASSUME Typed, [Next]_vars
    PROVE  MainOK'
<1>0. MainOK /\ WorkOK /\ StageOK
  BY DEF Typed
<1>a. \A i \in Index : job[i].state \in Ended \cup {"none", "queued", "running"}
  BY <1>0, JobTypes DEF WorkOK
<1>b. \A i \in batch : pc = "pool" => job[i].state \in Ended
  BY <1>0 DEF StageOK, JobsIn
<1>c. turn.state \in Ended \cup {"none", "queued", "running"}
  BY <1>0, JobTypes DEF WorkOK, JobOK
<1> USE DEF MainOK, Done
<1>1. CASE Start \/ Submit \/ WaitReturns \/ PoolReturns \/ Drained \/ Settled
  BY <1>0, <1>1 DEF Start, Submit, WaitReturns, PoolReturns, Drained, Settled
<1>2. CASE SerialNext \/ SerialAsk \/ SerialAdd \/ SerialReturns
  BY <1>0, <1>2 DEF SerialNext, SerialAsk, SerialAdd, SerialReturns
<1>3. ASSUME NEW i \in Index, Collect(i)
      PROVE  MainOK'
  BY <1>0, <1>b, <1>3 DEF Collect, Ended
<1>4. CASE Signal
  BY <1>0, <1>4 DEF Signal, InterruptPool, Interrupt, Exit
<1>5. ASSUME NEW i \in Index, Begin(i) \/ PoolAsk(i)
      PROVE  MainOK'
  BY <1>0, <1>5 DEF Begin, PoolAsk
<1>6. CASE Quiet \/ UNCHANGED vars
  BY <1>0, <1>6 DEF Quiet, vars
<1>. QED
  BY <1>1, <1>2, <1>3, <1>4, <1>5, <1>6 DEF Next, Main

\* What _add_estimate adds.
LEMMA AddedIs ==
    ASSUME estimate \in [Key -> Sums], NEW span \in Span, NEW sum \in Sums
    PROVE  /\ Added(span, sum) \in [Key -> Sums]
           /\ \A k \in Key, op \in Op, d \in Day :
                 Added(span, sum)[k][op][d] =
                     IF k = span.key THEN estimate[k][op][d] + sum[op][d] ELSE estimate[k][op][d]
<1>1. span.key \in Key
  BY DEF Span
<1>2. \A k \in Key, op \in Op, d \in Day : estimate[k][op][d] \in Nat /\ sum[op][d] \in Nat
  BY DEF Sums
<1>3. [op \in Op |-> [d \in Day |-> estimate[span.key][op][d] + sum[op][d]]] \in Sums
  BY <1>1, <1>2 DEF Sums
<1>. QED
  BY <1>1, <1>2, <1>3 DEF Added

LEMMA WithoutQueuedIs ==
    ASSUME NEW jobs, DOMAIN jobs = Index, NEW i \in Index
    PROVE  WithoutQueued(jobs)[i] = jobs[i] \/ WithoutQueued(jobs)[i] = NoJob
BY DEF WithoutQueued

\* A range of the list.
LEMMA RangeFacts ==
    ASSUME WorkOK, NEW i \in Index
    PROVE  /\ ranges[i] \in Span /\ ranges[i].start < ranges[i].end
           /\ Days(ranges[i]) \subseteq missing[ranges[i].key]
<1>1. ranges \in Seq(Span) /\ i \in 1..Len(ranges)
  BY DEF WorkOK, Covering, Index
<1>2. ranges[i] \in Span
  BY <1>1
<1>. QED
  BY <1>1, <1>2 DEF WorkOK, Covering

\* The futures change by becoming nothing, or by what happens to one of them.
JobsShrink ==
    /\ job' \in [Index -> {NoJob} \cup Work]
    /\ \A i \in Index : job'[i] = job[i] \/ job'[i] = NoJob

LEMMA JobsStep ==
    ASSUME Typed, [Next]_vars
    PROVE  \/ job' = job
           \/ pc # "ready" /\ JobsShrink
           \/ Submit
           \/ \E i \in Index : Begin(i) \/ PoolAsk(i)
<1>0. WorkOK
  BY DEF Typed
<1>1. job \in [Index -> {NoJob} \cup Work] /\ DOMAIN job = Index
  BY <1>0 DEF WorkOK
<1>2. ASSUME NEW i \in Index, job' = [job EXCEPT ![i] = NoJob]
      PROVE  JobsShrink
  BY <1>1, <1>2 DEF JobsShrink
<1>3. ASSUME NEW i \in Index, job' = WithoutQueued([job EXCEPT ![i] = NoJob])
      PROVE  JobsShrink
  BY <1>1, <1>3 DEF JobsShrink, WithoutQueued
<1>4. ASSUME job' = WithoutQueued(job)
      PROVE  JobsShrink
  BY <1>1, <1>4 DEF JobsShrink, WithoutQueued
<1>5. ASSUME job' = [i \in DOMAIN job |-> NoJob]
      PROVE  JobsShrink
  BY <1>1, <1>5 DEF JobsShrink
<1>6. batch \subseteq Index
  BY <1>0 DEF WorkOK
<1>7. CASE Start \/ WaitReturns \/ PoolReturns \/ Drained \/ Settled
  BY <1>7 DEF Start, WaitReturns, PoolReturns, Drained, Settled
<1>8. CASE SerialNext \/ SerialAsk \/ SerialAdd \/ SerialReturns
  BY <1>8 DEF SerialNext, SerialAsk, SerialAdd, SerialReturns
<1>9. ASSUME NEW i \in Index, Collect(i)
      PROVE  pc # "ready" /\ JobsShrink
  BY <1>2, <1>3, <1>9 DEF Collect, Collected
<1>10. CASE InterruptPool
  BY <1>3, <1>6, <1>10 DEF InterruptPool
<1>11. CASE Interrupt
  BY <1>4, <1>11 DEF Interrupt
<1>12. CASE Exit
  BY <1>5, <1>12 DEF Exit
<1>13. CASE Quiet \/ UNCHANGED vars
  BY <1>13 DEF Quiet, vars
<1>. QED
  BY <1>7, <1>8, <1>9, <1>10, <1>11, <1>12, <1>13 DEF Next, Main, Signal

\* A request of a future, of the pool's or of the serial loop.
LEMMA AskTyped ==
    ASSUME NEW j, NEW span, JobOK(j, span), j.state = "running", NEW answer \in Ask(j),
           retries \in [Op -> Nat], Recorded(j, answer[2])
    PROVE  /\ answer[1] \in Work /\ JobOK(answer[1], span)
           /\ retries' \in [Op -> Nat]
<1>1. j \in Work /\ Quoted(j) /\ j.span = span
  BY DEF JobOK, NoJob
<1>2. answer[1] \in Work /\ Quoted(answer[1]) /\ answer[1].span = span /\ answer[2] \in BOOLEAN
  BY <1>1, AskQuotes
<1>3. j.op \in Op
  BY <1>1 DEF Work
<1>. QED
  BY <1>2, <1>3 DEF JobOK, Recorded

LEMMA WorkStep ==
    ASSUME Typed, [Next]_vars
    PROVE  WorkOK'
<1>0. MainOK /\ WorkOK /\ StageOK
  BY DEF Typed
<1>1. UNCHANGED <<missing, ranges>>
  BY DEF Next, Main, Signal, Start, Submit, WaitReturns, PoolReturns, Drained, Settled, SerialNext,
         SerialAsk, SerialAdd, SerialReturns, Collect, InterruptPool, Interrupt, Exit, Begin,
         PoolAsk, Quiet, vars, found
<1>2. Len(ranges) \in Nat /\ ranges' = ranges /\ Index' = Index
  BY <1>0, <1>1 DEF WorkOK, Covering, Index
<1>3. missing' \in Missing /\ Covering(missing, ranges)'
  BY <1>0, <1>1 DEF WorkOK, Covering
<1>4. next' \in 1..(Len(ranges) + 1)
  <2>1. next' = next \/ next' = 1 \/ (next <= Len(ranges) /\ next' = next + 1)
    <3>1. CASE Main
      BY <3>1 DEF Main, Start, Submit, CanSubmit, WaitReturns, PoolReturns, Drained, Settled,
                  SerialNext, SerialAsk, SerialAdd, SerialReturns, Collect
    <3>2. CASE Signal \/ (\E i \in Index : Begin(i) \/ PoolAsk(i)) \/ Quiet \/ UNCHANGED vars
      BY <3>2 DEF Signal, InterruptPool, Interrupt, Exit, Begin, PoolAsk, Quiet, vars
    <3>. QED
      BY <3>1, <3>2 DEF Next
  <2>2. next \in 1..(Len(ranges) + 1)
    BY <1>0 DEF WorkOK
  <2>. QED
    BY <1>2, <2>1, <2>2
<1>5. batch' \subseteq Index
  <2>1. batch' \subseteq batch \/ batch' \subseteq JobsIn(Ended)
    BY DEF Next, Main, Signal, Start, Submit, WaitReturns, PoolReturns, Drained, Settled,
           SerialNext, SerialAsk, SerialAdd, SerialReturns, Collect, InterruptPool, Interrupt, Exit,
           Begin, PoolAsk, Quiet, vars
  <2>2. DOMAIN job = Index /\ batch \subseteq Index
    BY <1>0 DEF WorkOK
  <2>. QED
    BY <2>1, <2>2 DEF JobsIn
<1>6. estimate' \in [Key -> Sums]
  <2>1. CASE estimate' = estimate \/ estimate' = Nobody
    BY <1>0, <2>1, NobodyTyped DEF WorkOK
  <2>2. ASSUME NEW j \in {NoJob} \cup Work, j.state = "quoted", estimate' = Added(j.span, j.sum)
        PROVE  estimate' \in [Key -> Sums]
    <3>1. j.span \in Span /\ j.sum \in Sums
      BY <2>2, JobTypes DEF Work, NoJob
    <3>. QED
      BY <1>0, <2>2, <3>1, AddedIs DEF WorkOK
  <2>3. turn \in {NoJob} \cup Work /\ \A i \in Index : job[i] \in {NoJob} \cup Work
    BY <1>0 DEF WorkOK, JobOK
  <2>4. \/ estimate' = estimate \/ estimate' = Nobody
        \/ turn.state = "quoted" /\ estimate' = Added(turn.span, turn.sum)
        \/ \E i \in Index : job[i].state = "quoted" /\ estimate' = Added(job[i].span, job[i].sum)
    <3>1. CASE Main
      BY <3>1 DEF Main, Start, Submit, WaitReturns, PoolReturns, Drained, Settled, SerialNext,
                  SerialAsk, SerialAdd, SerialReturns, Collect, Cleared
    <3>2. CASE Signal \/ (\E i \in Index : Begin(i) \/ PoolAsk(i)) \/ Quiet \/ UNCHANGED vars
      BY <3>2 DEF Signal, InterruptPool, Interrupt, Exit, Begin, PoolAsk, Quiet, vars
    <3>. QED
      BY <3>1, <3>2 DEF Next
  <2>. QED
    BY <2>1, <2>2, <2>3, <2>4
<1>7. /\ job' \in [Index -> {NoJob} \cup Work]
      /\ \A i \in Index : JobOK(job'[i], ranges[i])
  <2>1. CASE job' = job \/ JobsShrink
    BY <1>0, <2>1 DEF WorkOK, JobsShrink, JobOK
  <2>2. CASE Submit
    <3>1. next \in Index
      BY <1>0, <1>2, <2>2 DEF Submit, CanSubmit, WorkOK, Index
    <3>2. Unbegun(ranges[next]) \in Work /\ JobOK(Unbegun(ranges[next]), ranges[next])
      BY <1>0, <3>1, RangeFacts, FreshQuoted DEF JobOK
    <3>. QED
      BY <1>0, <2>2, <3>1, <3>2 DEF Submit, WorkOK
  <2>3. ASSUME NEW i \in Index, Begin(i)
        PROVE  /\ job' \in [Index -> {NoJob} \cup Work]
               /\ \A n \in Index : JobOK(job'[n], ranges[n])
    <3>1. job[i] \in Work /\ Quoted(job[i]) /\ job[i].span = ranges[i] /\ job[i].state = "queued"
      BY <1>0, <2>3, JobTypes DEF Begin, WorkOK, JobOK, NoJob
    <3>2. [job[i] EXCEPT !.state = "running"] \in Work
      BY <3>1 DEF Work
    <3>3. JobOK([job[i] EXCEPT !.state = "running"], ranges[i])
      BY <3>1, <3>2 DEF JobOK, Quoted, AtWork, Work
    <3>. QED
      BY <1>0, <2>3, <3>2, <3>3 DEF Begin, WorkOK
  <2>4. ASSUME NEW i \in Index, PoolAsk(i)
        PROVE  /\ job' \in [Index -> {NoJob} \cup Work]
               /\ \A n \in Index : JobOK(job'[n], ranges[n])
    <3>1. PICK answer \in Ask(job[i]) :
              job' = [job EXCEPT ![i] = answer[1]] /\ Recorded(job[i], answer[2])
      BY <2>4 DEF PoolAsk
    <3>2. answer[1] \in Work /\ JobOK(answer[1], ranges[i])
      BY <1>0, <2>4, <3>1, AskTyped DEF PoolAsk, WorkOK
    <3>. QED
      BY <1>0, <3>1, <3>2 DEF WorkOK
  <2>. QED
    BY <2>1, <2>2, <2>3, <2>4, JobsStep
<1>8. turn' = NoJob \/ (next' > 1 /\ JobOK(turn', ranges[next' - 1]))
  <2>1. CASE turn' = NoJob \/ UNCHANGED <<turn, next>>
    BY <1>0, <2>1 DEF WorkOK
  <2>2. CASE SerialNext
    <3>1. next \in Index /\ next' = next + 1 /\ turn' = Fresh(ranges[next])
      BY <1>0, <1>2, <2>2 DEF SerialNext, WorkOK, Index
    <3>2. JobOK(turn', ranges[next])
      BY <1>0, <3>1, RangeFacts, FreshQuoted DEF JobOK
    <3>3. next' > 1 /\ next' - 1 = next
      BY <3>1 DEF Index
    <3>. QED
      BY <3>2, <3>3
  <2>3. CASE SerialAsk
    <3>1. PICK answer \in Ask(turn) : turn' = answer[1] /\ Recorded(turn, answer[2])
      BY <2>3 DEF SerialAsk
    <3>2. turn.state = "running" /\ next' = next
      BY <2>3 DEF SerialAsk
    <3>3. next > 1 /\ JobOK(turn, ranges[next - 1])
      BY <1>0, <3>2 DEF WorkOK, NoJob
    <3>4. JobOK(turn', ranges[next - 1])
      BY <1>0, <3>1, <3>2, <3>3, AskTyped DEF WorkOK
    <3>. QED
      BY <3>2, <3>3, <3>4
  <2>4. CASE Submit \/ Drained
    <3>1. turn' = turn /\ pc \in {"pool", "drain"}
      BY <2>4 DEF Submit, Drained
    <3>. QED
      BY <1>0, <3>1 DEF StageOK
  <2>5. \/ turn' = NoJob \/ UNCHANGED <<turn, next>>
        \/ SerialNext \/ SerialAsk \/ Submit \/ Drained
    <3>1. CASE Main
      BY <3>1 DEF Main, Start, WaitReturns, PoolReturns, Settled, SerialAdd, SerialReturns, Collect
    <3>2. CASE Signal \/ (\E i \in Index : Begin(i) \/ PoolAsk(i)) \/ Quiet \/ UNCHANGED vars
      BY <3>2 DEF Signal, InterruptPool, Interrupt, Exit, Begin, PoolAsk, Quiet, vars
    <3>. QED
      BY <3>1, <3>2 DEF Next
  <2>. QED
    BY <2>1, <2>2, <2>3, <2>4, <2>5
<1>9. retries' \in [Op -> Nat]
  <2>1. CASE retries' = retries
    BY <1>0, <2>1 DEF WorkOK
  <2>2. CASE SerialAsk
    <3>1. PICK answer \in Ask(turn) : turn' = answer[1] /\ Recorded(turn, answer[2])
      BY <2>2 DEF SerialAsk
    <3>2. turn.state = "running" /\ JobOK(turn, ranges[next - 1])
      BY <1>0, <2>2 DEF SerialAsk, WorkOK, NoJob
    <3>. QED
      BY <1>0, <3>1, <3>2, AskTyped DEF WorkOK
  <2>3. ASSUME NEW i \in Index, PoolAsk(i)
        PROVE  retries' \in [Op -> Nat]
    <3>1. PICK answer \in Ask(job[i]) :
              job' = [job EXCEPT ![i] = answer[1]] /\ Recorded(job[i], answer[2])
      BY <2>3 DEF PoolAsk
    <3>. QED
      BY <1>0, <2>3, <3>1, AskTyped DEF PoolAsk, WorkOK
  <2>4. retries' = retries \/ SerialAsk \/ \E i \in Index : PoolAsk(i)
    <3>1. CASE Main
      BY <3>1 DEF Main, Start, Submit, WaitReturns, PoolReturns, Drained, Settled, SerialNext,
                  SerialAdd, SerialReturns, Collect
    <3>2. CASE Signal \/ (\E i \in Index : Begin(i) \/ PoolAsk(i)) \/ Quiet \/ UNCHANGED vars
      BY <3>2 DEF Signal, InterruptPool, Interrupt, Exit, Begin, Quiet, vars
    <3>. QED
      BY <3>1, <3>2 DEF Next
  <2>. QED
    BY <2>1, <2>2, <2>3, <2>4
<1>. QED
  BY <1>2, <1>3, <1>4, <1>5, <1>6, <1>7, <1>8, <1>9 DEF WorkOK

LEMMA StageStep ==
    ASSUME Typed, [Next]_vars
    PROVE  StageOK'
<1>0. MainOK /\ WorkOK /\ StageOK
  BY DEF Typed
<1>1. job \in [Index -> {NoJob} \cup Work] /\ DOMAIN job = Index /\ next \in Nat
  BY <1>0 DEF WorkOK, Covering
<1>2. Index' = Index
  BY DEF Next, Main, Signal, Start, Submit, WaitReturns, PoolReturns, Drained, Settled, SerialNext,
         SerialAsk, SerialAdd, SerialReturns, Collect, InterruptPool, Interrupt, Exit, Begin,
         PoolAsk, Quiet, vars, found, Index
<1>3. ASSUME NEW i \in Index, Begin(i) \/ PoolAsk(i)
      PROVE  StageOK'
  <2>1. UNCHANGED <<pc, next, turn, batch>> /\ \A n \in Index \ {i} : job'[n] = job[n]
    BY <1>1, <1>3 DEF Begin, PoolAsk
  <2>2. job[i].state \in {"queued", "running"} /\ job[i] # NoJob
    BY <1>3 DEF Begin, PoolAsk, NoJob
  <2>3. pc = "pool" => i \notin batch
    BY <1>0, <2>2 DEF StageOK, JobsIn, Ended
  <2>4. WorkOK'
    BY WorkStep
  <2>5. DOMAIN job' = Index
    BY <1>2, <2>4 DEF WorkOK
  <2>. QED
    BY <1>0, <1>1, <1>2, <2>1, <2>2, <2>3, <2>5 DEF StageOK, JobsIn
<1>4. CASE Submit
  <2>1. pc = "pool" /\ pc' = "pool" /\ UNCHANGED <<batch, turn>> /\ next' = next + 1
    BY <1>4 DEF Submit
  <2>2. \A n \in Index \ {next} : job'[n] = job[n]
    BY <1>1, <1>4 DEF Submit
  <2>3. next \notin batch
    BY <1>0, <2>1 DEF StageOK, WorkOK, JobsIn, NoJob, Ended
  <2>4. DOMAIN job' = Index
    BY <1>1, <1>4 DEF Submit
  <2>. QED
    BY <1>0, <1>1, <1>2, <2>1, <2>2, <2>3, <2>4 DEF StageOK, JobsIn, Index
<1>5. ASSUME NEW i \in Index, Collect(i)
      PROVE  StageOK'
  <2>1. pc = "pool" /\ UNCHANGED <<next, turn>> /\ pc' \in {"pool", "drain"}
    BY <1>5 DEF Collect
  <2>2. pc' = "pool" => job' = [job EXCEPT ![i] = NoJob] /\ batch' = batch \ {i}
    BY <1>5 DEF Collect, Collected
  <2>. QED
    BY <1>0, <1>1, <1>2, <2>1, <2>2 DEF StageOK, JobsIn
<1>6. CASE Start \/ WaitReturns \/ PoolReturns \/ Drained \/ Settled
  BY <1>0, <1>2, <1>6 DEF Start, WaitReturns, PoolReturns, Drained, Settled, Done, StageOK, JobsIn
<1>7. CASE SerialNext \/ SerialAsk \/ SerialAdd \/ SerialReturns
  BY <1>7 DEF SerialNext, SerialAsk, SerialAdd, SerialReturns, Done, StageOK
<1>8. CASE Signal
  BY <1>0, <1>8 DEF Signal, InterruptPool, Interrupt, Exit, Done, StageOK
<1>9. CASE Quiet \/ UNCHANGED vars
  BY <1>0, <1>2, <1>9 DEF Quiet, vars, StageOK, JobsIn
<1>. QED
  BY <1>3, <1>4, <1>5, <1>6, <1>7, <1>8, <1>9 DEF Next, Main

LEMMA TypedStep == Typed /\ [Next]_vars => Typed'
BY MainStep, WorkStep, StageStep DEF Typed

\* The main thread, the futures and the estimate keep their types, whatever days are
\* missing.
THEOREM TypesCorrect == Spec => []TypeOK
<1>1. Init => Typed
  BY TypedInit
<1>. QED
  BY <1>1, TypedStep, TypesFollow, PTL DEF Spec

-----------------------------------------------------------------------------
(* Every day once *)

\* The range has been added, for good or until everything is asked again.
Counted(i) ==
    /\ i < next
    /\ pc = "pool" => job[i] = NoJob
    /\ pc = "serial" => turn = NoJob \/ i # next - 1

\* Before the last word, the estimate has the days of the counted ranges once.
TallyInv ==
    pc \in {"ready", "pool", "serial"} =>
        /\ \A i \in Index : \A op \in Op, d \in Days(ranges[i]) :
              estimate[ranges[i].key][op][d] = IF Counted(i) THEN 1 ELSE 0
        /\ \A k \in Key : \A op \in Op, d \in Day \ missing[k] : estimate[k][op][d] = 0

LEMMA DaysAreDays ==
    ASSUME WorkOK, NEW i \in Index
    PROVE  Days(ranges[i]) \subseteq Day /\ ranges[i].key \in Key
<1>1. ranges[i] \in Span
  BY RangeFacts
<1>. QED
  BY <1>1, EstimateAssumption DEF Span, Days, Day

\* A day of a bucket is in one range at most.
LEMMA RangesApart ==
    ASSUME WorkOK, NEW i \in Index, NEW n \in Index,
           ranges[i].key = ranges[n].key, NEW d \in Days(ranges[i]), d \in Days(ranges[n])
    PROVE  i = n
<1>1. d \in missing[ranges[i].key] /\ ranges[i].key \in Key
  BY RangeFacts, DaysAreDays
<1>. QED
  BY <1>1 DEF WorkOK, Covering, Index

\* Adding a quote counts its range, and nothing else.
LEMMA QuoteCounts ==
    ASSUME WorkOK, TallyInv, pc \in {"pool", "serial"}, NEW i \in Index, ~Counted(i),
           NEW j, JobOK(j, ranges[i]), j.state = "quoted"
    PROVE  LET e == Added(j.span, j.sum)
           IN  /\ \A op \in Op, d \in Days(ranges[i]) : e[ranges[i].key][op][d] = 1
               /\ \A n \in Index \ {i} : \A op \in Op, d \in Days(ranges[n]) :
                     e[ranges[n].key][op][d] = estimate[ranges[n].key][op][d]
               /\ \A k \in Key : \A op \in Op, d \in Day \ missing[k] : e[k][op][d] = 0
<1>1. j \in Work /\ Quoted(j) /\ j.span = ranges[i] /\ j.sum \in Sums
  BY DEF JobOK, NoJob, Work
<1>2. \A op \in Op, d \in Day : j.sum[op][d] = IF d \in Days(ranges[i]) THEN 1 ELSE 0
  BY <1>1 DEF Quoted, Once, Days
<1>3. ranges[i] \in Span /\ estimate \in [Key -> Sums]
  BY RangeFacts DEF WorkOK
<1> DEFINE e == Added(j.span, j.sum)
<1>4. \A k \in Key, op \in Op, d \in Day :
         e[k][op][d] = IF k = ranges[i].key THEN estimate[k][op][d] + j.sum[op][d]
                       ELSE estimate[k][op][d]
  BY <1>1, <1>3, AddedIs
<1>5. \A k \in Key, op \in Op, d \in Day : estimate[k][op][d] \in Nat
  BY <1>3 DEF Sums
<1> HIDE DEF e
<1>6. ASSUME NEW op \in Op, NEW d \in Days(ranges[i])
      PROVE  e[ranges[i].key][op][d] = 1
  <2>1. d \in Day /\ ranges[i].key \in Key
    BY DaysAreDays
  <2>2. estimate[ranges[i].key][op][d] = 0
    BY DEF TallyInv
  <2>. QED
    BY <1>2, <1>4, <2>1, <2>2
<1>7. ASSUME NEW n \in Index \ {i}, NEW op \in Op, NEW d \in Days(ranges[n])
      PROVE  e[ranges[n].key][op][d] = estimate[ranges[n].key][op][d]
  <2>1. d \in Day /\ ranges[n].key \in Key
    BY DaysAreDays
  <2>2. ranges[n].key = ranges[i].key => d \notin Days(ranges[i])
    BY RangesApart
  <2>. QED
    BY <1>2, <1>4, <1>5, <2>1, <2>2
<1>8. ASSUME NEW k \in Key, NEW op \in Op, NEW d \in Day \ missing[k]
      PROVE  e[k][op][d] = 0
  <2>1. estimate[k][op][d] = 0
    BY DEF TallyInv
  <2>2. k = ranges[i].key => d \notin Days(ranges[i])
    BY RangeFacts
  <2>. QED
    BY <1>2, <1>4, <2>1, <2>2
<1>. QED
  BY <1>6, <1>7, <1>8 DEF e

\* The tally is kept while neither the estimate nor what counts changes.
LEMMA TallyKept ==
    ASSUME TallyInv, UNCHANGED <<missing, ranges, estimate>>,
           pc' \in {"ready", "pool", "serial"} => pc \in {"ready", "pool", "serial"},
           pc' \in {"ready", "pool", "serial"} => \A i \in Index : Counted(i)' <=> Counted(i)
    PROVE  TallyInv'
BY DEF TallyInv, Index

LEMMA TallyStep ==
    ASSUME Typed, TallyInv, [Next]_vars
    PROVE  TallyInv'
<1>0. MainOK /\ WorkOK /\ StageOK
  BY DEF Typed
<1>1. /\ job \in [Index -> {NoJob} \cup Work] /\ DOMAIN job = Index
      /\ next \in Nat /\ Index \subseteq Nat \ {0}
  BY <1>0 DEF WorkOK, Covering, Index
<1>2. UNCHANGED <<missing, ranges>> /\ Index' = Index
  BY DEF Next, Main, Signal, Start, Submit, WaitReturns, PoolReturns, Drained, Settled, SerialNext,
         SerialAsk, SerialAdd, SerialReturns, Collect, InterruptPool, Interrupt, Exit, Begin,
         PoolAsk, Quiet, vars, found, Index
<1>3. CASE pc' \notin {"ready", "pool", "serial"}
  BY <1>3 DEF TallyInv
<1>4. CASE Start
  <2>1. next = 1 /\ next' = 1 /\ pc = "ready" /\ UNCHANGED estimate
    BY <1>0, <1>4 DEF Start, StageOK
  <2>2. \A i \in Index : ~Counted(i) /\ ~Counted(i)'
    BY <1>1, <2>1 DEF Counted
  <2>. QED
    BY <1>2, <2>1, <2>2, TallyKept
<1>5. CASE Submit
  <2>1. /\ pc = "pool" /\ pc' = "pool" /\ next' = next + 1 /\ UNCHANGED estimate
        /\ job' = [job EXCEPT ![next] = Unbegun(ranges[next])]
    BY <1>5 DEF Submit
  <2>2. Unbegun(ranges[next]) # NoJob
    BY DEF Unbegun, Fresh, NoJob
  <2>3. ASSUME NEW i \in Index
        PROVE  Counted(i)' <=> Counted(i)
    BY <1>1, <2>1, <2>2 DEF Counted
  <2>. QED
    BY <1>2, <2>1, <2>3, TallyKept
<1>6. CASE WaitReturns
  <2>1. UNCHANGED <<pc, next, job, turn, estimate>>
    BY <1>6 DEF WaitReturns
  <2>. QED
    BY <1>2, <2>1, TallyKept DEF Counted
<1>7. ASSUME NEW i \in Index, Collect(i), pc' = "pool"
      PROVE  TallyInv'
  <2>1. /\ pc = "pool" /\ job[i].state = "quoted" /\ UNCHANGED <<next, turn>>
        /\ job' = [job EXCEPT ![i] = NoJob] /\ estimate' = Added(job[i].span, job[i].sum)
    BY <1>7 DEF Collect, Collected
  <2>2. job[i] # NoJob
    BY <2>1 DEF NoJob
  <2>3. i < next
    BY <1>0, <1>1, <2>1, <2>2 DEF StageOK
  <2>4. ~Counted(i) /\ Counted(i)'
    BY <1>1, <1>7, <2>1, <2>2, <2>3 DEF Counted
  <2>5. \A n \in Index \ {i} : Counted(n)' <=> Counted(n)
    BY <1>1, <1>7, <2>1 DEF Counted
  <2>6. JobOK(job[i], ranges[i])
    BY <1>0 DEF WorkOK
  <2>7. /\ \A op \in Op, d \in Days(ranges[i]) : estimate'[ranges[i].key][op][d] = 1
        /\ \A n \in Index \ {i} : \A op \in Op, d \in Days(ranges[n]) :
              estimate'[ranges[n].key][op][d] = estimate[ranges[n].key][op][d]
        /\ \A k \in Key : \A op \in Op, d \in Day \ missing[k] : estimate'[k][op][d] = 0
    <3>1. pc \in {"pool", "serial"} /\ ~Counted(i) /\ JobOK(job[i], ranges[i])
          /\ job[i].state = "quoted" /\ WorkOK /\ TallyInv
      BY <1>0, <2>1, <2>4, <2>6
    <3> DEFINE j == job[i]
    <3>2. JobOK(j, ranges[i]) /\ j.state = "quoted" /\ estimate' = Added(j.span, j.sum)
      BY <2>1, <3>1
    <3> HIDE DEF j
    <3>. QED
      BY <3>1, <3>2, QuoteCounts
  <2>8. \A n \in Index : \A op \in Op, d \in Days(ranges[n]) :
           estimate'[ranges[n].key][op][d] = IF Counted(n)' THEN 1 ELSE 0
    BY <2>1, <2>4, <2>5, <2>7 DEF TallyInv
  <2>. QED
    BY <1>2, <2>7, <2>8 DEF TallyInv
<1>8. CASE Drained /\ pc' = "serial"
  <2>1. next' = 1 /\ estimate' = Nobody
    BY <1>8 DEF Drained, Done, Cleared
  <2>2. \A i \in Index : ~Counted(i)'
    BY <1>1, <2>1 DEF Counted
  <2>3. \A k \in Key, op \in Op, d \in Day : estimate'[k][op][d] = 0
    BY <2>1 DEF Nobody, Zero
  <2>4. \A i \in Index : Days(ranges[i]) \subseteq Day /\ ranges[i].key \in Key
    BY <1>0, DaysAreDays
  <2>. QED
    BY <1>2, <2>2, <2>3, <2>4 DEF TallyInv
<1>9. CASE SerialNext
  <2>1. /\ pc = "serial" /\ pc' = "serial" /\ turn.state = "none" /\ UNCHANGED estimate
        /\ next' = next + 1 /\ turn' = Fresh(ranges[next])
    BY <1>9 DEF SerialNext
  <2>2. turn' # NoJob /\ turn = NoJob
    BY <1>0, <2>1, JobTypes DEF Fresh, NoJob, WorkOK, JobOK
  <2>3. \A i \in Index : Counted(i)' <=> Counted(i)
    BY <1>1, <2>1, <2>2 DEF Counted
  <2>. QED
    BY <1>2, <2>1, <2>3, TallyKept
<1>10. CASE SerialAsk
  <2>1. pc = "serial" /\ pc' = "serial" /\ UNCHANGED <<estimate, next>> /\ turn.state = "running"
    BY <1>10 DEF SerialAsk
  <2>2. PICK answer \in Ask(turn) : turn' = answer[1] /\ Recorded(turn, answer[2])
    BY <1>10 DEF SerialAsk
  <2>3. turn # NoJob /\ JobOK(turn, ranges[next - 1])
    BY <1>0, <2>1 DEF NoJob, WorkOK
  <2>4. turn' \in Work
    BY <1>0, <2>1, <2>2, <2>3, AskTyped DEF WorkOK
  <2>5. turn' # NoJob
    BY <2>4 DEF Work, NoJob, Ended
  <2>6. \A i \in Index : Counted(i)' <=> Counted(i)
    BY <2>1, <2>3, <2>5 DEF Counted
  <2>. QED
    BY <1>2, <2>1, <2>6, TallyKept
<1>11. CASE SerialAdd
  <2>1. /\ pc = "serial" /\ pc' = "serial" /\ turn.state = "quoted" /\ UNCHANGED next
        /\ turn' = NoJob /\ estimate' = Added(turn.span, turn.sum)
    BY <1>11 DEF SerialAdd
  <2>2. turn # NoJob
    BY <2>1 DEF NoJob
  <2>3. next - 1 \in Index /\ JobOK(turn, ranges[next - 1])
    BY <1>0, <1>1, <2>2 DEF WorkOK, Covering, Index
  <2>4. ~Counted(next - 1) /\ \A n \in Index : Counted(n)' <=> n < next
    BY <1>1, <2>1, <2>2 DEF Counted
  <2>5. \A n \in Index \ {next - 1} : Counted(n)' <=> Counted(n)
    BY <2>1, <2>4 DEF Counted
  <2>6. Counted(next - 1)'
    <3>1. next - 1 < next
      BY <1>1
    <3>. QED
      BY <1>1, <2>1, <2>2, <3>1 DEF Counted
  <2>7. /\ \A op \in Op, d \in Days(ranges[next - 1]) :
              estimate'[ranges[next - 1].key][op][d] = 1
        /\ \A n \in Index \ {next - 1} : \A op \in Op, d \in Days(ranges[n]) :
              estimate'[ranges[n].key][op][d] = estimate[ranges[n].key][op][d]
        /\ \A k \in Key : \A op \in Op, d \in Day \ missing[k] : estimate'[k][op][d] = 0
    BY <1>0, <2>1, <2>3, <2>4, QuoteCounts
  <2>8. \A n \in Index : \A op \in Op, d \in Days(ranges[n]) :
           estimate'[ranges[n].key][op][d] = IF Counted(n)' THEN 1 ELSE 0
    BY <2>1, <2>5, <2>6, <2>7 DEF TallyInv
  <2>. QED
    BY <1>2, <2>7, <2>8 DEF TallyInv
<1>12. ASSUME NEW i \in Index, Begin(i) \/ PoolAsk(i)
       PROVE  TallyInv'
  <2>1. UNCHANGED <<pc, next, turn, estimate>> /\ \A n \in Index \ {i} : job'[n] = job[n]
    BY <1>1, <1>12 DEF Begin, PoolAsk
  <2>2. job[i] # NoJob
    BY <1>12 DEF Begin, PoolAsk, NoJob
  <2>3. job'[i] # NoJob
    <3>1. CASE Begin(i)
      <4>1. job'[i].state = "running"
        <5>1. job[i] \in Work
          BY <1>1, <2>2
        <5>. QED
          BY <1>1, <3>1, <5>1 DEF Begin, Work
      <4>. QED
        BY <4>1 DEF NoJob
    <3>2. CASE PoolAsk(i)
      <4>1. PICK answer \in Ask(job[i]) :
                job' = [job EXCEPT ![i] = answer[1]] /\ Recorded(job[i], answer[2])
        BY <3>2 DEF PoolAsk
      <4>2. answer[1] \in Work
        BY <1>0, <3>2, <4>1, AskTyped DEF PoolAsk, WorkOK
      <4>. QED
        BY <1>1, <4>1, <4>2 DEF Work, NoJob, Ended
    <3>. QED
      BY <1>12, <3>1, <3>2
  <2>4. \A n \in Index : Counted(n)' <=> Counted(n)
    BY <2>1, <2>2, <2>3 DEF Counted
  <2>. QED
    BY <1>2, <2>1, <2>4, TallyKept
<1>13. CASE Quiet \/ UNCHANGED vars
  BY <1>2, <1>13, TallyKept DEF Quiet, vars, Counted
<1>14. ASSUME PoolReturns \/ Settled \/ SerialReturns \/ Signal
       PROVE  pc' \notin {"ready", "pool", "serial"}
  BY <1>14 DEF PoolReturns, Settled, SerialReturns, Signal, InterruptPool, Interrupt, Exit, Done
<1>15. ASSUME NEW i \in Index, Collect(i)
       PROVE  pc' \in {"pool", "drain"}
  BY <1>15 DEF Collect
<1>16. ASSUME Drained
       PROVE  pc' \in {"serial", "done"}
  BY <1>16 DEF Drained, Done
<1>. QED
  BY <1>3, <1>4, <1>5, <1>6, <1>7, <1>8, <1>9, <1>10, <1>11, <1>12, <1>13, <1>14, <1>15, <1>16
     DEF Next, Main

\* When every range counts, the estimate is complete.
LEMMA AllCounted ==
    ASSUME WorkOK, TallyInv, pc \in {"pool", "serial"}, \A i \in Index : Counted(i)
    PROVE  \A k \in Key, op \in Op, d \in Day :
               estimate[k][op][d] = IF d \in missing[k] THEN 1 ELSE 0
<1> SUFFICES ASSUME NEW k \in Key, NEW op \in Op, NEW d \in missing[k]
             PROVE  estimate[k][op][d] = 1
  BY DEF TallyInv
<1>1. PICK i \in Index : ranges[i].key = k /\ d \in Days(ranges[i])
  BY DEF WorkOK, Covering, Index
<1>. QED
  BY <1>1 DEF TallyInv

LEMMA OkStep ==
    ASSUME Typed, TallyInv, EveryDayOnce, [Next]_vars
    PROVE  EveryDayOnce'
<1> SUFFICES ASSUME result' = "ok"
             PROVE  \A k \in Key, op \in Op, d \in Day :
                        estimate'[k][op][d] = IF d \in missing'[k] THEN 1 ELSE 0
  BY DEF EveryDayOnce
<1>0. MainOK /\ WorkOK /\ StageOK
  BY DEF Typed
<1>1. /\ job \in [Index -> {NoJob} \cup Work] /\ DOMAIN job = Index
      /\ next \in Nat /\ Len(ranges) \in Nat
  BY <1>0 DEF WorkOK, Covering, Index
<1>2. CASE pc = "done"
  <2>1. UNCHANGED <<result, estimate, missing>>
    BY <1>2 DEF Next, Main, Signal, Start, Submit, WaitReturns, PoolReturns, Drained, Settled,
           SerialNext, SerialAsk, SerialAdd, SerialReturns, Collect, InterruptPool, Interrupt,
           Exit, Begin, PoolAsk, Quiet, vars, found
  <2>. QED
    BY <2>1 DEF EveryDayOnce
<1>3. CASE pc # "done"
  <2>0. result = "none"
    BY <1>0, <1>3 DEF MainOK
  <2>1. PoolReturns \/ (SerialReturns /\ turn.state = "none" /\ next > Len(ranges))
    <3>1. CASE Main
      BY <2>0, <3>1, <1>0 DEF Main, Start, Submit, WaitReturns, Drained, Settled, SerialNext,
                  SerialAsk, SerialAdd, SerialReturns, Collect, Done, MainOK
    <3>2. CASE Signal \/ (\E i \in Index : Begin(i) \/ PoolAsk(i)) \/ Quiet \/ UNCHANGED vars
      BY <2>0, <3>2 DEF Signal, InterruptPool, Interrupt, Exit, Begin, PoolAsk, Quiet, vars, Done
    <3>. QED
      BY <3>1, <3>2 DEF Next
  <2>2. UNCHANGED <<estimate, missing>> /\ pc \in {"pool", "serial"}
    BY <2>1 DEF PoolReturns, SerialReturns, found
  <2>3. CASE PoolReturns
    <3>1. pc = "pool" /\ ~CanSubmit /\ Active = {}
      BY <2>3 DEF PoolReturns
    <3>2. \A i \in Index : job[i] = NoJob
      BY <1>1, <3>1, JobTypes DEF Active, JobsIn
    <3>3. Cardinality(Active) = 0
      BY <3>1, FS_EmptySet
    <3>4. next > Len(ranges)
      <4>1. ~(0 < Workers) \/ ~(next <= Len(ranges))
        BY <3>1, <3>3 DEF CanSubmit
      <4>2. Len(ranges) > 0 => 0 < Workers
        BY <1>1, EstimateAssumption DEF Workers
      <4>3. next > 0
        BY <1>0, <1>1 DEF WorkOK
      <4>. QED
        BY <1>1, <4>1, <4>2, <4>3
    <3>5. \A i \in Index : Counted(i)
      BY <1>1, <3>1, <3>2, <3>4 DEF Counted, Index
    <3>. QED
      BY <1>0, <2>2, <3>5, AllCounted
  <2>4. CASE SerialReturns /\ turn.state = "none" /\ next > Len(ranges)
    <3>1. pc = "serial" /\ turn = NoJob
      BY <1>0, <2>4, JobTypes DEF SerialReturns, WorkOK, JobOK
    <3>2. \A i \in Index : Counted(i)
      BY <1>1, <2>4, <3>1 DEF Counted, Index
    <3>. QED
      BY <1>0, <2>2, <3>2, AllCounted
  <2>. QED
    BY <2>1, <2>3, <2>4
<1>. QED
  BY <1>2, <1>3

\* A returned estimate has each missing day in it once, and no other day: whatever was
\* split, retried, cancelled, or asked again from the start.
THEOREM DaysOnce == Spec => []EveryDayOnce
<1>1. Init => Typed
  BY TypedInit
<1>2. Init => TallyInv
  <2> SUFFICES ASSUME Init PROVE TallyInv
    OBVIOUS
  <2>0. WorkOK /\ next = 1 /\ estimate = Nobody
    BY <1>1 DEF Typed, Init
  <2>1. \A i \in Index : Days(ranges[i]) \subseteq Day /\ ranges[i].key \in Key
    BY <2>0, DaysAreDays
  <2>3. \A i \in Index : ~Counted(i)
    <3>1. Index \subseteq Nat \ {0}
      BY <2>0 DEF WorkOK, Covering, Index
    <3>. QED
      BY <2>0, <3>1 DEF Counted
  <2>2. \A k \in Key, op \in Op, d \in Day : estimate[k][op][d] = 0
    BY <2>0 DEF Nobody, Zero
  <2>. QED
    BY <2>1, <2>2, <2>3 DEF TallyInv
<1>3. Init => EveryDayOnce
  BY DEF Init, EveryDayOnce
<1>. QED
  BY <1>1, <1>2, <1>3, TypedStep, TallyStep, OkStep, PTL DEF Spec

-----------------------------------------------------------------------------
(* The ranges *)

LEMMA RangesStay == [Next]_vars => UNCHANGED <<missing, ranges>>
BY DEF Next, Main, Signal, Start, Submit, WaitReturns, PoolReturns, Drained, Settled, SerialNext,
       SerialAsk, SerialAdd, SerialReturns, Collect, InterruptPool, Interrupt, Exit, Begin,
       PoolAsk, Quiet, vars, found

\* Each range that is asked is a whole gap, nothing the archive has is asked again, and
\* each missing day is asked in one range.
THEOREM RangePerGap == Spec => []OneRangePerGap
<1> DEFINE Inv == missing \in Missing /\ Covering(missing, ranges) /\ Whole(missing, ranges)
<1>1. Init => Inv
  BY RangesCover DEF Init
<1>2. Inv /\ [Next]_vars => Inv'
  BY RangesStay DEF Covering, Whole
<1>3. Inv => OneRangePerGap
  <2> SUFFICES ASSUME Inv PROVE OneRangePerGap
    OBVIOUS
  <2>1. ASSUME NEW k \in Key, NEW d \in missing[k]
        PROVE  Cardinality({i \in Index : ranges[i].key = k /\ d \in Days(ranges[i])}) = 1
    <3>1. PICK i \in Index : \A n \in Index :
              ranges[n].key = k /\ d \in Days(ranges[n]) <=> n = i
      BY DEF Covering, Index
    <3>2. {n \in Index : ranges[n].key = k /\ d \in Days(ranges[n])} = {i}
      BY <3>1
    <3>. QED
      BY <3>2, FS_Singleton
  <2>2. \A i \in Index : /\ Days(ranges[i]) \subseteq missing[ranges[i].key]
                         /\ ranges[i].start - 1 \notin missing[ranges[i].key]
                         /\ ranges[i].end \notin missing[ranges[i].key]
    BY DEF Covering, Whole, Index
  <2>. QED
    BY <2>1, <2>2 DEF OneRangePerGap
<1>. QED
  BY <1>1, <1>2, <1>3, PTL DEF Spec


-----------------------------------------------------------------------------
(* Retries *)

Most == MaxAttempts - 1

Parts(span) == 2 * (span.end - span.start) - 1

\* Each of the parts left is a range that may be split down to its days.
Left(span, todo) == 2 * (span.end - todo[1].start) - Len(todo)

\* How many retries of a kind the range may have had: all of those of the parts that
\* are done with, and those of the part it is at.
Allow(span, j, op) ==
    IF ~ AtWork(j) THEN Parts(span) * Most
    ELSE IF op = j.op THEN (Parts(span) - Left(span, j.todo)) * Most + j.tries
    ELSE IF op = "cost" THEN Parts(span) * Most
    ELSE 0

\* No part is empty.
LEMMA RestRoom ==
    ASSUME NEW span \in Span, NEW todo \in Seq(Span), Rest(span, todo)
    PROVE  span.end - todo[1].start >= Len(todo)
<1> DEFINE Good == {n \in Nat : n + 1 <= Len(todo) => todo[n + 1].end - todo[1].start >= n + 1}
<1>0. /\ Len(todo) \in Nat \ {0}
      /\ \A n \in 1..Len(todo) : /\ todo[n].start \in Nat /\ todo[n].end \in Nat
                                 /\ todo[n].start < todo[n].end
      /\ \A n \in 1..(Len(todo) - 1) : todo[n].end = todo[n + 1].start
      /\ todo[Len(todo)].end = span.end
  BY SpanIs DEF Rest
<1>1. 0 \in Good
  BY <1>0
<1>2. ASSUME NEW n \in Nat, n \in Good
      PROVE  n + 1 \in Good
  <2> SUFFICES ASSUME (n + 1) + 1 <= Len(todo)
               PROVE  todo[(n + 1) + 1].end - todo[1].start >= (n + 1) + 1
    OBVIOUS
  <2>1. n + 1 \in 1..(Len(todo) - 1) /\ n + 1 \in 1..Len(todo) /\ (n + 1) + 1 \in 1..Len(todo)
        /\ 1 \in 1..Len(todo)
    BY <1>0
  <2>2. todo[n + 1].end - todo[1].start >= n + 1
    BY <1>2, <2>1
  <2>. QED
    BY <1>0, <2>1, <2>2
<1>3. Nat \subseteq Good
  <2> HIDE DEF Good
  <2>. QED
    BY <1>1, <1>2, OnNumbers
<1>4. Len(todo) - 1 \in Nat /\ (Len(todo) - 1) + 1 = Len(todo)
  BY <1>0
<1>5. Len(todo) - 1 \in Good
  <2> HIDE DEF Good
  <2>. QED
    BY <1>3, <1>4
<1>. QED
  BY <1>0, <1>4, <1>5

LEMMA PartsIs ==
    ASSUME NEW span \in Span, span.start < span.end
    PROVE  Parts(span) \in Nat \ {0} /\ 2 * Cardinality(Days(span)) - 1 = Parts(span)
<1>1. span.start \in Int /\ span.end \in Int /\ span.end - 1 \in Int
      /\ span.start <= span.end - 1
  BY SpanIs
<1> DEFINE first == span.start
           last == span.end - 1
<1>2. Cardinality(first..last) = last - first + 1
  <2>1. first \in Int /\ last \in Int /\ first <= last
    BY <1>1
  <2> HIDE DEF first, last
  <2>. QED
    BY ONLY <2>1, FS_Interval
<1>. QED
  BY <1>1, <1>2 DEF Parts, Days

\* The parts left are some of the range's, and one at least.
LEMMA LeftIs ==
    ASSUME NEW span \in Span, NEW todo \in Seq(Span), Rest(span, todo)
    PROVE  /\ Left(span, todo) \in Nat \ {0} /\ Left(span, todo) <= Parts(span)
           /\ Parts(span) \in Nat \ {0} /\ span.start < span.end
<1>1. span.end - todo[1].start >= Len(todo)
  BY RestRoom
<1>2. Len(todo) \in Nat \ {0} /\ todo[1] \in Span /\ span.start <= todo[1].start
  BY DEF Rest
<1>3. todo[1].start \in Nat /\ span.start \in Nat /\ span.end \in Nat
  BY <1>2, SpanIs
<1> DEFINE len == Len(todo)
           next1 == todo[1].start
<1>4. len \in Nat \ {0} /\ next1 \in Nat /\ span.start <= next1 /\ span.end - next1 >= len
  BY <1>1, <1>2, <1>3
<1> HIDE DEF len, next1
<1>5. /\ 2 * (span.end - next1) - len >= 1
      /\ 2 * (span.end - next1) - len <= 2 * (span.end - span.start) - 1
  BY <1>3, <1>4
<1>6. 2 * (span.end - next1) - len \in Int /\ 2 * (span.end - span.start) - 1 \in Int
      /\ span.start < span.end
  BY <1>3, <1>4
<1>. QED
  BY <1>3, <1>4, <1>5, <1>6 DEF Left, Parts, len, next1

\* No more than all of those of all parts.
LEMMA AllowIs ==
    ASSUME NEW j \in Work, Quoted(j), j.span.start < j.span.end, NEW op \in Op
    PROVE  /\ Allow(j.span, j, op) \in Nat
           /\ Parts(j.span) * Most \in Nat
           /\ Allow(j.span, j, op) <= Parts(j.span) * Most
<1> DEFINE p == Parts(j.span)
           l == Left(j.span, j.todo)
<1>1. /\ j.span \in Span /\ j.todo \in Seq(Span) /\ j.tries \in Nat /\ j.tries <= Most
      /\ Most \in Nat
  BY EstimateAssumption DEF Work, Most
<1>2. p \in Nat \ {0}
  BY <1>1, PartsIs
<1>3. p * Most \in Nat
  BY <1>1, <1>2
<1>4. CASE AtWork(j)
  <2>1. l \in Nat \ {0} /\ l <= p
    BY <1>1, <1>4, LeftIs DEF Quoted
  <2> HIDE DEF p, l
  <2>2. p - l \in Nat /\ p - l <= p - 1
    BY <1>2, <2>1
  <2>3. (p - l) * Most \in Nat /\ (p - l) * Most <= (p - 1) * Most
    BY <1>1, <1>2, <2>2, TimesMonotonic
  <2>4. (p - 1) * Most + Most = p * Most
    BY <1>1, <1>2
  <2>5. (p - l) * Most + j.tries \in Nat /\ (p - l) * Most + j.tries <= p * Most
    BY <1>1, <1>2, <2>3, <2>4
  <2>. QED
    BY <1>3, <1>4, <2>5 DEF Allow, p, l
<1>5. CASE ~ AtWork(j)
  BY <1>3, <1>5 DEF Allow
<1>. QED
  BY <1>4, <1>5

\* None before the first request.
LEMMA FreshAllow ==
    ASSUME NEW span \in Span, span.start < span.end, NEW op \in Op
    PROVE  Allow(span, Fresh(span), op) = 0 /\ Allow(span, Unbegun(span), op) = 0
<1>1. <<span>>[1] = span /\ Len(<<span>>) = 1
  OBVIOUS
<1>2. Left(span, <<span>>) = Parts(span) /\ Parts(span) \in Nat
  BY <1>1, PartsIs DEF Left, Parts
<1>3. (Parts(span) - Left(span, <<span>>)) * Most = 0
  BY <1>2, EstimateAssumption DEF Most
<1>4. /\ Fresh(span).todo = <<span>> /\ Fresh(span).op = "cost" /\ Fresh(span).tries = 0
      /\ Fresh(span).state = "running"
      /\ Unbegun(span).todo = <<span>> /\ Unbegun(span).op = "cost" /\ Unbegun(span).tries = 0
      /\ Unbegun(span).state = "queued"
  BY DEF Fresh, Unbegun
<1>. QED
  BY <1>3, <1>4 DEF Allow, AtWork, Op


\* A part less is at least as much as all the retries of one.
LEMMA PartDone ==
    ASSUME NEW p \in Nat, NEW l \in Nat, l <= p, NEW m \in Nat, m + 1 <= l,
           NEW most \in Nat, NEW tries \in Nat, tries <= most
    PROVE  (p - l) * most + tries <= (p - m) * most
<1> DEFINE a == p - l
           b == p - m
<1>1. a \in Nat /\ b \in Nat /\ a + 1 <= b
  OBVIOUS
<1> HIDE DEF a, b
<1>2. (a + 1) * most <= b * most
  BY <1>1, TimesMonotonic
<1>3. (a + 1) * most = a * most + most
  BY <1>1
<1>4. a * most \in Nat /\ b * most \in Nat
  BY <1>1, TimesMonotonic
<1>5. a * most + tries <= b * most
  BY <1>2, <1>3, <1>4
<1>. QED
  BY <1>5 DEF a, b

\* With the range at work on less of the same kind, as much as before is allowed, ...
LEMMA LessAllow ==
    ASSUME NEW j \in Work, AtWork(j), Quoted(j),
           NEW k \in Work, AtWork(k), Quoted(k), k.span = j.span, k.op = j.op, k.tries = 0,
           Left(j.span, k.todo) + 1 <= Left(j.span, j.todo), NEW op \in Op
    PROVE  Allow(j.span, j, op) <= Allow(j.span, k, op)
<1>1. /\ j.span \in Span /\ j.todo \in Seq(Span) /\ k.todo \in Seq(Span)
      /\ Rest(j.span, j.todo) /\ Rest(j.span, k.todo)
      /\ j.tries \in Nat /\ j.tries <= Most /\ Most \in Nat
  BY EstimateAssumption DEF Work, Quoted, Most
<1>2. /\ Left(j.span, j.todo) \in Nat /\ Left(j.span, j.todo) <= Parts(j.span)
      /\ Left(j.span, k.todo) \in Nat /\ Parts(j.span) \in Nat
  BY <1>1, LeftIs
<1>3. (Parts(j.span) - Left(j.span, j.todo)) * Most + j.tries
         <= (Parts(j.span) - Left(j.span, k.todo)) * Most
  BY <1>1, <1>2, PartDone
<1>4. (Parts(j.span) - Left(j.span, k.todo)) * Most \in Int
  BY <1>1, <1>2
<1>5. CASE op = j.op
  BY <1>3, <1>4, <1>5 DEF Allow
<1>6. CASE op # j.op
  <2>1. Allow(j.span, j, op) = Allow(j.span, k, op)
    BY <1>6 DEF Allow
  <2>2. j.span.start < j.span.end
    BY <1>1, LeftIs
  <2>3. Allow(j.span, j, op) \in Nat
    BY <2>2, AllowIs
  <2>. QED
    BY <2>1, <2>3
<1>. QED
  BY <1>5, <1>6

\* ... and when it is done with, all that there can be.
LEMMA EndAllow ==
    ASSUME NEW j \in Work, AtWork(j), Quoted(j), NEW k, ~ AtWork(k), NEW op \in Op
    PROVE  Allow(j.span, j, op) <= Allow(j.span, k, op)
<1>1. j.span.start < j.span.end
  BY LeftIs DEF Work, Quoted
<1>. QED
  BY <1>1, AllowIs DEF Allow

LEMMA AnswerAllow ==
    ASSUME NEW j \in Work, j.state = "running", Quoted(j), NEW op \in Op
    PROVE  Allow(j.span, j, op) <= Allow(j.span, Answered(j), op)
<1> DEFINE sum == [j.sum EXCEPT ![j.op] =
                     [d \in Day |-> IF d \in Days(Head(j.todo)) THEN @[d] + 1 ELSE @[d]]]
           k == [j EXCEPT !.sum = sum]
<1>0. /\ j.span \in Span /\ j.todo \in Seq(Span) /\ j.op \in Op /\ AtWork(j)
      /\ Rest(j.span, j.todo) /\ Len(j.todo) \in Nat \ {0}
  BY DEF Work, Quoted, AtWork, Rest
<1>1. /\ Answered(j) = Advanced(k) /\ k.span = j.span /\ k.todo = j.todo /\ k.op = j.op
      /\ DOMAIN k = DOMAIN j
  BY DEF Answered, Work
<1>2. Answered(j) \in Work /\ Quoted(Answered(j)) /\ Answered(j).span = j.span
  BY AnswerQuotes
<1>a. /\ k.state = "running"
      /\ k = [state |-> "running", span |-> j.span, op |-> j.op, todo |-> j.todo,
              tries |-> j.tries, sum |-> sum]
  BY DEF Work
<1> HIDE DEF sum, k
<1>3. CASE Len(j.todo) > 1
  <2>1. /\ Answered(j).todo = Tail(j.todo) /\ Answered(j).tries = 0 /\ Answered(j).op = j.op
        /\ Answered(j).state = "running"
    BY <1>1, <1>3, <1>a DEF Advanced
  <2>2. Len(Tail(j.todo)) = Len(j.todo) - 1 /\ Tail(j.todo)[1] = j.todo[2]
    BY <1>0, <1>3
  <2>3. /\ j.todo[1] \in Span /\ j.todo[2] \in Span
        /\ j.todo[1].start < j.todo[1].end /\ j.todo[1].end = j.todo[2].start
    BY <1>0, <1>3 DEF Rest
  <2>4. j.todo[1].start \in Nat /\ j.todo[2].start \in Nat /\ j.span.end \in Nat
    BY <1>0, <2>3, SpanIs
  <2>5. Left(j.span, Tail(j.todo)) + 1 <= Left(j.span, j.todo)
    <3> DEFINE len == Len(j.todo)
               first == j.todo[1].start
               second == j.todo[2].start
               end == j.span.end
    <3>1. len \in Nat /\ first \in Nat /\ second \in Nat /\ end \in Nat /\ first < second
      BY <1>0, <2>3, <2>4
    <3>2. /\ Left(j.span, j.todo) = 2 * (end - first) - len
          /\ Left(j.span, Tail(j.todo)) = 2 * (end - second) - (len - 1)
      BY <2>2 DEF Left
    <3> HIDE DEF len, first, second, end
    <3>. QED
      BY <3>1, <3>2
  <2>. QED
    BY <1>0, <1>2, <2>1, <2>5, LessAllow DEF AtWork
<1>4. CASE Len(j.todo) <= 1 /\ j.op = "cost"
  <2>1. /\ Answered(j).todo = <<j.span>> /\ Answered(j).tries = 0 /\ Answered(j).op = "size"
        /\ Answered(j).state = "running"
    BY <1>0, <1>1, <1>4, <1>a DEF Advanced
  <2>2. j.span.start < j.span.end
    BY <1>0, LeftIs
  <2>3. CASE op = "cost"
    <3>1. Allow(j.span, Answered(j), op) = Parts(j.span) * Most
      BY <2>1, <2>3 DEF Allow, AtWork
    <3>. QED
      BY <2>2, <3>1, AllowIs
  <2>4. CASE op = "size"
    <3>1. Allow(j.span, j, op) = 0
      BY <1>0, <1>4, <2>4 DEF Allow
    <3>2. Allow(j.span, Answered(j), op) \in Nat
      BY <1>2, <2>2, AllowIs
    <3>. QED
      BY <3>1, <3>2
  <2>. QED
    BY <2>3, <2>4 DEF Op
<1>5. CASE Len(j.todo) <= 1 /\ j.op = "size"
  <2>1. Answered(j).state = "quoted"
    BY <1>0, <1>1, <1>5, <1>a DEF Advanced
  <2>. QED
    BY <1>0, <2>1, EndAllow DEF AtWork
<1>. QED
  BY <1>0, <1>3, <1>4, <1>5 DEF Op

LEMMA SplitAllow ==
    ASSUME NEW j \in Work, j.state = "running", Quoted(j), NEW op \in Op
    PROVE  Allow(j.span, j, op) <= Allow(j.span, SplitOrRaise(j), op)
<1>0. /\ j.span \in Span /\ j.todo \in Seq(Span) /\ AtWork(j)
      /\ Rest(j.span, j.todo) /\ Len(j.todo) \in Nat \ {0}
  BY DEF Work, Quoted, AtWork, Rest
<1>1. SplitOrRaise(j) \in Work /\ Quoted(SplitOrRaise(j)) /\ SplitOrRaise(j).span = j.span
  BY SplitQuotes
<1>2. CASE Cardinality(Days(Head(j.todo))) <= 1
  <2>1. SplitOrRaise(j).state = "retryable"
    BY <1>2 DEF SplitOrRaise, Work
  <2>. QED
    BY <1>0, <2>1, EndAllow DEF AtWork
<1>3. CASE ~ (Cardinality(Days(Head(j.todo))) <= 1)
  <2> DEFINE k == SplitOrRaise(j)
             halves == Halves(Head(j.todo))
  <2>1. /\ k.todo = halves \o Tail(j.todo) /\ k.tries = 0 /\ k.op = j.op
        /\ k.state = "running"
    BY <1>3 DEF SplitOrRaise, Work
  <2>2. /\ Len(halves) = 2 /\ halves[1].start = j.todo[1].start
        /\ halves = <<halves[1], halves[2]>>
    <3>1. Head(j.todo) = j.todo[1] /\ j.todo[1] \in Span
      BY <1>0
    <3>. QED
      BY <3>1 DEF Halves, Span
  <2>3. Tail(j.todo) \in Seq(Span) /\ Len(Tail(j.todo)) = Len(j.todo) - 1
    BY <1>0
  <2> HIDE DEF halves
  <2>4. Len(halves \o Tail(j.todo)) = Len(j.todo) + 1 /\ (halves \o Tail(j.todo))[1] = halves[1]
    <3> DEFINE h == halves[1]
               g == halves[2]
    <3>1. halves = <<h, g>>
      BY <2>2
    <3> HIDE DEF h, g
    <3>2. Len(<<h, g>> \o Tail(j.todo)) = Len(j.todo) + 1 /\ (<<h, g>> \o Tail(j.todo))[1] = h
      BY <1>0, <2>3
    <3>. QED
      BY <3>1, <3>2 DEF h
  <2>5. /\ j.todo[1].start \in Nat /\ j.span.end \in Nat
    BY <1>0, SpanIs
  <2>6. Left(j.span, k.todo) + 1 <= Left(j.span, j.todo)
    <3>1. k.todo[1].start = j.todo[1].start /\ Len(k.todo) = Len(j.todo) + 1
      BY <2>1, <2>2, <2>4
    <3> HIDE DEF k
    <3>. QED
      BY <1>0, <2>5, <3>1 DEF Left
  <2> HIDE DEF k
  <2>7. k \in Work /\ Quoted(k) /\ k.span = j.span
    BY <1>1 DEF k
  <2>8. Allow(j.span, j, op) <= Allow(j.span, k, op)
    BY <1>0, <2>1, <2>6, <2>7, LessAllow DEF AtWork
  <2>. QED
    BY <2>8 DEF k
<1>. QED
  BY <1>2, <1>3

\* A retry that is recorded was allowed for.
LEMMA AskAllow ==
    ASSUME NEW j \in Work, j.state = "running", Quoted(j), NEW answer \in Ask(j), NEW op \in Op
    PROVE  /\ Allow(j.span, j, op) <= Allow(j.span, answer[1], op)
           /\ answer[2] /\ op = j.op => Allow(j.span, j, op) + 1 <= Allow(j.span, answer[1], op)
<1>0. j.span \in Span /\ AtWork(j) /\ Rest(j.span, j.todo) /\ j.todo \in Seq(Span)
  BY DEF Work, Quoted, AtWork
<1>1. CASE answer = <<Answered(j), FALSE>>
  BY <1>1, AnswerAllow
<1>2. CASE answer = <<[j EXCEPT !.state = "fatal"], FALSE>>
  <2>1. ~ AtWork(answer[1])
    BY <1>2 DEF Work, AtWork
  <2>. QED
    BY <1>0, <1>2, <2>1, EndAllow
<1>3. CASE answer = <<[j EXCEPT !.tries = @ + 1], TRUE>>
  <2> DEFINE k == [j EXCEPT !.tries = @ + 1]
  <2>1. /\ k.tries = j.tries + 1 /\ k.todo = j.todo /\ k.op = j.op /\ k.state = j.state
        /\ answer[1] = k
    BY <1>3 DEF Work
  <2>2. j.tries \in Nat /\ Most \in Nat
    BY EstimateAssumption DEF Work, Most
  <2>3. (Parts(j.span) - Left(j.span, j.todo)) * Most \in Int
    <3>1. Parts(j.span) \in Int /\ Left(j.span, j.todo) \in Int
      BY <1>0, LeftIs
    <3>. QED
      BY <2>2, <3>1
  <2>4. Allow(j.span, j, op) \in Nat
    BY <1>0, LeftIs, AllowIs
  <2> HIDE DEF k
  <2>5. CASE op = j.op
    BY <1>0, <2>1, <2>2, <2>3, <2>5 DEF Allow, AtWork
  <2>6. CASE op # j.op
    <3>1. Allow(j.span, k, op) = Allow(j.span, j, op)
      BY <2>1, <2>6 DEF Allow, AtWork
    <3>. QED
      BY <2>1, <2>4, <2>6, <3>1
  <2>. QED
    BY <2>5, <2>6
<1>4. CASE answer = <<SplitOrRaise(j), FALSE>>
  BY <1>4, SplitAllow
<1>. QED
  BY <1>1, <1>2, <1>3, <1>4 DEF Ask


\* What the ranges before the n-th may have had, each being at its job.
Allowed(spans, jobs, n, op) ==
    [i \in 1..Len(spans) |-> IF i < n THEN Allow(spans[i], jobs[i], op) ELSE 0]

AllOf(spans) == Total([i \in 1..Len(spans) |-> Parts(spans[i]) * Most], 1..Len(spans))

JobsOK(spans, jobs) == \A i \in 1..Len(spans) : JobOK(jobs[i], spans[i])

Spans == {spans \in Seq(Span) : \A i \in 1..Len(spans) : spans[i].start < spans[i].end}

LEMMA AllowedIs ==
    ASSUME NEW spans \in Spans, NEW jobs, JobsOK(spans, jobs), NEW n, NEW op \in Op
    PROVE  /\ IsFiniteSet(1..Len(spans))
           /\ \A i \in 1..Len(spans) : Allowed(spans, jobs, n, op)[i] \in Nat
           /\ Total(Allowed(spans, jobs, n, op), 1..Len(spans)) \in Nat
           /\ AllOf(spans) \in Nat
           /\ Total(Allowed(spans, jobs, n, op), 1..Len(spans)) <= AllOf(spans)
<1> DEFINE I == 1..Len(spans)
           f == Allowed(spans, jobs, n, op)
           g == [i \in I |-> Parts(spans[i]) * Most]
<1>0. Len(spans) \in Nat /\ \A i \in I : spans[i] \in Span /\ spans[i].start < spans[i].end
  BY DEF Spans
<1>1. IsFiniteSet(I)
  <2>1. 1 \in Int /\ Len(spans) \in Int
    BY <1>0
  <2>. QED
    BY <2>1, FS_Interval
<1>2. ASSUME NEW i \in I
      PROVE  f[i] \in Nat /\ g[i] \in Nat /\ f[i] <= g[i]
  <2>1. Parts(spans[i]) * Most \in Nat
    <3>1. Parts(spans[i]) \in Nat /\ Most \in Nat
      BY <1>0, PartsIs, EstimateAssumption DEF Most
    <3>. QED
      BY <3>1
  <2>2. JobOK(jobs[i], spans[i])
    BY DEF JobsOK
  <2>3. Allow(spans[i], jobs[i], op) \in Nat
        /\ Allow(spans[i], jobs[i], op) <= Parts(spans[i]) * Most
    <3>1. CASE jobs[i] = NoJob
      BY <2>1, <3>1 DEF Allow, AtWork, NoJob
    <3>2. CASE jobs[i] # NoJob
      <4>1. jobs[i] \in Work /\ Quoted(jobs[i]) /\ jobs[i].span = spans[i]
        BY <2>2, <3>2 DEF JobOK
      <4> DEFINE j == jobs[i]
      <4>2. j \in Work /\ Quoted(j) /\ j.span = spans[i] /\ j.span.start < j.span.end
        BY <1>0, <4>1
      <4> HIDE DEF j
      <4>3. Allow(j.span, j, op) \in Nat /\ Allow(j.span, j, op) <= Parts(j.span) * Most
        BY <4>2, AllowIs
      <4>. QED
        BY <4>2, <4>3 DEF j
    <3>. QED
      BY <3>1, <3>2
  <2>4. g[i] = Parts(spans[i]) * Most
    OBVIOUS
  <2>5. f[i] = IF i < n THEN Allow(spans[i], jobs[i], op) ELSE 0
    BY DEF Allowed
  <2> HIDE DEF f, g
  <2>6. CASE i < n
    BY <2>1, <2>3, <2>4, <2>5, <2>6
  <2>7. CASE ~ (i < n)
    BY <2>1, <2>4, <2>5, <2>7
  <2>. QED
    BY <2>6, <2>7
<1> HIDE DEF f, g, I
<1>3. Total(f, I) \in Nat /\ Total(g, I) \in Nat /\ Total(f, I) <= Total(g, I)
  <2>1. \A i \in I : f[i] \in Nat /\ g[i] \in Nat
    BY <1>2
  <2>2. Total(f, I) \in Nat /\ Total(g, I) \in Nat
    BY <1>1, <2>1, TotalNat
  <2>3. \A i \in I : f[i] \in Int /\ g[i] \in Int /\ f[i] <= g[i]
    BY <1>2
  <2>. QED
    BY <1>1, <2>2, <2>3, TotalMonotonic
<1>. QED
  BY <1>1, <1>2, <1>3 DEF f, g, I, AllOf

\* No range is allowed less, and one of them one more.
LEMMA AllowedGrows ==
    ASSUME NEW spans \in Spans, NEW op \in Op, NEW n, NEW m,
           NEW jobs, JobsOK(spans, jobs), NEW then, JobsOK(spans, then),
           \A i \in 1..Len(spans) :
               Allowed(spans, jobs, n, op)[i] <= Allowed(spans, then, m, op)[i]
    PROVE  /\ Total(Allowed(spans, jobs, n, op), 1..Len(spans))
                  <= Total(Allowed(spans, then, m, op), 1..Len(spans))
           /\ \A i \in 1..Len(spans) :
                  Allowed(spans, jobs, n, op)[i] + 1 <= Allowed(spans, then, m, op)[i]
                  => Total(Allowed(spans, jobs, n, op), 1..Len(spans)) + 1
                         <= Total(Allowed(spans, then, m, op), 1..Len(spans))
<1> DEFINE I == 1..Len(spans)
           f == Allowed(spans, jobs, n, op)
           g == Allowed(spans, then, m, op)
<1>1. IsFiniteSet(I) /\ \A i \in I : f[i] \in Int /\ g[i] \in Int /\ f[i] <= g[i]
  BY AllowedIs
<1> HIDE DEF I, f, g
<1>2. Total(f, I) <= Total(g, I)
  BY <1>1, TotalMonotonic
<1>3. \A i \in I : f[i] + 1 <= g[i] => Total(f, I) + 1 <= Total(g, I)
  BY <1>1, TotalGrows
<1>. QED
  BY <1>2, <1>3 DEF I, f, g

-----------------------------------------------------------------------------
(* The count *)

\* The serial loop's range, the others being done with.
Turns == [i \in Index |-> IF i = next - 1 THEN turn ELSE NoJob]

Before == IF why = "retryable" THEN AllOf(ranges) ELSE 0

RetryInv ==
    /\ pc = "serial" => PoolDown
    /\ \A op \in Op :
          /\ pc \in {"ready", "pool", "drain", "settle"} \/ ~ PoolDown =>
                retries[op] <= Total(Allowed(ranges, job, next, op), 1..Len(ranges))
          /\ pc = "serial" =>
                retries[op] <= Before + Total(Allowed(ranges, Turns, next, op), 1..Len(ranges))
          /\ pc = "done" => retries[op] <= Before + AllOf(ranges)

LEMMA SpansNow ==
    ASSUME WorkOK
    PROVE  /\ ranges \in Spans /\ Index = 1..Len(ranges)
           /\ JobsOK(ranges, job) /\ JobsOK(ranges, Turns)
           /\ next \in Nat \ {0} /\ retries \in [Op -> Nat] /\ Index \subseteq Nat
           /\ job \in [Index -> {NoJob} \cup Work]
<1>1. /\ ranges \in Spans /\ Index = 1..Len(ranges) /\ Index \subseteq Nat
      /\ next \in Nat \ {0} /\ retries \in [Op -> Nat] /\ job \in [Index -> {NoJob} \cup Work]
  BY DEF WorkOK, Covering, Spans, Index
<1>2. JobsOK(ranges, job)
  BY <1>1 DEF WorkOK, JobsOK
<1>3. ASSUME NEW i \in Index
      PROVE  JobOK(Turns[i], ranges[i])
  <2>1. CASE i = next - 1
    <3>1. Turns[i] = turn
      BY <2>1 DEF Turns
    <3>. QED
      BY <2>1, <3>1 DEF WorkOK, JobOK
  <2>2. CASE i # next - 1
    BY <2>2 DEF Turns, JobOK
  <2>. QED
    BY <2>1, <2>2
<1>. QED
  BY <1>1, <1>2, <1>3 DEF JobsOK

\* One range's allowance in a step of its job.
LEMMA AllowStep ==
    ASSUME NEW span \in Span, span.start < span.end, NEW op \in Op,
           NEW j, JobOK(j, span), NEW k, k = j \/ ~ AtWork(k)
    PROVE  Allow(span, j, op) <= Allow(span, k, op)
<1>1. CASE AtWork(j) /\ ~ AtWork(k)
  <2>1. j \in Work /\ Quoted(j) /\ j.span = span
    BY <1>1 DEF JobOK, AtWork, NoJob
  <2>2. Allow(j.span, j, op) <= Allow(j.span, k, op)
    BY <1>1, <2>1, EndAllow
  <2>. QED
    BY <2>1, <2>2
<1>2. CASE ~ (AtWork(j) /\ ~ AtWork(k))
  <2>1. Allow(span, j, op) = Allow(span, k, op)
    BY <1>2 DEF Allow
  <2>2. Allow(span, j, op) \in Nat
    <3>1. CASE j = NoJob
      <4>1. Parts(span) \in Nat /\ Most \in Nat
        BY PartsIs, EstimateAssumption DEF Most
      <4>2. Parts(span) * Most \in Nat
        BY <4>1
      <4>. QED
        BY <3>1, <4>2 DEF Allow, AtWork, NoJob
    <3>2. CASE j # NoJob
      <4>1. j \in Work /\ Quoted(j) /\ j.span = span
        BY <3>2 DEF JobOK
      <4>. QED
        BY <4>1, AllowIs
    <3>. QED
      BY <3>1, <3>2
  <2>. QED
    BY <2>1, <2>2
<1>. QED
  BY <1>1, <1>2


\* A future at work is of a range that has been submitted.
Begun == \A i \in Index : AtWork(job[i]) => i < next

LEMMA BegunStep ==
    ASSUME Typed, Begun, pc = "serial" => PoolDown, [Next]_vars
    PROVE  Begun'
<1>0. /\ Index' = Index /\ next \in Nat \ {0} /\ Index \subseteq Nat
      /\ job \in [Index -> {NoJob} \cup Work]
  BY RangesStay, SpansNow DEF Typed, Index
<1>1. CASE job' = job \/ JobsShrink
  <2>1. \A i \in Index : AtWork(job'[i]) => AtWork(job[i])
    BY <1>1 DEF JobsShrink, AtWork, NoJob
  <2>2. CASE next' \in {next, next + 1}
    BY <1>0, <2>1, <2>2 DEF Begun
  <2>3. CASE Drained
    <3>1. \A i \in Index : ~ AtWork(job[i])
      BY <1>0, <2>3 DEF Drained, PoolDown, JobsIn, AtWork
    <3>. QED
      BY <1>0, <2>1, <3>1 DEF Begun
  <2>4. next' \in {next, next + 1} \/ Drained
    <3>1. CASE Main
      BY <3>1 DEF Main, Start, Submit, WaitReturns, PoolReturns, Settled, SerialNext, SerialAsk,
                  SerialAdd, SerialReturns, Collect
    <3>2. CASE Signal \/ (\E i \in Index : Begin(i) \/ PoolAsk(i)) \/ Quiet \/ UNCHANGED vars
      BY <3>2 DEF Signal, InterruptPool, Interrupt, Exit, Begin, PoolAsk, Quiet, vars
    <3>. QED
      BY <3>1, <3>2 DEF Next
  <2>. QED
    BY <2>2, <2>3, <2>4
<1>2. CASE Submit
  <2>1. /\ next' = next + 1 /\ pc = "pool"
        /\ job' = [job EXCEPT ![next] = Unbegun(ranges[next])]
    BY <1>2 DEF Submit
  <2>2. \A i \in Index : i # next => job'[i] = job[i]
    BY <1>0, <2>1
  <2>. QED
    BY <1>0, <2>1, <2>2 DEF Begun
<1>3. ASSUME NEW n \in Index, Begin(n) \/ PoolAsk(n)
      PROVE  Begun'
  <2>1. next' = next /\ AtWork(job[n]) /\ \A i \in Index \ {n} : job'[i] = job[i]
    BY <1>0, <1>3 DEF Begin, PoolAsk, AtWork
  <2>. QED
    BY <1>0, <2>1 DEF Begun
<1>. QED
  BY <1>1, <1>2, <1>3, JobsStep

\* A range and its request.
LEMMA AskStep ==
    ASSUME NEW span, NEW op \in Op, NEW j, JobOK(j, span), j.state = "running",
           NEW answer \in Ask(j), retries \in [Op -> Nat], Recorded(j, answer[2])
    PROVE  /\ Allow(span, j, op) <= Allow(span, answer[1], op)
           /\ retries'[op] \in Nat
           /\ \/ retries'[op] = retries[op]
              \/ /\ retries'[op] = retries[op] + 1
                 /\ Allow(span, j, op) + 1 <= Allow(span, answer[1], op)
<1>1. j \in Work /\ Quoted(j) /\ j.span = span /\ j.op \in Op
  BY DEF JobOK, NoJob, Work
<1>2. /\ Allow(span, j, op) <= Allow(span, answer[1], op)
      /\ answer[2] /\ op = j.op => Allow(span, j, op) + 1 <= Allow(span, answer[1], op)
  BY <1>1, AskAllow
<1>3. retries'[op] = IF answer[2] /\ op = j.op THEN retries[op] + 1 ELSE retries[op]
  BY <1>1 DEF Recorded
<1>4. retries[op] \in Nat
  OBVIOUS
<1>. QED
  BY <1>2, <1>3, <1>4

\* The pool: no step allows a range less, and one that counts a retry allows one more.
LEMMA PoolStep ==
    ASSUME Typed, Begun, WorkOK', [Next]_vars, pc # "serial", pc' # "serial", NEW op \in Op,
           retries[op] <= Total(Allowed(ranges, job, next, op), 1..Len(ranges))
    PROVE  retries'[op] <= Total(Allowed(ranges', job', next', op), 1..Len(ranges'))
<1>0. /\ ranges \in Spans /\ Index = 1..Len(ranges) /\ JobsOK(ranges, job)
      /\ next \in Nat \ {0} /\ retries \in [Op -> Nat] /\ Index \subseteq Nat
      /\ job \in [Index -> {NoJob} \cup Work]
      /\ \A i \in Index : ranges[i] \in Span /\ ranges[i].start < ranges[i].end
  BY SpansNow DEF Typed, Spans
<1>1. JobsOK(ranges, job')
  BY <1>0, RangesStay DEF WorkOK, Index, JobsOK
<1> DEFINE I == 1..Len(ranges)
           f == Allowed(ranges, job, next, op)
           g == Allowed(ranges, job', next', op)
<1>2. /\ \A i \in I : f[i] = IF i < next THEN Allow(ranges[i], job[i], op) ELSE 0
      /\ \A i \in I : g[i] = IF i < next' THEN Allow(ranges[i], job'[i], op) ELSE 0
      /\ \A i \in I : f[i] \in Nat /\ g[i] \in Nat
      /\ Total(f, I) \in Nat /\ Total(g, I) \in Nat
  <2>1. \A i \in I : f[i] = IF i < next THEN Allow(ranges[i], job[i], op) ELSE 0
    BY DEF Allowed
  <2>2. \A i \in I : g[i] = IF i < next' THEN Allow(ranges[i], job'[i], op) ELSE 0
    BY DEF Allowed
  <2>3. (\A i \in I : f[i] \in Nat) /\ Total(f, I) \in Nat
    BY <1>0, AllowedIs
  <2>4. (\A i \in I : g[i] \in Nat) /\ Total(g, I) \in Nat
    BY <1>0, <1>1, AllowedIs
  <2> HIDE DEF f, g, I
  <2>. QED
    BY <2>1, <2>2, <2>3, <2>4
<1> HIDE DEF f, g, I
<1>3. /\ (\A i \in I : f[i] <= g[i]) => Total(f, I) <= Total(g, I)
      /\ (\A i \in I : f[i] <= g[i]) =>
            \A i \in I : f[i] + 1 <= g[i] => Total(f, I) + 1 <= Total(g, I)
  BY <1>0, <1>1, AllowedGrows DEF f, g, I
<1>4. retries[op] \in Nat /\ retries[op] <= Total(f, I)
  BY <1>0 DEF f, I
<1>5. retries' = retries /\ (\A i \in I : f[i] <= g[i]) => retries'[op] <= Total(g, I)
  BY <1>2, <1>3, <1>4
<1>a. \A i \in I : JobOK(job[i], ranges[i]) /\ i \in Nat
  BY <1>0 DEF JobsOK, I
<1>6. ASSUME next' = next, retries' = retries,
             \A i \in Index : job'[i] = job[i] \/ job'[i] = NoJob
      PROVE  retries'[op] <= Total(g, I)
  <2>1. ASSUME NEW i \in I
        PROVE  f[i] <= g[i]
    <3>1. job'[i] = job[i] \/ ~ AtWork(job'[i])
      BY <1>0, <1>6 DEF AtWork, NoJob, I
    <3>2. Allow(ranges[i], job[i], op) <= Allow(ranges[i], job'[i], op)
      BY <1>0, <1>a, <3>1, AllowStep DEF I
    <3>. QED
      BY <1>2, <1>6, <3>2
  <2>. QED
    BY <1>5, <1>6, <2>1
<1>7. ASSUME Submit
      PROVE  retries'[op] <= Total(g, I)
  <2>1. /\ next' = next + 1 /\ retries' = retries
        /\ job' = [job EXCEPT ![next] = Unbegun(ranges[next])]
    BY <1>7 DEF Submit
  <2>2. ASSUME NEW i \in I
        PROVE  f[i] <= g[i]
    <3>1. CASE i < next
      <4>1. job'[i] = job[i] /\ i < next'
        BY <1>0, <1>a, <2>1, <3>1 DEF I
      <4>. QED
        BY <1>2, <3>1, <4>1
    <3>2. CASE ~ (i < next)
      BY <1>2, <3>2
    <3>. QED
      BY <3>1, <3>2
  <2>. QED
    BY <1>5, <2>1, <2>2
<1>8. ASSUME NEW n \in Index, Begin(n)
      PROVE  retries'[op] <= Total(g, I)
  <2>1. /\ next' = next /\ retries' = retries /\ job[n].state = "queued"
        /\ job' = [job EXCEPT ![n].state = "running"]
    BY <1>8 DEF Begin
  <2>2. ASSUME NEW i \in I
        PROVE  f[i] <= g[i]
    <3>1. CASE i = n
      <4>1. job[n] \in Work
        BY <1>0, <2>1, JobTypes DEF NoJob
      <4>2. job'[n] = [job[n] EXCEPT !.state = "running"]
        BY <1>0, <2>1
      <4> DEFINE j == job[n]
                 k == [j EXCEPT !.state = "running"]
      <4>3. k.todo = j.todo /\ k.tries = j.tries /\ k.op = j.op /\ AtWork(k) /\ AtWork(j)
        BY <2>1, <4>1 DEF AtWork, Work
      <4> HIDE DEF k, j
      <4>4. Allow(ranges[n], k, op) = Allow(ranges[n], j, op)
        BY <4>3 DEF Allow
      <4>5. Allow(ranges[n], job'[n], op) = Allow(ranges[n], job[n], op)
        BY <4>2, <4>4 DEF k, j
      <4>6. f[i] = g[i]
        BY <1>2, <2>1, <3>1, <4>5
      <4>. QED
        BY <1>2, <4>6
    <3>2. CASE i # n
      <4>1. job'[i] = job[i]
        BY <1>0, <2>1, <3>2 DEF I
      <4>. QED
        BY <1>2, <2>1, <4>1
    <3>. QED
      BY <3>1, <3>2
  <2>. QED
    BY <1>5, <2>1, <2>2
<1>9. ASSUME NEW n \in Index, PoolAsk(n)
      PROVE  retries'[op] <= Total(g, I)
  <2>1. next' = next /\ job[n].state = "running"
    BY <1>9 DEF PoolAsk
  <2>2. PICK answer \in Ask(job[n]) :
            job' = [job EXCEPT ![n] = answer[1]] /\ Recorded(job[n], answer[2])
    BY <1>9 DEF PoolAsk
  <2>3. job'[n] = answer[1] /\ \A i \in I \ {n} : job'[i] = job[i]
    BY <1>0, <2>2 DEF I
  <2> DEFINE j == job[n]
  <2>4. /\ Allow(ranges[n], j, op) <= Allow(ranges[n], answer[1], op)
        /\ retries'[op] \in Nat
        /\ \/ retries'[op] = retries[op]
           \/ /\ retries'[op] = retries[op] + 1
              /\ Allow(ranges[n], j, op) + 1 <= Allow(ranges[n], answer[1], op)
    <3>1. JobOK(j, ranges[n]) /\ j.state = "running" /\ answer \in Ask(j) /\ Recorded(j, answer[2])
          /\ retries \in [Op -> Nat]
      BY <1>0, <1>a, <2>1, <2>2 DEF I
    <3> HIDE DEF j
    <3>. QED
      BY ONLY <3>1, AskStep, op \in Op
  <2>5. \A i \in I : f[i] <= g[i]
    BY <1>2, <2>1, <2>3, <2>4
  <2>6. n < next
    BY <2>1 DEF Begun, AtWork
  <2>7. retries'[op] = retries[op] + 1 => f[n] + 1 <= g[n]
    BY <1>0, <1>2, <1>4, <2>1, <2>3, <2>4, <2>6 DEF I
  <2>. QED
    BY <1>0, <1>2, <1>3, <1>4, <2>4, <2>5, <2>7 DEF I
<1>10. \/ next' = next /\ retries' = retries /\ \A i \in Index : job'[i] = job[i] \/ job'[i] = NoJob
       \/ Submit
       \/ \E n \in Index : Begin(n) \/ PoolAsk(n)
  <2>1. Submit \/ (\E n \in Index : Begin(n) \/ PoolAsk(n)) \/ (next' = next /\ retries' = retries)
    <3>1. CASE Main
      BY <3>1 DEF Main, Start, WaitReturns, PoolReturns, Drained, Settled, SerialNext, SerialAsk,
                  SerialAdd, SerialReturns, Collect, Done
    <3>2. CASE Signal \/ (\E i \in Index : Begin(i) \/ PoolAsk(i)) \/ Quiet \/ UNCHANGED vars
      BY <3>2 DEF Signal, InterruptPool, Interrupt, Exit, Quiet, vars
    <3>. QED
      BY <3>1, <3>2 DEF Next
  <2>2. CASE Submit \/ (\E n \in Index : Begin(n) \/ PoolAsk(n))
    BY <2>2
  <2>3. CASE ~ (Submit \/ (\E n \in Index : Begin(n) \/ PoolAsk(n)))
    BY <2>1, <2>3, JobsStep DEF JobsShrink
  <2>. QED
    BY <2>2, <2>3
<1>11. retries'[op] <= Total(g, I)
  BY <1>6, <1>7, <1>8, <1>9, <1>10
<1>12. ranges' = ranges
  BY RangesStay
<1>. QED
  BY <1>11, <1>12 DEF g, I


\* The serial loop.
LEMMA SerialStep ==
    ASSUME Typed, Typed', [Next]_vars, pc = "serial", pc' = "serial", PoolDown,
           NEW op \in Op, NEW b \in Nat,
           retries[op] <= b + Total(Allowed(ranges, Turns, next, op), 1..Len(ranges))
    PROVE  retries'[op] <= b + Total(Allowed(ranges', Turns', next', op), 1..Len(ranges'))
<1>0. /\ ranges \in Spans /\ Index = 1..Len(ranges) /\ JobsOK(ranges, Turns)
      /\ next \in Nat \ {0} /\ retries \in [Op -> Nat] /\ Index \subseteq Nat
      /\ \A i \in Index : ranges[i] \in Span /\ ranges[i].start < ranges[i].end
  BY SpansNow DEF Typed, Spans
<1>r. ranges' = ranges /\ Index' = Index
  BY RangesStay DEF Index
<1>1. /\ JobsOK(ranges, Turns')
      /\ \A i \in Index : Turns'[i] = IF i = next' - 1 THEN turn' ELSE NoJob
      /\ \A i \in Index : Turns[i] = IF i = next - 1 THEN turn ELSE NoJob
  <2>1. JobsOK(ranges, Turns)' /\ ranges' = ranges
    <3>1. WorkOK' => JobsOK(ranges, Turns)'
      BY SpansNow, PTL
    <3>. QED
      BY <1>r, <3>1 DEF Typed
  <2>. QED
    BY <1>r, <2>1 DEF Turns, JobsOK
<1> DEFINE I == 1..Len(ranges)
           f == Allowed(ranges, Turns, next, op)
           g == Allowed(ranges, Turns', next', op)
           T == Turns'
<1>2. /\ \A i \in I : f[i] = IF i < next THEN Allow(ranges[i], Turns[i], op) ELSE 0
      /\ \A i \in I : g[i] = IF i < next' THEN Allow(ranges[i], T[i], op) ELSE 0
      /\ \A i \in I : f[i] \in Nat /\ g[i] \in Nat
      /\ Total(f, I) \in Nat /\ Total(g, I) \in Nat
  <2>1. \A i \in I : f[i] = IF i < next THEN Allow(ranges[i], Turns[i], op) ELSE 0
    BY DEF Allowed
  <2>2. \A i \in I : g[i] = IF i < next' THEN Allow(ranges[i], T[i], op) ELSE 0
    BY DEF Allowed
  <2>3. (\A i \in I : f[i] \in Nat) /\ Total(f, I) \in Nat
    BY <1>0, AllowedIs
  <2>4. (\A i \in I : g[i] \in Nat) /\ Total(g, I) \in Nat
    BY <1>0, <1>1, AllowedIs
  <2> HIDE DEF f, g, I
  <2>. QED
    BY <2>1, <2>2, <2>3, <2>4
<1> HIDE DEF f, g, I
<1>3. /\ (\A i \in I : f[i] <= g[i]) => Total(f, I) <= Total(g, I)
      /\ (\A i \in I : f[i] <= g[i]) =>
            \A i \in I : f[i] + 1 <= g[i] => Total(f, I) + 1 <= Total(g, I)
  BY <1>0, <1>1, AllowedGrows DEF f, g, I
<1>4. retries[op] \in Nat /\ retries[op] <= b + Total(f, I)
  BY <1>0 DEF f, I
<1>5. retries' = retries /\ (\A i \in I : f[i] <= g[i]) => retries'[op] <= b + Total(g, I)
  BY <1>2, <1>3, <1>4
<1>a. \A i \in I : JobOK(Turns[i], ranges[i]) /\ i \in Nat /\ ranges[i] \in Span
                   /\ ranges[i].start < ranges[i].end
  BY <1>0 DEF JobsOK, I
<1>b. \A i \in I : /\ T[i] = IF i = next' - 1 THEN turn' ELSE NoJob
                   /\ Turns[i] = IF i = next - 1 THEN turn ELSE NoJob
  BY <1>0, <1>1 DEF I
<1> HIDE DEF T
<1>6. ASSUME next' = next, retries' = retries, turn' = turn \/ turn' = NoJob
      PROVE  retries'[op] <= b + Total(g, I)
  <2>1. ASSUME NEW i \in I
        PROVE  f[i] <= g[i]
    <3>1. T[i] = Turns[i] \/ ~ AtWork(T[i])
      BY <1>b, <1>6 DEF AtWork, NoJob
    <3>2. Allow(ranges[i], Turns[i], op) <= Allow(ranges[i], T[i], op)
      BY <1>a, <3>1, AllowStep
    <3>. QED
      BY <1>2, <1>6, <3>2
  <2>2. \A i \in I : f[i] <= g[i]
    BY <2>1
  <2>. QED
    BY <1>5, <1>6, <2>2
<1>7. ASSUME SerialNext
      PROVE  retries'[op] <= b + Total(g, I)
  <2>1. /\ next' = next + 1 /\ retries' = retries /\ turn.state = "none"
        /\ turn' = Fresh(ranges[next])
    BY <1>7 DEF SerialNext
  <2>2. turn = NoJob
    BY <2>1, JobTypes DEF Typed, WorkOK, JobOK
  <2>3. ASSUME NEW i \in I
        PROVE  f[i] <= g[i]
    <3>1. CASE i < next
      <4>1. T[i] = NoJob /\ Turns[i] = NoJob /\ i < next'
        BY <1>0, <1>a, <1>b, <2>1, <2>2, <3>1
      <4>2. f[i] = g[i]
        BY <1>2, <3>1, <4>1
      <4>. QED
        BY <1>2, <4>2
    <3>2. CASE ~ (i < next)
      BY <1>2, <3>2
    <3>. QED
      BY <3>1, <3>2
  <2>4. \A i \in I : f[i] <= g[i]
    BY <2>3
  <2>. QED
    BY <1>5, <2>1, <2>4
<1>8. ASSUME SerialAsk
      PROVE  retries'[op] <= b + Total(g, I)
  <2>1. next' = next /\ turn.state = "running"
    BY <1>8 DEF SerialAsk
  <2>2. PICK answer \in Ask(turn) : turn' = answer[1] /\ Recorded(turn, answer[2])
    BY <1>8 DEF SerialAsk
  <2> DEFINE n == next - 1
  <2>3. n \in I /\ n < next /\ JobOK(turn, ranges[n])
    <3>1. turn # NoJob
      BY <2>1 DEF NoJob
    <3>2. /\ next > 1 /\ JobOK(turn, ranges[next - 1])
          /\ next <= Len(ranges) + 1 /\ Len(ranges) \in Nat
      BY <3>1 DEF Typed, WorkOK, Covering
    <3>. QED
      BY <1>0, <3>2 DEF I
  <2>4. /\ Allow(ranges[n], turn, op) <= Allow(ranges[n], answer[1], op)
        /\ retries'[op] \in Nat
        /\ \/ retries'[op] = retries[op]
           \/ /\ retries'[op] = retries[op] + 1
              /\ Allow(ranges[n], turn, op) + 1 <= Allow(ranges[n], answer[1], op)
    <3>1. JobOK(turn, ranges[n]) /\ turn.state = "running" /\ answer \in Ask(turn)
          /\ Recorded(turn, answer[2]) /\ retries \in [Op -> Nat] /\ op \in Op
      BY <1>0, <2>1, <2>2, <2>3
    <3>. QED
      BY ONLY <3>1, AskStep
  <2>5. T[n] = answer[1] /\ Turns[n] = turn /\ \A i \in I \ {n} : T[i] = Turns[i]
    BY <1>b, <2>1, <2>2, <2>3
  <2> HIDE DEF n
  <2>6. \A i \in I : f[i] <= g[i]
    BY <1>2, <2>1, <2>4, <2>5
  <2>7. retries'[op] = retries[op] + 1 => f[n] + 1 <= g[n]
    BY <1>2, <2>1, <2>3, <2>4, <2>5, <1>4
  <2>. QED
    BY <1>2, <1>3, <1>4, <2>3, <2>4, <2>6, <2>7
<1>9. \/ next' = next /\ retries' = retries /\ (turn' = turn \/ turn' = NoJob)
      \/ SerialNext \/ SerialAsk
  <2>1. \A i \in Index : job[i].state \notin {"queued", "running"}
    BY DEF PoolDown, JobsIn, Typed, WorkOK
  <2>2. CASE Main
    BY <2>2 DEF Main, Start, Submit, WaitReturns, PoolReturns, Drained, Settled, SerialAdd,
                SerialReturns, Collect, Done
  <2>3. CASE Signal \/ (\E i \in Index : Begin(i) \/ PoolAsk(i)) \/ Quiet \/ UNCHANGED vars
    BY <2>1, <2>3 DEF Signal, InterruptPool, Interrupt, Exit, Begin, PoolAsk, Quiet, vars, Done
  <2>. QED
    BY <2>2, <2>3 DEF Next
<1>10. retries'[op] <= b + Total(g, I)
  BY <1>6, <1>7, <1>8, <1>9
<1>. QED
  BY <1>r, <1>10 DEF g, I, T


\* What has been allowed is a number, and not more than all.
TotalsOK ==
    /\ AllOf(ranges) \in Nat /\ Before \in Nat
    /\ \A op \in Op :
          /\ Total(Allowed(ranges, job, next, op), 1..Len(ranges)) \in Nat
          /\ Total(Allowed(ranges, Turns, next, op), 1..Len(ranges)) \in Nat
          /\ Total(Allowed(ranges, job, next, op), 1..Len(ranges)) <= AllOf(ranges)
          /\ Total(Allowed(ranges, Turns, next, op), 1..Len(ranges)) <= AllOf(ranges)
          /\ retries[op] \in Nat

LEMMA TotalsNow == Typed => TotalsOK
<1> SUFFICES ASSUME Typed PROVE TotalsOK
  OBVIOUS
<1>1. "cost" \in Op
  BY DEF Op
<1>. QED
  BY <1>1, SpansNow, AllowedIs DEF Typed, Before, TotalsOK

LEMMA RetryStep ==
    ASSUME Typed, Typed', Begun, RetryInv, [Next]_vars
    PROVE  RetryInv'
<1>0. MainOK /\ WorkOK /\ StageOK /\ WorkOK' /\ MainOK'
  BY DEF Typed
<1>r. /\ ranges' = ranges /\ Index' = Index
      /\ DOMAIN job = Index /\ job \in [Index -> {NoJob} \cup Work]
  BY <1>0, RangesStay DEF Index, WorkOK
<1>p. PoolDown <=> \A i \in Index : job[i].state \notin {"queued", "running"}
  BY <1>r DEF PoolDown, JobsIn
<1>q. job' = job => (PoolDown' <=> PoolDown)
  BY DEF PoolDown, JobsIn
<1>1. ASSUME NEW op \in Op
      PROVE  /\ Total(Allowed(ranges', job', next', op), 1..Len(ranges')) \in Nat
             /\ Total(Allowed(ranges', Turns', next', op), 1..Len(ranges')) \in Nat
             /\ AllOf(ranges') \in Nat /\ Before' \in Nat /\ AllOf(ranges') = AllOf(ranges)
             /\ Total(Allowed(ranges', job', next', op), 1..Len(ranges')) <= AllOf(ranges')
             /\ Total(Allowed(ranges', Turns', next', op), 1..Len(ranges')) <= AllOf(ranges')
             /\ retries'[op] \in Nat
  <2>1. Typed' => TotalsOK'
    BY TotalsNow, PTL
  <2>. QED
    BY <1>r, <2>1 DEF TotalsOK
<1>2. CASE pc = "serial" /\ pc' = "serial"
  <2>1. PoolDown /\ why' = why /\ job' = job
    <3>1. PoolDown /\ \A i \in Index : ~ Begin(i) /\ ~ PoolAsk(i)
      BY <1>2, <1>p DEF RetryInv, Begin, PoolAsk
    <3>2. CASE Main
      BY <1>2, <3>1, <3>2
         DEF Main, Start, Submit, WaitReturns, PoolReturns, Drained, Settled, SerialNext,
             SerialAsk, SerialAdd, SerialReturns, Collect
    <3>3. CASE Signal \/ Quiet \/ UNCHANGED vars
      BY <1>2, <3>1, <3>3 DEF Signal, InterruptPool, Interrupt, Exit, Quiet, vars
    <3>. QED
      BY <3>1, <3>2, <3>3 DEF Next
  <2>2. Before' = Before
    BY <1>r, <2>1 DEF Before
  <2>3. ASSUME NEW op \in Op
        PROVE  retries'[op] <= Before' + Total(Allowed(ranges', Turns', next', op), 1..Len(ranges'))
    <3>1. Before \in Nat
      BY TotalsNow DEF TotalsOK
    <3>2. retries[op] <= Before + Total(Allowed(ranges, Turns, next, op), 1..Len(ranges))
      BY <1>2 DEF RetryInv
    <3> DEFINE b == Before
    <3>3. b \in Nat /\ retries[op] <= b + Total(Allowed(ranges, Turns, next, op), 1..Len(ranges))
      BY <3>1, <3>2
    <3>4. PICK c \in Nat : c = b
      BY <3>3
    <3>5. retries[op] <= c + Total(Allowed(ranges, Turns, next, op), 1..Len(ranges))
      BY <3>3, <3>4
    <3>6. retries'[op] <= c + Total(Allowed(ranges', Turns', next', op), 1..Len(ranges'))
      BY <1>2, <2>1, <3>5, SerialStep
    <3>. QED
      BY <2>2, <3>4, <3>6
  <2>. QED
    BY <1>2, <1>q, <2>1, <2>3 DEF RetryInv
<1>3. CASE pc = "serial" /\ pc' # "serial"
  <2>1. /\ pc' = "done" /\ UNCHANGED <<why, job, retries>> /\ PoolDown
    <3>1. PoolDown /\ \A i \in Index : ~ Begin(i) /\ ~ PoolAsk(i)
      BY <1>3, <1>p DEF RetryInv, Begin, PoolAsk
    <3>2. CASE Main
      BY <1>3, <3>1, <3>2
         DEF Main, Start, Submit, WaitReturns, PoolReturns, Drained, Settled, SerialNext,
             SerialAsk, SerialAdd, SerialReturns, Collect, Done
    <3>3. CASE Signal \/ Quiet \/ UNCHANGED vars
      BY <1>3, <3>1, <3>3 DEF Signal, InterruptPool, Interrupt, Exit, Quiet, vars, Done
    <3>. QED
      BY <3>1, <3>2, <3>3 DEF Next
  <2>2. Before' = Before
    BY <1>r, <2>1 DEF Before
  <2>3. ASSUME NEW op \in Op
        PROVE  retries'[op] <= Before' + AllOf(ranges')
    <3>1. retries[op] <= Before + Total(Allowed(ranges, Turns, next, op), 1..Len(ranges))
      BY <1>3 DEF RetryInv
    <3>2. /\ Total(Allowed(ranges, Turns, next, op), 1..Len(ranges)) \in Nat
          /\ AllOf(ranges) \in Nat /\ Before \in Nat /\ retries[op] \in Nat
          /\ Total(Allowed(ranges, Turns, next, op), 1..Len(ranges)) <= AllOf(ranges)
      BY TotalsNow DEF TotalsOK
    <3>3. retries[op] <= Before + AllOf(ranges)
      BY <3>1, <3>2
    <3>. QED
      BY <1>r, <2>1, <2>2, <3>3
  <2>. QED
    BY <1>q, <2>1, <2>3 DEF RetryInv
\* The pool is not what it waits for any more.
<1>4. CASE pc # "serial" /\ pc' = "serial"
  <2>1. /\ UNCHANGED <<job, retries>> /\ pc \in {"ready", "pool", "drain", "settle"}
        /\ \/ pc = "ready" /\ next = 1
           \/ PoolDown /\ why' = "retryable"
    <3>1. Start \/ Drained
      <4>1. CASE Main
        BY <1>0, <1>4, <4>1 DEF Main, Submit, WaitReturns, PoolReturns, Settled, SerialNext,
                         SerialAsk, SerialAdd, SerialReturns, Collect, Done, MainOK
      <4>2. CASE Signal \/ (\E i \in Index : Begin(i) \/ PoolAsk(i)) \/ Quiet \/ UNCHANGED vars
        BY <1>4, <4>2 DEF Signal, InterruptPool, Interrupt, Exit, Begin, PoolAsk, Quiet, vars, Done
      <4>. QED
        BY <4>1, <4>2 DEF Next
    <3>. QED
      BY <1>0, <1>4, <3>1 DEF Start, Drained, Done, StageOK
  <2>2. PoolDown'
    <3>1. pc = "ready" /\ next = 1 => PoolDown
      <4>1. Index \subseteq Nat \ {0}
        BY <1>0 DEF WorkOK, Covering, Index
      <4>. QED
        BY <1>0, <1>p, <4>1 DEF StageOK, NoJob
    <3>. QED
      BY <1>q, <2>1, <3>1
  <2>3. ASSUME NEW op \in Op
        PROVE  retries'[op] <= Before' + Total(Allowed(ranges', Turns', next', op), 1..Len(ranges'))
    <3>1. retries[op] <= Total(Allowed(ranges, job, next, op), 1..Len(ranges))
      BY <2>1 DEF RetryInv
    <3>2. /\ Total(Allowed(ranges, job, next, op), 1..Len(ranges)) \in Nat
          /\ AllOf(ranges) \in Nat /\ retries[op] \in Nat
          /\ Total(Allowed(ranges, job, next, op), 1..Len(ranges)) <= AllOf(ranges)
      BY TotalsNow DEF TotalsOK
    <3>3. CASE pc = "ready" /\ next = 1
      <4>1. \A i \in 1..Len(ranges) : Allowed(ranges, job, next, op)[i] = 0
        BY <3>3, <1>0 DEF Allowed, WorkOK, Covering
      <4>2. IsFiniteSet(1..Len(ranges))
        BY <1>0, SpansNow, AllowedIs
      <4>3. Total(Allowed(ranges, job, next, op), 1..Len(ranges)) = 0
        BY <4>1, <4>2, TotalZero
      <4>. QED
        BY <1>1, <2>1, <3>1, <3>2, <4>3
    <3>4. CASE why' = "retryable"
      <4>1. Before' = AllOf(ranges)
        BY <1>r, <3>4 DEF Before
      <4>2. Total(Allowed(ranges', Turns', next', op), 1..Len(ranges')) \in Nat
        BY <1>1
      <4>. QED
        BY <2>1, <3>1, <3>2, <4>1, <4>2
    <3>. QED
      BY <2>1, <3>3, <3>4
  <2>. QED
    BY <1>4, <2>2, <2>3 DEF RetryInv
<1>5. CASE pc # "serial" /\ pc' # "serial"
  <2>1. CASE pc = "done" /\ PoolDown
    <3>1. UNCHANGED <<pc, why, job, retries>>
      <4>1. \A i \in Index : ~ Begin(i) /\ ~ PoolAsk(i)
        BY <1>p, <2>1 DEF Begin, PoolAsk
      <4>. QED
        BY <2>1, <4>1 DEF Next, Main, Signal, Start, Submit, WaitReturns, PoolReturns, Drained,
               Settled, SerialNext, SerialAsk, SerialAdd, SerialReturns, Collect, InterruptPool,
               Interrupt, Exit, Quiet, vars
    <3>2. Before' = Before
      BY <1>r, <3>1 DEF Before
    <3>. QED
      BY <1>q, <1>r, <2>1, <3>1, <3>2 DEF RetryInv
  <2>2. CASE ~ (pc = "done" /\ PoolDown)
    <3>1. pc \in {"ready", "pool", "drain", "settle"} \/ ~ PoolDown
      BY <1>0, <1>5, <2>2 DEF MainOK
    <3>2. ASSUME NEW op \in Op
          PROVE  retries'[op] <= Total(Allowed(ranges', job', next', op), 1..Len(ranges'))
      <4>1. retries[op] <= Total(Allowed(ranges, job, next, op), 1..Len(ranges))
        BY <3>1 DEF RetryInv
      <4>. QED
        BY <1>0, <1>5, <4>1, PoolStep
    <3>3. ASSUME NEW op \in Op
          PROVE  retries'[op] <= Before' + AllOf(ranges')
      BY <1>1, <3>2
    <3>. QED
      BY <1>5, <3>2, <3>3 DEF RetryInv
  <2>. QED
    BY <2>1, <2>2
<1>. QED
  BY <1>2, <1>3, <1>4, <1>5

LEMMA RetriesFollow == Typed /\ RetryInv => RetriesBounded
<1> SUFFICES ASSUME Typed, RetryInv, NEW op \in Op
             PROVE  LET parts == Total([i \in Index |-> 2 * Cardinality(Days(ranges[i])) - 1],
                                       Index)
                        passes == IF why = "retryable" THEN 2 ELSE 1
                    IN  retries[op] <= passes * parts * (MaxAttempts - 1)
  BY DEF RetriesBounded
<1>0. /\ ranges \in Spans /\ Index = 1..Len(ranges) /\ IsFiniteSet(Index)
      /\ \A i \in Index : ranges[i] \in Span /\ ranges[i].start < ranges[i].end
      /\ MainOK
  <2>1. MainOK /\ WorkOK
    BY DEF Typed
  <2>2. ranges \in Spans /\ Index = 1..Len(ranges) /\ JobsOK(ranges, job)
    BY <2>1, SpansNow
  <2>3. IsFiniteSet(Index)
    BY <2>2, AllowedIs
  <2>. QED
    BY <2>1, <2>2, <2>3 DEF Spans
<1>1. /\ Total(Allowed(ranges, job, next, op), Index) \in Nat
      /\ Total(Allowed(ranges, Turns, next, op), Index) \in Nat
      /\ AllOf(ranges) \in Nat /\ Before \in Nat /\ retries[op] \in Nat
      /\ Total(Allowed(ranges, job, next, op), Index) <= AllOf(ranges)
      /\ Total(Allowed(ranges, Turns, next, op), Index) <= AllOf(ranges)
  BY <1>0, TotalsNow DEF TotalsOK
<1>2. retries[op] <= Before + AllOf(ranges)
  <2>1. CASE pc \in {"ready", "pool", "drain", "settle"}
    BY <1>0, <1>1, <2>1 DEF RetryInv
  <2>2. CASE pc = "serial"
    BY <1>0, <1>1, <2>2 DEF RetryInv
  <2>3. CASE pc = "done"
    BY <2>3 DEF RetryInv
  <2>. QED
    BY <1>0, <2>1, <2>2, <2>3 DEF MainOK
<1> DEFINE f == [i \in Index |-> 2 * Cardinality(Days(ranges[i])) - 1]
           g == [i \in Index |-> Parts(ranges[i]) * Most]
           parts == Total(f, Index)
<1>3. Most \in Nat /\ \A i \in Index : f[i] \in Nat /\ g[i] = f[i] * Most
  <2>1. Most \in Nat
    BY EstimateAssumption DEF Most
  <2>2. \A i \in Index : f[i] = Parts(ranges[i]) /\ Parts(ranges[i]) \in Nat
    BY <1>0, PartsIs
  <2>. QED
    BY <2>1, <2>2
<1>4. Total(g, Index) = AllOf(ranges)
  BY <1>0 DEF AllOf
<1> HIDE DEF f, g
<1>5. parts \in Nat /\ AllOf(ranges) = parts * Most
  <2>1. Most \in Int /\ \A i \in Index : f[i] \in Int /\ g[i] = f[i] * Most
    BY <1>3
  <2>2. Total(g, Index) = Total(f, Index) * Most
    BY ONLY <1>0, <2>1, TotalTimes
  <2>3. \A i \in Index : f[i] \in Nat
    BY <1>3
  <2>4. Total(f, Index) \in Nat
    BY ONLY <1>0, <2>3, TotalNat
  <2>. QED
    BY <1>4, <2>2, <2>4
<1> HIDE DEF parts
<1>6. CASE why = "retryable"
  <2>1. retries[op] <= 2 * (parts * Most)
    BY <1>1, <1>2, <1>5, <1>6 DEF Before
  <2>2. 2 * (parts * Most) = 2 * parts * Most
    BY <1>3, <1>5
  <2>. QED
    BY <1>6, <2>1, <2>2 DEF parts, f, Most
<1>7. CASE why # "retryable"
  <2>1. retries[op] <= 1 * parts * Most
    BY <1>1, <1>2, <1>3, <1>5, <1>7 DEF Before
  <2>. QED
    BY <1>7, <2>1 DEF parts, f, Most
<1>. QED
  BY <1>6, <1>7

\* However often a range is split and retried, in the pool and once more one by one, its
\* retries are those of its parts.
THEOREM RetriesOfParts == Spec => []RetriesBounded
<1>1. Init => Typed /\ Begun /\ RetryInv
  <2> SUFFICES ASSUME Init PROVE Typed /\ Begun /\ RetryInv
    OBVIOUS
  <2>1. Typed
    BY TypedInit
  <2>2. job = [i \in Index |-> NoJob] /\ pc = "ready" /\ \A op \in Op : retries[op] = 0
    BY DEF Init
  <2>3. \A i \in Index : ~ AtWork(job[i]) /\ job[i].state \notin {"queued", "running"}
    BY <2>2 DEF NoJob, AtWork
  <2>4. PoolDown
    BY <2>2, <2>3 DEF PoolDown, JobsIn
  <2>5. \A op \in Op : retries[op] <= Total(Allowed(ranges, job, next, op), 1..Len(ranges))
    BY <2>1, <2>2, TotalsNow DEF TotalsOK
  <2>. QED
    BY <2>1, <2>2, <2>3, <2>4, <2>5 DEF Begun, RetryInv
<1>2. Typed /\ Begun /\ RetryInv /\ [Next]_vars => (Typed /\ Begun /\ RetryInv)'
  BY TypedStep, BegunStep, RetryStep DEF RetryInv
<1>. QED
  BY <1>1, <1>2, RetriesFollow, PTL DEF Spec
=============================================================================
