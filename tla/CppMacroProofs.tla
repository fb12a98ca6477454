--------------------------- MODULE CppMacroProofs ---------------------------
(***************************************************************************)
(* The counters that keep a macro from being expanded in its own text: blue  *)
(* is raised and lowered in balance by the nested calls of                    *)
(* eval_expand_macros(), for every macro table and every line.                *)
(***************************************************************************)
EXTENDS CppMacro, SequenceTheorems, FiniteSetTheorems, TLAPS

(* A call of eval_expand_macros(), and what its eval_macro() is doing.         *)
Fields == {"line", "at", "stage", "m", "word", "close", "pre", "argpre", "painted", "args", "ti",
           "text", "resume"}
IsFrame(fr) ==
  /\ fr = [field \in Fields |-> fr[field]]
  /\ fr.painted \subseteq Names
  /\ fr.stage # "rescan" => fr.painted = {}
  /\ fr.stage # "scan" => fr.m \in Names

Frames(s) == \E S : s \in Seq(S)

(* Only the innermost call runs; the ones around it wait for the expansion of  *)
(* the rewritten line or of an argument.                                       *)
Running == {"scan", "subst"}
Waiting == {"rescan", "arg"}
Nested(s) ==
  /\ Len(s) \in Nat \ {0}
  /\ \A i \in 1..Len(s) : IsFrame(s[i])
  /\ \A i \in 1..(Len(s) - 1) : s[i].stage \in Waiting
  /\ s[Len(s)].stage \in Running

(* The calls that evaluate n, and the ones that painted it.                     *)
Doing(n) == {i \in DOMAIN frames : frames[i].stage # "scan" /\ frames[i].m = n}
Painting(n) == {i \in DOMAIN frames : n \in frames[i].painted}

FrameInv ==
  /\ Frames(frames) /\ Nested(frames)
  /\ blue \in [Names -> Int]
  /\ outcome = "done" => Len(frames) = 1 /\ Top.stage = "scan"

BlueInv == FrameInv /\ BlueIsInProgress

-----------------------------------------------------------------------------
(* What one frame adds to the count of n. *)
Does(fr, n) == IF fr.stage # "scan" /\ fr.m = n THEN 1 ELSE 0
Paints(fr, n) == IF n \in fr.painted THEN 1 ELSE 0

(* Two sets of calls that differ in one. *)
LEMMA OneDiffers ==
  ASSUME NEW S, NEW T, IsFiniteSet(S), NEW k, \A i : i # k => (i \in T <=> i \in S)
  PROVE Cardinality(T) = Cardinality(S) - (IF k \in S THEN 1 ELSE 0) + (IF k \in T THEN 1 ELSE 0)
<1>1. Cardinality(S) \in Nat
  BY FS_CardinalityType
<1>2. CASE k \in S /\ k \in T
  <2>1. T = S
    BY <1>2
  <2> QED BY <1>1, <1>2, <2>1
<1>3. CASE k \notin S /\ k \notin T
  <2>1. T = S
    BY <1>3
  <2> QED BY <1>1, <1>3, <2>1
<1>4. CASE k \in S /\ k \notin T
  <2>1. T = S \ {k}
    BY <1>4
  <2>2. Cardinality(S \ {k}) = Cardinality(S) - 1
    BY <1>4, FS_RemoveElement
  <2> QED BY <1>1, <1>4, <2>1, <2>2
<1>5. CASE k \notin S /\ k \in T
  <2>1. T = S \cup {k}
    BY <1>5
  <2>2. Cardinality(S \cup {k}) = Cardinality(S) + 1
    BY <1>5, FS_AddElement
  <2> QED BY <1>1, <1>5, <2>1, <2>2
<1> QED BY <1>2, <1>3, <1>4, <1>5

(* A step that changes what the call k is doing, and what running calls come    *)
(* after it, changes the counts by what k did before and does now.             *)
OnlyFrame(k) ==
  /\ k \in DOMAIN frames /\ k \in DOMAIN frames'
  /\ \A i : i # k => /\ i \in DOMAIN frames /\ i \in DOMAIN frames' => frames'[i] = frames[i]
                     /\ i \in DOMAIN frames /\ i \notin DOMAIN frames' =>
                          frames[i].stage = "scan" /\ frames[i].painted = {}
                     /\ i \notin DOMAIN frames /\ i \in DOMAIN frames' =>
                          frames'[i].stage = "scan" /\ frames'[i].painted = {}

LEMMA FramesFinite ==
  ASSUME Frames(frames) PROVE DOMAIN frames = 1..Len(frames) /\ IsFiniteSet(DOMAIN frames)
<1>1. PICK S : frames \in Seq(S)
  BY DEF Frames
<1>2. Len(frames) \in Nat /\ DOMAIN frames = 1..Len(frames)
  BY <1>1
<1>3. IsFiniteSet(1..Len(frames))
  BY <1>2, FS_Interval
<1> QED BY <1>2, <1>3

LEMMA CountsChange ==
  ASSUME FrameInv, NEW k, OnlyFrame(k), NEW n
  PROVE /\ Cardinality(Doing(n)') = Cardinality(Doing(n)) - Does(frames[k], n) + Does(frames'[k], n)
        /\ Cardinality(Painting(n)')
             = Cardinality(Painting(n)) - Paints(frames[k], n) + Paints(frames'[k], n)
        /\ Cardinality(Doing(n)) \in Nat /\ Cardinality(Painting(n)) \in Nat
<1>1. IsFiniteSet(DOMAIN frames)
  BY FramesFinite DEF FrameInv
<1>2. IsFiniteSet(Doing(n)) /\ IsFiniteSet(Painting(n))
  <2>1. Doing(n) \in SUBSET DOMAIN frames /\ Painting(n) \in SUBSET DOMAIN frames
    BY DEF Doing, Painting
  <2> QED BY <1>1, <2>1, FS_Subset
<1>3. \A i : i # k => (i \in Doing(n)' <=> i \in Doing(n))
  BY DEF OnlyFrame, Doing
<1>4. \A i : i # k => (i \in Painting(n)' <=> i \in Painting(n))
  BY DEF OnlyFrame, Painting
<1>5. (k \in Doing(n) <=> frames[k].stage # "scan" /\ frames[k].m = n)
      /\ (k \in Doing(n)' <=> frames'[k].stage # "scan" /\ frames'[k].m = n)
  BY DEF OnlyFrame, Doing
<1>6. (k \in Painting(n) <=> n \in frames[k].painted) /\ (k \in Painting(n)' <=> n \in frames'[k].painted)
  BY DEF OnlyFrame, Painting
<1> DEFINE D == Doing(n)
           DD == Doing(n)'
           P == Painting(n)
           PP == Painting(n)'
<1>7. Cardinality(DD) = Cardinality(D) - (IF k \in D THEN 1 ELSE 0) + (IF k \in DD THEN 1 ELSE 0)
  <2> HIDE DEF D, DD
  <2> QED BY <1>2, <1>3, OneDiffers DEF D, DD
<1>8. Cardinality(PP) = Cardinality(P) - (IF k \in P THEN 1 ELSE 0) + (IF k \in PP THEN 1 ELSE 0)
  <2> HIDE DEF P, PP
  <2> QED BY <1>2, <1>4, OneDiffers DEF P, PP
<1>9. Cardinality(D) \in Nat /\ Cardinality(P) \in Nat
  BY <1>2, FS_CardinalityType
<1>10. /\ (IF k \in D THEN 1 ELSE 0) = Does(frames[k], n)
       /\ (IF k \in DD THEN 1 ELSE 0) = Does(frames'[k], n)
  BY <1>5 DEF Does
<1>11. /\ (IF k \in P THEN 1 ELSE 0) = Paints(frames[k], n)
       /\ (IF k \in PP THEN 1 ELSE 0) = Paints(frames'[k], n)
  BY <1>6 DEF Paints
<1> QED BY <1>7, <1>8, <1>9, <1>10, <1>11, Zenon

(* So BlueIsInProgress is kept by a step that changes blue by as much.          *)
LEMMA BlueFollows ==
  ASSUME BlueInv, UNCHANGED table, NEW k, OnlyFrame(k),
         \A n \in Names : blue'[n] = blue[n] - Does(frames[k], n) + Does(frames'[k], n)
                                             - Paints(frames[k], n) + Paints(frames'[k], n)
  PROVE BlueIsInProgress'
<1> SUFFICES ASSUME NEW n \in Names
             PROVE blue'[n] = Cardinality(Doing(n)') + Cardinality(Painting(n)')
  BY DEF BlueIsInProgress, Doing, Painting, Names
<1>1. blue[n] = Cardinality(Doing(n)) + Cardinality(Painting(n))
  BY DEF BlueInv, BlueIsInProgress, Doing, Painting
<1>2. /\ Cardinality(Doing(n)') = Cardinality(Doing(n)) - Does(frames[k], n) + Does(frames'[k], n)
      /\ Cardinality(Painting(n)')
           = Cardinality(Painting(n)) - Paints(frames[k], n) + Paints(frames'[k], n)
      /\ Cardinality(Doing(n)) \in Nat /\ Cardinality(Painting(n)) \in Nat
  BY CountsChange DEF BlueInv
<1>3. /\ Does(frames[k], n) \in Int /\ Does(frames'[k], n) \in Int
      /\ Paints(frames[k], n) \in Int /\ Paints(frames'[k], n) \in Int
  BY DEF Does, Paints
<1> DEFINE a == Cardinality(Doing(n))
           b == Cardinality(Painting(n))
           c == Cardinality(Doing(n)')
           d == Cardinality(Painting(n)')
           p == Does(frames[k], n)
           q == Does(frames'[k], n)
           r == Paints(frames[k], n)
           s == Paints(frames'[k], n)
<1>4. blue'[n] = blue[n] - p + q - r + s /\ blue[n] = a + b
  BY <1>1
<1>5. c = a - p + q /\ d = b - r + s /\ a \in Nat /\ b \in Nat
      /\ p \in Int /\ q \in Int /\ r \in Int /\ s \in Int
  BY <1>2, <1>3
<1> HIDE DEF a, b, c, d, p, q, r, s
<1>6. blue'[n] = c + d
  BY <1>4, <1>5
<1> QED BY <1>6 DEF c, d

-----------------------------------------------------------------------------
(* The three things a step does to the stack of calls.                         *)

LEMMA FrameKept == ASSUME UNCHANGED table PROVE \A fr : IsFrame(fr) => IsFrame(fr)'
  BY DEF IsFrame, Names

LEMMA TopIsFrame ==
  ASSUME FrameInv
  PROVE /\ Len(frames) \in 1..Len(frames) /\ IsFrame(Top) /\ Top.stage \in Running
        /\ Len(frames) > 1 => /\ Len(frames) - 1 \in 1..Len(frames)
                              /\ IsFrame(Caller) /\ Caller.stage \in Waiting
  BY DEF FrameInv, Nested, Top, Caller

LEMMA SetKeeps ==
  ASSUME FrameInv, UNCHANGED table, NEW g, IsFrame(g), g.stage \in Running, SetTop(g)
  PROVE /\ Frames(frames)' /\ Nested(frames)' /\ OnlyFrame(Len(frames))
        /\ frames'[Len(frames)] = g
<1> DEFINE n == Len(frames)
<1>1. PICK S : frames \in Seq(S)
  BY DEF FrameInv, Frames
<1> DEFINE T == S \cup {g}
<1>2. frames \in Seq(T) /\ n \in Nat /\ n \in 1..n /\ DOMAIN frames = 1..n /\ g \in T
  BY <1>1, TopIsFrame
<1>3. frames' = [frames EXCEPT ![n] = g]
  BY DEF SetTop
<1> HIDE DEF T
<1>4. /\ frames' \in Seq(T) /\ Len(frames') = n
      /\ \A i \in 1..n : frames'[i] = IF i = n THEN g ELSE frames[i]
  BY <1>2, <1>3, ExceptSeq
<1>5. DOMAIN frames' = 1..n
  <2>1. DOMAIN frames' = 1..Len(frames')
    BY <1>4
  <2> QED BY <2>1, <1>4
<1>6. Frames(frames)'
  BY <1>4 DEF Frames
<1>7. Nested(frames)'
  <2>1. \A i \in 1..n : IsFrame(frames[i]) /\ IsFrame(frames'[i])
    BY <1>4 DEF FrameInv, Nested
  <2>2. \A i \in 1..n : IsFrame(frames[i])'
    BY <2>1, FrameKept
  <2>3. \A i \in 1..(n - 1) : frames'[i].stage \in Waiting
    <3>1. \A i \in 1..(n - 1) : frames[i].stage \in Waiting
      BY DEF FrameInv, Nested
    <3> HIDE DEF n
    <3>2. \A i \in 1..(n - 1) : frames'[i] = frames[i]
      BY <1>2, <1>4
    <3> QED BY <3>1, <3>2
  <2>4. frames'[n].stage \in Running /\ n \in Nat \ {0}
    <3> HIDE DEF n
    <3>1. frames'[n] = g
      BY <1>2, <1>4
    <3> QED BY <3>1, <1>2
  <2> HIDE DEF n
  <2> QED BY <1>4, <2>2, <2>3, <2>4 DEF Nested
<1>8. OnlyFrame(n)
  BY <1>2, <1>4, <1>5 DEF OnlyFrame
<1> QED BY <1>2, <1>4, <1>6, <1>7, <1>8

LEMMA PushKeeps ==
  ASSUME FrameInv, UNCHANGED table, NEW g, IsFrame(g), g.stage \in Waiting,
         NEW h, IsFrame(h), h.stage = "scan", PushTop(g, h)
  PROVE /\ Frames(frames)' /\ Nested(frames)' /\ OnlyFrame(Len(frames))
        /\ frames'[Len(frames)] = g
<1> DEFINE n == Len(frames)
           s == [frames EXCEPT ![n] = g]
<1>1. PICK S : frames \in Seq(S)
  BY DEF FrameInv, Frames
<1> DEFINE T == S \cup {g, h}
<1>2. frames \in Seq(T) /\ n \in Nat /\ n \in 1..n /\ DOMAIN frames = 1..n /\ g \in T /\ h \in T
  BY <1>1, TopIsFrame
<1>3. frames' = Append(s, h)
  BY DEF PushTop
<1> HIDE DEF T
<1>4. /\ s \in Seq(T) /\ Len(s) = n
      /\ \A i \in 1..n : s[i] = IF i = n THEN g ELSE frames[i]
  BY <1>2, ExceptSeq
<1> HIDE DEF s
<1>5. /\ frames' \in Seq(T) /\ Len(frames') = n + 1 /\ frames'[n + 1] = h
      /\ \A i \in 1..n : frames'[i] = IF i = n THEN g ELSE frames[i]
  <2>1. /\ Append(s, h) \in Seq(T) /\ Len(Append(s, h)) = Len(s) + 1 /\ Append(s, h)[Len(s) + 1] = h
        /\ \A i \in 1..Len(s) : Append(s, h)[i] = s[i]
    <3>1. s \in Seq(T) /\ h \in T
      BY <1>2, <1>4
    <3> QED BY <3>1, AppendProperties, ZenonT(30)
  <2> HIDE DEF n
  <2> QED BY <2>1, <1>3, <1>4
<1>6. DOMAIN frames' = 1..(n + 1)
  <2>1. DOMAIN frames' = 1..Len(frames')
    BY <1>5
  <2> QED BY <2>1, <1>5
<1>7. Frames(frames)'
  BY <1>5 DEF Frames
<1>8. Nested(frames)'
  <2>1. \A i \in 1..(n + 1) : IsFrame(frames'[i])
    <3> TAKE i \in 1..(n + 1)
    <3>1. CASE i = n + 1
      BY <3>1, <1>5
    <3>2. CASE i \in 1..n
      BY <3>2, <1>5 DEF FrameInv, Nested
    <3> QED BY <1>2, <3>1, <3>2
  <2>2. \A i \in 1..(n + 1) : IsFrame(frames[i])'
    BY <2>1, FrameKept
  <2>3. \A i \in 1..n : frames'[i].stage \in Waiting
    <3>1. \A i \in 1..(n - 1) : frames[i].stage \in Waiting
      BY DEF FrameInv, Nested
    <3> HIDE DEF n
    <3> TAKE i \in 1..n
    <3>2. CASE i = n
      BY <3>2, <1>2, <1>5
    <3>3. CASE i \in 1..(n - 1)
      <4>1. frames'[i] = frames[i]
        BY <3>3, <1>2, <1>5
      <4> QED BY <3>1, <3>3, <4>1
    <3> QED BY <3>2, <3>3, <1>2
  <2>4. frames'[n + 1].stage \in Running /\ n + 1 \in Nat \ {0} /\ (n + 1) - 1 = n
    <3>1. frames'[n + 1].stage \in Running
      BY <1>5 DEF Running
    <3> HIDE DEF n
    <3> QED BY <3>1, <1>2
  <2> HIDE DEF n
  <2> QED BY <1>5, <2>2, <2>3, <2>4 DEF Nested
<1>9. OnlyFrame(n)
  <2>1. h.painted = {}
    BY DEF IsFrame
  <2>2. n \in DOMAIN frames /\ n \in DOMAIN frames'
    BY <1>2, <1>6
  <2>3. \A i : i # n /\ i \in DOMAIN frames /\ i \in DOMAIN frames' => frames'[i] = frames[i]
    BY <1>2, <1>5
  <2>4. \A i : i \in DOMAIN frames => i \in DOMAIN frames'
    BY <1>2, <1>6
  <2>5. \A i : i \notin DOMAIN frames /\ i \in DOMAIN frames' => i = n + 1
    BY <1>2, <1>6
  <2> QED BY <1>5, <2>1, <2>2, <2>3, <2>4, <2>5 DEF OnlyFrame
<1> QED BY <1>2, <1>5, <1>7, <1>8, <1>9

LEMMA PopKeeps ==
  ASSUME FrameInv, UNCHANGED table, Len(frames) > 1, Top.stage = "scan",
         NEW g, IsFrame(g), g.stage \in Running, PopTo(g)
  PROVE /\ Frames(frames)' /\ Nested(frames)' /\ OnlyFrame(Len(frames) - 1)
        /\ frames'[Len(frames) - 1] = g
<1> DEFINE n == Len(frames) - 1
           s == SubSeq(frames, 1, Len(frames) - 2)
<1>1. PICK S : frames \in Seq(S)
  BY DEF FrameInv, Frames
<1> DEFINE T == S \cup {g}
<1>2. /\ frames \in Seq(T) /\ n \in Nat /\ n \in 1..n /\ DOMAIN frames = 1..(n + 1) /\ g \in T
      /\ Len(frames) = n + 1 /\ Len(frames) - 2 = n - 1
  BY <1>1, TopIsFrame
<1>3. frames' = Append(s, g)
  BY DEF PopTo
<1> HIDE DEF T
<1>4. /\ s \in Seq(T) /\ Len(s) = n - 1
      /\ \A i \in 1..(n - 1) : s[i] = frames[i]
  BY <1>2
<1> HIDE DEF s
<1>5. /\ frames' \in Seq(T) /\ Len(frames') = n /\ frames'[n] = g
      /\ \A i \in 1..(n - 1) : frames'[i] = frames[i]
  <2>1. /\ Append(s, g) \in Seq(T) /\ Len(Append(s, g)) = Len(s) + 1 /\ Append(s, g)[Len(s) + 1] = g
        /\ \A i \in 1..Len(s) : Append(s, g)[i] = s[i]
    <3>1. s \in Seq(T) /\ g \in T
      BY <1>2, <1>4
    <3> QED BY <3>1, AppendProperties, ZenonT(30)
  <2>2. (n - 1) + 1 = n
    BY <1>2
  <2> HIDE DEF n
  <2> QED BY <2>1, <2>2, <1>3, <1>4
<1>6. DOMAIN frames' = 1..n
  <2>1. DOMAIN frames' = 1..Len(frames')
    BY <1>5
  <2> QED BY <2>1, <1>5
<1>7. Frames(frames)'
  BY <1>5 DEF Frames
<1>8. Nested(frames)'
  <2>1. \A i \in 1..n : IsFrame(frames'[i])
    <3> TAKE i \in 1..n
    <3>1. CASE i = n
      BY <3>1, <1>5
    <3>2. CASE i \in 1..(n - 1)
      BY <3>2, <1>2, <1>5 DEF FrameInv, Nested
    <3> HIDE DEF n
    <3> QED BY <1>2, <3>1, <3>2
  <2>2. \A i \in 1..n : IsFrame(frames[i])'
    BY <2>1, FrameKept
  <2>3. \A i \in 1..(n - 1) : frames'[i].stage \in Waiting
    <3>1. \A i \in 1..n : frames[i].stage \in Waiting
      BY <1>2 DEF FrameInv, Nested
    <3> HIDE DEF n
    <3> QED BY <3>1, <1>2, <1>5
  <2>4. frames'[n].stage \in Running /\ n \in Nat \ {0}
    BY <1>2, <1>5
  <2> HIDE DEF n
  <2> QED BY <1>5, <2>2, <2>3, <2>4 DEF Nested
<1>9. OnlyFrame(n)
  <2>1. Top.painted = {} /\ Top = frames[n + 1]
    BY <1>2, TopIsFrame DEF IsFrame, Top
  <2>2. n \in DOMAIN frames /\ n \in DOMAIN frames'
    BY <1>2, <1>6
  <2>3. \A i : i # n /\ i \in DOMAIN frames /\ i \in DOMAIN frames' => frames'[i] = frames[i]
    BY <1>2, <1>5, <1>6
  <2>4. \A i : i \in DOMAIN frames' => i \in DOMAIN frames
    BY <1>2, <1>6
  <2>5. \A i : i \notin DOMAIN frames' /\ i \in DOMAIN frames => i = n + 1
    BY <1>2, <1>6
  <2> QED BY <2>1, <2>2, <2>3, <2>4, <2>5 DEF OnlyFrame
<1> QED BY <1>2, <1>5, <1>7, <1>8, <1>9

-----------------------------------------------------------------------------
(* The frames that steps make. *)

LEMMA FieldNames ==
  /\ \A x \in {"at", "stage", "m", "painted", "resume", "args", "text", "ti", "close", "argpre",
               "word", "pre"} : x \in Fields
  BY DEF Fields

LEMMA FreshIsFrame ==
  ASSUME NEW line PROVE IsFrame(Fresh(line)) /\ Fresh(line).stage = "scan"
<1>1. DOMAIN Fresh(line) = Fields /\ Fresh(line) = [field \in DOMAIN Fresh(line) |-> Fresh(line)[field]]
  BY DEF Fresh, Fields
<1>2. Fresh(line).stage = "scan" /\ Fresh(line).painted = {}
  BY DEF Fresh
<1> QED BY <1>1, <1>2 DEF IsFrame

LEMMA ResumeIsFrame ==
  ASSUME NEW line, NEW i PROVE IsFrame(Resume(line, i)) /\ Resume(line, i).stage = "scan"
  BY FreshIsFrame, FieldNames DEF IsFrame, Resume

LEMMA MovedIsFrame ==
  ASSUME NEW f, IsFrame(f), NEW i
  PROVE IsFrame([f EXCEPT !.at = i]) /\ [f EXCEPT !.at = i].stage = f.stage
  BY FieldNames DEF IsFrame

LEMMA RescanIsFrame ==
  ASSUME NEW f, IsFrame(f), f.m \in Names, NEW changed \in SUBSET Names, NEW from
  PROVE LET g == [f EXCEPT !.stage = "rescan", !.painted = changed, !.resume = from,
                           !.args = <<>>, !.text = <<>>, !.ti = 0]
        IN IsFrame(g) /\ g.stage = "rescan" /\ g.m = f.m /\ g.painted = changed
  BY FieldNames DEF IsFrame

LEMMA EnteredIsFrame ==
  ASSUME NEW f, IsFrame(f), f.stage = "scan", NEW w, w.name \in Names
  PROVE LET g == Entered(f, w)
        IN IsFrame(g) /\ g.stage = "scan" /\ g.m = w.name /\ g.painted = {}
  BY FieldNames DEF IsFrame, Entered

LEMMA CallIsFrame ==
  ASSUME NEW f, IsFrame(f), f.stage = "scan", f.m \in Names, NEW close, NEW args
  PROVE LET g == [f EXCEPT !.stage = "subst", !.close = close, !.args = args, !.ti = 1]
        IN IsFrame(g) /\ g.stage = "subst" /\ g.m = f.m /\ g.painted = {}
  BY FieldNames DEF IsFrame

LEMMA ArgIsFrame ==
  ASSUME NEW f, IsFrame(f), f.stage = "subst"
  PROVE LET g == [f EXCEPT !.stage = "arg", !.argpre = use_cnt]
        IN IsFrame(g) /\ g.stage = "arg" /\ g.m = f.m /\ g.painted = {}
  BY FieldNames DEF IsFrame

LEMMA AppendedIsFrame ==
  ASSUME NEW f, IsFrame(f), f.stage \in {"subst", "arg"}, NEW s, NEW n
  PROVE LET g == Appended(f, s, n)
        IN IsFrame(g) /\ g.stage = "subst" /\ g.m = f.m /\ g.painted = {}
  BY FieldNames DEF IsFrame, Appended

-----------------------------------------------------------------------------
LEMMA Assemble ==
  ASSUME BlueInv, UNCHANGED table, outcome' = "running", Frames(frames)', Nested(frames)',
         blue' \in [Names -> Int], NEW k, OnlyFrame(k),
         \A n \in Names : blue'[n] = blue[n] - Does(frames[k], n) + Does(frames'[k], n)
                                             - Paints(frames[k], n) + Paints(frames'[k], n)
  PROVE BlueInv'
<1>1. BlueIsInProgress'
  BY BlueFollows
<1>2. Names' = Names
  BY DEF Names
<1> QED BY <1>1, <1>2 DEF BlueInv, FrameInv

LEMMA StopKeeps == ASSUME BlueInv, NEW why, why # "done", Stop(why) PROVE BlueInv'
<1>1. UNCHANGED <<table, blue, frames>> /\ outcome' # "done"
  BY DEF Stop, input
<1>2. UNCHANGED Names /\ FrameInv'
  BY <1>1 DEF BlueInv, FrameInv, Frames, Nested, IsFrame, Names
<1> QED BY <1>1, <1>2 DEF BlueInv, BlueIsInProgress

(* The running call goes on with the same counts. *)
LEMMA SetSameKeeps ==
  ASSUME BlueInv, outcome = "running", NEW g, IsFrame(g), g.stage \in Running, g.painted = {},
         \A n \in Names : Does(g, n) = Does(Top, n), SetTop(g),
         UNCHANGED <<table, blue, outcome>>
  PROVE BlueInv'
<1>1. FrameInv
  BY DEF BlueInv
<1>2. /\ Frames(frames)' /\ Nested(frames)' /\ OnlyFrame(Len(frames))
      /\ frames'[Len(frames)] = g
  BY <1>1, SetKeeps
<1>3. Top = frames[Len(frames)] /\ Top.painted = {}
  BY <1>1, TopIsFrame DEF Top, IsFrame, Running
<1>4. ASSUME NEW n \in Names
      PROVE blue'[n] = blue[n] - Does(Top, n) + Does(g, n) - Paints(Top, n) + Paints(g, n)
  <2>1. Paints(Top, n) = 0 /\ Paints(g, n) = 0 /\ Does(g, n) = Does(Top, n)
    BY <1>3 DEF Paints
  <2>2. Does(Top, n) \in Int /\ blue[n] \in Int
    BY <1>1 DEF Does, FrameInv
  <2> QED BY <2>1, <2>2
<1>5. blue' \in [Names -> Int]
  BY <1>1 DEF FrameInv
<1> HIDE DEF Top
<1> QED BY <1>2, <1>3, <1>4, <1>5, Assemble

(* The line is expanded again: the macros used since the snapshot are painted. *)
LEMMA DoubleEvalKeeps ==
  ASSUME BlueInv, outcome = "running", NEW f, IsFrame(f), f.m \in Names,
         NEW line, NEW from, NEW used, NEW b \in [Names -> Int],
         \A n \in Names : b[n] = blue[n] - Does(Top, n) + IF n = f.m THEN 1 ELSE 0,
         DoubleEval(f, line, from, used, b)
  PROVE BlueInv'
<1>1. CASE Len(line) > MaxLine
  BY <1>1, StopKeeps DEF DoubleEval
<1>2. CASE ~(Len(line) > MaxLine)
  <2> DEFINE changed == {n \in Names : used[n] # f.pre[n]}
             g == [f EXCEPT !.stage = "rescan", !.painted = changed, !.resume = from,
                            !.args = <<>>, !.text = <<>>, !.ti = 0]
  <2>1. /\ blue' = Paint(changed, 1, b) /\ PushTop(g, Fresh(line))
        /\ UNCHANGED <<table, outcome>>
    BY <1>2 DEF DoubleEval, input
  <2>2. changed \in SUBSET Names
    OBVIOUS
  <2> HIDE DEF changed
  <2>3. IsFrame(g) /\ g.stage = "rescan" /\ g.m = f.m /\ g.painted = changed
    BY <2>2, RescanIsFrame, ZenonT(30)
  <2> HIDE DEF g
  <2>4. FrameInv /\ IsFrame(Fresh(line)) /\ Fresh(line).stage = "scan" /\ g.stage \in Waiting
    BY <2>3, FreshIsFrame DEF BlueInv, Waiting
  <2>5. /\ Frames(frames)' /\ Nested(frames)' /\ OnlyFrame(Len(frames))
        /\ frames'[Len(frames)] = g
    BY <2>1, <2>3, <2>4, PushKeeps
  <2>6. Top = frames[Len(frames)] /\ Top.painted = {}
    BY <2>4, TopIsFrame DEF Top, IsFrame, Running
  <2>7. /\ blue' \in [Names -> Int]
        /\ \A n \in Names : blue'[n] = b[n] + IF n \in changed THEN 1 ELSE 0
    BY <2>1 DEF Paint
  <2>8. ASSUME NEW n \in Names
        PROVE blue'[n] = blue[n] - Does(Top, n) + Does(g, n) - Paints(Top, n) + Paints(g, n)
    <3>1. Paints(Top, n) = 0 /\ Paints(g, n) = IF n \in changed THEN 1 ELSE 0
      BY <2>3, <2>6 DEF Paints
    <3>2. Does(g, n) = IF n = f.m THEN 1 ELSE 0
      BY <2>3 DEF Does
    <3>3. Does(Top, n) \in Int /\ blue[n] \in Int
      BY <2>4 DEF Does, FrameInv
    <3> QED BY <3>1, <3>2, <3>3, <2>7
  <2> HIDE DEF Top
  <2> QED BY <2>1, <2>5, <2>6, <2>7, <2>8, Assemble
<1> QED BY <1>1, <1>2

LEMMA EvalCallKeeps ==
  ASSUME BlueInv, outcome = "running", NEW w, EvalCall(Top, w) PROVE BlueInv'
<1> DEFINE e == Entered(Top, w)
           g == [e EXCEPT !.stage = "subst", !.close = CloseB(Top, w), !.args = CallArgs(Top, w), !.ti = 1]
<1>1. FrameInv /\ IsFrame(Top) /\ Top = frames[Len(frames)]
  BY TopIsFrame DEF BlueInv, Top
<1>2. Top.stage = "scan" /\ w.name \in Names
  BY DEF EvalCall, Evaluates, IsMacro, Looks
<1>3. SetTop(g) /\ blue' = Blued(w) /\ UNCHANGED <<table, outcome>>
  BY DEF EvalCall, input
<1>4. IsFrame(e) /\ e.stage = "scan" /\ e.m = w.name
  BY <1>1, <1>2, EnteredIsFrame
<1> HIDE DEF e
<1>5. IsFrame(g) /\ g.stage = "subst" /\ g.m = w.name /\ g.painted = {}
  <2>1. e.m \in Names
    BY <1>2, <1>4
  <2>2. IsFrame(g) /\ g.stage = "subst" /\ g.m = e.m /\ g.painted = {}
    BY <1>4, <2>1, CallIsFrame
  <2> QED BY <1>4, <2>2
<1> HIDE DEF g
<1>6. /\ Frames(frames)' /\ Nested(frames)' /\ OnlyFrame(Len(frames))
      /\ frames'[Len(frames)] = g
  <2>1. g.stage \in Running
    BY <1>5 DEF Running
  <2> QED BY <1>1, <1>3, <1>5, <2>1, SetKeeps
<1>7. /\ blue' \in [Names -> Int]
      /\ \A n \in Names : blue'[n] = blue[n] + IF n = w.name THEN 1 ELSE 0
  BY <1>1, <1>3 DEF Blued, Paint, FrameInv
<1>8. ASSUME NEW n \in Names
      PROVE blue'[n] = blue[n] - Does(Top, n) + Does(g, n) - Paints(Top, n) + Paints(g, n)
  <2>1. Paints(Top, n) = 0 /\ Paints(g, n) = 0
    BY <1>1, <1>2, <1>5 DEF Paints, IsFrame
  <2>2. Does(Top, n) = 0 /\ Does(g, n) = IF n = w.name THEN 1 ELSE 0
    BY <1>2, <1>5 DEF Does
  <2>3. blue[n] \in Int
    BY <1>1 DEF FrameInv
  <2> QED BY <2>1, <2>2, <2>3, <1>7
<1> HIDE DEF Top
<1> QED BY <1>1, <1>3, <1>6, <1>7, <1>8, Assemble

(* A macro that is replaced, or would be: painted itself before the line is      *)
(* expanded again.                                                               *)
LEMMA EvalKeeps ==
  ASSUME BlueInv, outcome = "running", NEW w, w.name \in Names, Top.stage = "scan",
         NEW line, NEW from, NEW used, DoubleEval(Entered(Top, w), line, from, used, Blued(w))
  PROVE BlueInv'
<1> DEFINE e == Entered(Top, w)
<1>1. FrameInv /\ IsFrame(Top)
  BY TopIsFrame DEF BlueInv
<1>2. IsFrame(e) /\ e.m = w.name
  BY <1>1, EnteredIsFrame
<1>3. Blued(w) \in [Names -> Int]
  BY <1>1 DEF Blued, Paint, FrameInv
<1>4. ASSUME NEW n \in Names
      PROVE Blued(w)[n] = blue[n] - Does(Top, n) + IF n = e.m THEN 1 ELSE 0
  <2>1. Does(Top, n) = 0 /\ blue[n] \in Int
    BY <1>1 DEF Does, FrameInv
  <2> HIDE DEF e
  <2> QED BY <2>1, <1>2 DEF Blued, Paint
<1> HIDE DEF e, Top
<1>5. DoubleEval(e, line, from, used, Blued(w))
  BY DEF e
<1> QED BY <1>2, <1>3, <1>4, <1>5, DoubleEvalKeeps

LEMMA SubstDoneKeeps ==
  ASSUME BlueInv, outcome = "running", SubstDone(Top) PROVE BlueInv'
<1>1. FrameInv /\ IsFrame(Top) /\ Top.stage = "subst"
  BY TopIsFrame DEF BlueInv, SubstDone
<1>2. Top.m \in Names /\ blue \in [Names -> Int]
  BY <1>1 DEF IsFrame, FrameInv
<1>3. ASSUME NEW n \in Names
      PROVE blue[n] = blue[n] - Does(Top, n) + IF n = Top.m THEN 1 ELSE 0
  <2>1. Does(Top, n) = IF n = Top.m THEN 1 ELSE 0
    BY <1>1 DEF Does
  <2>2. blue[n] \in Int
    BY <1>2
  <2> QED BY <2>1, <2>2
<1>4. DoubleEval(Top, Replaced(Top.line, Top.word, Top.close + 1, Top.text),
                 Top.word + Len(Top.text), use_cnt, blue)
  BY DEF SubstDone
<1> HIDE DEF Top
<1> QED BY <1>1, <1>2, <1>3, <1>4, DoubleEvalKeeps

LEMMA TakeKeeps ==
  ASSUME BlueInv, outcome = "running", Top.stage = "subst", NEW s, NEW n, Take(Top, s, n)
  PROVE BlueInv'
<1> DEFINE g == Appended(Top, s, n)
<1>1. FrameInv /\ IsFrame(Top)
  BY TopIsFrame DEF BlueInv
<1>2. IsFrame(g) /\ g.stage = "subst" /\ g.m = Top.m /\ g.painted = {}
  <2> HIDE DEF Top
  <2> QED BY <1>1, AppendedIsFrame
<1>3. SetTop(g) /\ UNCHANGED <<table, blue, outcome>>
  BY DEF Take, input
<1>4. \A k \in Names : Does(g, k) = Does(Top, k)
  BY <1>2 DEF Does
<1> HIDE DEF g, Top
<1>5. g.stage \in Running
  BY <1>2 DEF Running
<1> QED BY <1>2, <1>3, <1>4, <1>5, SetSameKeeps

LEMMA SubstArgKeeps ==
  ASSUME BlueInv, outcome = "running", SubstArg(Top) PROVE BlueInv'
<1> DEFINE g == [Top EXCEPT !.stage = "arg", !.argpre = use_cnt]
           h == Fresh(ArgAt(Top, 0))
<1>1. FrameInv /\ IsFrame(Top) /\ Top = frames[Len(frames)] /\ Top.stage = "subst"
  BY TopIsFrame DEF BlueInv, Top, SubstArg, ParamAt, Tok
<1>2. PushTop(g, h) /\ UNCHANGED <<table, blue, outcome>>
  BY DEF SubstArg, input
<1>3. IsFrame(g) /\ g.stage = "arg" /\ g.m = Top.m /\ g.painted = {}
  <2> HIDE DEF Top
  <2> QED BY <1>1, ArgIsFrame
<1> HIDE DEF g
<1>4. IsFrame(h) /\ h.stage = "scan" /\ g.stage \in Waiting
  BY <1>3, FreshIsFrame DEF Waiting
<1> HIDE DEF h
<1>5. /\ Frames(frames)' /\ Nested(frames)' /\ OnlyFrame(Len(frames))
      /\ frames'[Len(frames)] = g
  BY <1>1, <1>2, <1>3, <1>4, PushKeeps
<1>6. ASSUME NEW n \in Names
      PROVE blue'[n] = blue[n] - Does(Top, n) + Does(g, n) - Paints(Top, n) + Paints(g, n)
  <2>1. Paints(Top, n) = 0 /\ Paints(g, n) = 0
    BY <1>1, <1>3 DEF Paints, IsFrame
  <2>2. Does(g, n) = Does(Top, n) /\ Does(Top, n) \in Int
    BY <1>1, <1>3 DEF Does
  <2>3. blue[n] \in Int
    BY <1>1 DEF FrameInv
  <2> QED BY <2>1, <2>2, <2>3, <1>2
<1>7. blue' \in [Names -> Int]
  BY <1>1, <1>2 DEF FrameInv
<1> HIDE DEF Top
<1> QED BY <1>1, <1>2, <1>5, <1>6, <1>7, Assemble

LEMMA ReturnArgKeeps ==
  ASSUME BlueInv, outcome = "running", NEW w, ReturnArg(Top, w) PROVE BlueInv'
<1> DEFINE g == Appended(Caller, Top.line, 1)
<1>1. /\ FrameInv /\ Len(frames) > 1 /\ IsFrame(Caller) /\ Caller.stage = "arg"
      /\ Top.stage = "scan" /\ Caller = frames[Len(frames) - 1]
  BY TopIsFrame DEF BlueInv, ReturnArg, Ended, Caller
<1>2. PopTo(g) /\ UNCHANGED <<table, blue, outcome>>
  BY DEF ReturnArg, input
<1>3. IsFrame(g) /\ g.stage = "subst" /\ g.m = Caller.m /\ g.painted = {}
  <2> HIDE DEF Caller
  <2> QED BY <1>1, AppendedIsFrame
<1> HIDE DEF g
<1>4. g.stage \in Running
  BY <1>3 DEF Running
<1>5. /\ Frames(frames)' /\ Nested(frames)' /\ OnlyFrame(Len(frames) - 1)
      /\ frames'[Len(frames) - 1] = g
  BY <1>1, <1>2, <1>3, <1>4, PopKeeps
<1>6. ASSUME NEW n \in Names
      PROVE blue'[n] = blue[n] - Does(Caller, n) + Does(g, n) - Paints(Caller, n) + Paints(g, n)
  <2>1. Paints(Caller, n) = 0 /\ Paints(g, n) = 0
    BY <1>1, <1>3 DEF Paints, IsFrame
  <2>2. Does(g, n) = Does(Caller, n) /\ Does(Caller, n) \in Int
    BY <1>1, <1>3 DEF Does
  <2>3. blue[n] \in Int
    BY <1>1 DEF FrameInv
  <2> QED BY <2>1, <2>2, <2>3, <1>2
<1>7. blue' \in [Names -> Int]
  BY <1>1, <1>2 DEF FrameInv
<1> HIDE DEF Caller
<1> QED BY <1>1, <1>2, <1>5, <1>6, <1>7, Assemble

LEMMA ReturnRescanKeeps ==
  ASSUME BlueInv, outcome = "running", NEW w, ReturnRescan(Top, w) PROVE BlueInv'
<1>1. CASE \E why \in {"wild", "ice"} : Stop(why)
  BY <1>1, StopKeeps
<1>2. CASE ~\E why \in {"wild", "ice"} : Stop(why)
  <2> DEFINE g == Resume(Top.line, Caller.resume)
  <2>1. /\ FrameInv /\ Len(frames) > 1 /\ IsFrame(Caller) /\ Caller.stage = "rescan"
        /\ Top.stage = "scan" /\ Caller = frames[Len(frames) - 1]
    BY TopIsFrame DEF BlueInv, ReturnRescan, Ended, Caller
  <2>2. PopTo(g) /\ blue' = Unpainted(Caller) /\ UNCHANGED <<table, outcome>>
    BY <1>2 DEF ReturnRescan, input
  <2>3. IsFrame(g) /\ g.stage = "scan" /\ g.painted = {}
    BY ResumeIsFrame DEF IsFrame
  <2> HIDE DEF g
  <2>4. g.stage \in Running
    BY <2>3 DEF Running
  <2>5. /\ Frames(frames)' /\ Nested(frames)' /\ OnlyFrame(Len(frames) - 1)
        /\ frames'[Len(frames) - 1] = g
    BY <2>1, <2>2, <2>3, <2>4, PopKeeps
  <2>6. /\ blue' \in [Names -> Int]
        /\ \A n \in Names : blue'[n] = blue[n] + (IF n = Caller.m THEN -1 ELSE 0)
                                               + (IF n \in Caller.painted THEN -1 ELSE 0)
    <3> HIDE DEF Caller
    <3>1. blue \in [Names -> Int]
      BY <2>1 DEF FrameInv
    <3> QED BY <3>1, <2>2 DEF Unpainted, Paint
  <2>7. ASSUME NEW n \in Names
        PROVE blue'[n] = blue[n] - Does(Caller, n) + Does(g, n) - Paints(Caller, n) + Paints(g, n)
    <3>1. Paints(Caller, n) = (IF n \in Caller.painted THEN 1 ELSE 0) /\ Paints(g, n) = 0
      BY <2>3 DEF Paints
    <3>2. Does(g, n) = 0 /\ Does(Caller, n) = IF n = Caller.m THEN 1 ELSE 0
      BY <2>1, <2>3 DEF Does
    <3>3. blue[n] \in Int
      BY <2>1 DEF FrameInv
    <3> HIDE DEF Caller
    <3> QED BY <3>1, <3>2, <3>3, <2>6
  <2> HIDE DEF Caller
  <2> QED BY <2>1, <2>2, <2>5, <2>6, <2>7, Assemble
<1> QED BY <1>1, <1>2

LEMMA ScanKeeps ==
  ASSUME BlueInv, outcome = "running", Top.stage = "scan", NEW g, IsFrame(g), g.stage = "scan",
         SetTop(g), UNCHANGED <<table, blue, outcome>>
  PROVE BlueInv'
<1>1. g.painted = {} /\ g.stage \in Running
  BY DEF IsFrame, Running
<1>2. \A n \in Names : Does(g, n) = Does(Top, n)
  BY DEF Does
<1> HIDE DEF Top
<1> QED BY <1>1, <1>2, SetSameKeeps

LEMMA ReturnLineKeeps ==
  ASSUME BlueInv, NEW w, ReturnLine(Top, w) PROVE BlueInv'
<1>1. UNCHANGED <<table, blue, frames>> /\ Len(frames) = 1 /\ Top.stage = "scan"
  BY DEF ReturnLine, Ended, input
<1>2. UNCHANGED Names /\ FrameInv'
  BY <1>1 DEF BlueInv, FrameInv, Frames, Nested, IsFrame, Names, Top
<1> QED BY <1>1, <1>2 DEF BlueInv, BlueIsInProgress

LEMMA StepKeeps ==
  ASSUME BlueInv, outcome = "running", NEW w, Step(Top, w) PROVE BlueInv'
<1>1. FrameInv /\ IsFrame(Top)
  BY TopIsFrame DEF BlueInv
<1>2. CASE SkipWord(Top, w)
  <2> DEFINE g == [Top EXCEPT !.at = Advance(Top.line, w.after)]
  <2>1. SetTop(g) /\ Top.stage = "scan" /\ UNCHANGED <<table, blue, outcome>>
    BY <1>2 DEF SkipWord, Looks, input
  <2>2. IsFrame(g) /\ g.stage = Top.stage
    <3> HIDE DEF Top
    <3> QED BY <1>1, MovedIsFrame
  <2> HIDE DEF g, Top
  <2> QED BY <2>1, <2>2, ScanKeeps
<1>3. CASE SkipBlue(Top, w)
  <2>1. CASE Stop("ice")
    BY <2>1, StopKeeps
  <2>2. CASE ~Stop("ice")
    <3> DEFINE g == Resume(Top.line, w.after)
    <3>1. SetTop(g) /\ Top.stage = "scan" /\ UNCHANGED <<table, blue, outcome>>
      BY <1>3, <2>2 DEF SkipBlue, IsMacro, Looks, input
    <3>2. IsFrame(g) /\ g.stage = "scan"
      BY ResumeIsFrame
    <3> HIDE DEF g, Top
    <3> QED BY <3>1, <3>2, ScanKeeps
  <2> QED BY <2>1, <2>2
<1>4. CASE EvalObject(Top, w) \/ NotInvoked(Top, w) \/ HasInclude(Top, w) \/ EvalBuiltin(Top, w)
  <2>1. w.name \in Names /\ Top.stage = "scan"
    BY <1>4 DEF EvalObject, NotInvoked, HasInclude, EvalBuiltin, Evaluates, IsMacro, Looks
  <2>2. \E line, from, used : DoubleEval(Entered(Top, w), line, from, used, Blued(w))
    <3> HIDE DEF Top
    <3> QED BY <1>4, Zenon DEF EvalObject, NotInvoked, HasInclude, EvalBuiltin
  <2> HIDE DEF Top
  <2> QED BY <2>1, <2>2, EvalKeeps
<1>5. CASE EvalCall(Top, w)
  BY <1>5, EvalCallKeeps
<1>6. CASE CallDies(Top, w)
  <2>1. \E why \in {"ice", "die"} : Stop(why)
    BY <1>6 DEF CallDies
  <2> QED BY <2>1, StopKeeps
<1>7. CASE SubstQuote(Top) \/ SubstJoin(Top) \/ SubstJoinDies(Top) \/ SubstCopy(Top)
  <2>1. Top.stage = "subst"
    BY <1>7 DEF SubstQuote, SubstJoin, SubstJoinDies, SubstCopy, Tok
  <2>2. Stop("die") \/ \E s, n : Take(Top, s, n)
    <3> HIDE DEF Top
    <3> QED BY <1>7, Zenon DEF SubstQuote, SubstJoin, SubstJoinDies, SubstCopy
  <2>3. CASE Stop("die")
    BY <2>3, StopKeeps
  <2> HIDE DEF Top
  <2> QED BY <2>1, <2>2, <2>3, TakeKeeps
<1>8. CASE SubstArg(Top)
  BY <1>8, SubstArgKeeps
<1>9. CASE SubstDone(Top)
  BY <1>9, SubstDoneKeeps
<1>10. CASE ReturnLine(Top, w)
  BY <1>10, ReturnLineKeeps
<1>11. CASE ReturnRescan(Top, w)
  BY <1>11, ReturnRescanKeeps
<1>12. CASE ReturnArg(Top, w)
  BY <1>12, ReturnArgKeeps
<1> HIDE DEF Top
<1> QED BY <1>2, <1>3, <1>4, <1>5, <1>6, <1>7, <1>8, <1>9, <1>10, <1>11, <1>12 DEF Step

LEMMA NextKeeps == BlueInv /\ [Next]_vars => BlueInv'
<1> SUFFICES ASSUME BlueInv, [Next]_vars PROVE BlueInv'
  OBVIOUS
<1>1. CASE outcome = "running" /\ \E w : Step(Top, w)
  BY <1>1, StepKeeps
<1>2. CASE UNCHANGED vars
  <2>1. UNCHANGED <<table, blue, frames, outcome>>
    BY <1>2 DEF vars
  <2>2. UNCHANGED Names /\ FrameInv'
    BY <2>1 DEF BlueInv, FrameInv, Frames, Nested, IsFrame, Names, Top
  <2> QED BY <2>1, <2>2 DEF BlueInv, BlueIsInProgress
<1> HIDE DEF Top
<1> QED BY <1>1, <1>2 DEF Next, Stopped

LEMMA InitKeeps == Init => BlueInv
<1> SUFFICES ASSUME Init PROVE BlueInv
  OBVIOUS
<1>1. PICK line : frames = <<Fresh(line)>>
  BY DEF Init
<1>2. blue = [n \in Names |-> 0] /\ outcome = "running"
  BY DEF Init, Unused
<1> DEFINE h == Fresh(line)
<1>3. IsFrame(h) /\ h.stage = "scan" /\ h.painted = {}
  BY FreshIsFrame DEF IsFrame
<1> HIDE DEF h
<1>4. frames \in Seq({h}) /\ Len(frames) = 1 /\ frames[1] = h /\ DOMAIN frames = 1..1
  BY <1>1 DEF h
<1>5. Nested(frames)
  BY <1>3, <1>4 DEF Nested, Running
<1>6. FrameInv
  BY <1>2, <1>4, <1>5 DEF FrameInv, Frames
<1>7. ASSUME NEW n \in Names
      PROVE /\ {i \in DOMAIN frames : frames[i].stage # "scan" /\ frames[i].m = n} = {}
            /\ {i \in DOMAIN frames : n \in frames[i].painted} = {}
  BY <1>3, <1>4
<1>8. BlueIsInProgress
  <2> SUFFICES ASSUME NEW n \in Names
               PROVE blue[n] = Cardinality({i \in DOMAIN frames : frames[i].stage # "scan" /\ frames[i].m = n})
                               + Cardinality({i \in DOMAIN frames : n \in frames[i].painted})
    BY DEF BlueIsInProgress
  <2>1. blue[n] = 0
    BY <1>2
  <2> QED BY <2>1, <1>7, FS_EmptySet
<1> QED BY <1>6, <1>8 DEF BlueInv

(* For every macro table and every line, blue counts the evaluations that are in  *)
(* progress, however the calls of eval_expand_macros() nest, and whatever        *)
(* snapshots they paint from.                                                     *)
THEOREM BlueCorrect == Spec => []BlueIsInProgress
<1>1. BlueInv => BlueIsInProgress
  BY DEF BlueInv
<1> QED BY <1>1, InitKeeps, NextKeeps, PTL DEF Spec

(* When a line is done no macro is left painted: the next line is expanded as if  *)
(* it were the first.                                                             *)
THEOREM NothingStaysBlue == Spec => [](outcome = "done" => \A n \in Names : blue[n] = 0)
<1>1. BlueInv => (outcome = "done" => \A n \in Names : blue[n] = 0)
  <2> SUFFICES ASSUME BlueInv, outcome = "done", NEW n \in Names PROVE blue[n] = 0
    OBVIOUS
  <2>1. Len(frames) = 1 /\ frames[1].stage = "scan" /\ IsFrame(frames[1]) /\ DOMAIN frames = 1..1
    BY FramesFinite DEF BlueInv, FrameInv, Nested, Top
  <2>2. frames[1].painted = {}
    BY <2>1 DEF IsFrame
  <2>3. /\ {i \in DOMAIN frames : frames[i].stage # "scan" /\ frames[i].m = n} = {}
        /\ {i \in DOMAIN frames : n \in frames[i].painted} = {}
    BY <2>1, <2>2
  <2> QED BY <2>3, FS_EmptySet DEF BlueInv, BlueIsInProgress
<1> QED BY <1>1, InitKeeps, NextKeeps, PTL DEF Spec
=============================================================================
