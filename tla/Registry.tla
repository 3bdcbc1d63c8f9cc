------------------------------- MODULE Registry -------------------------------
(***************************************************************************)
(* The catalogue of vios/process/registry.py and the plan made of it: the  *)
(* passes, what each declares that it needs, the weights it loads, the     *)
(* dependency order and its packing into cohorts that fit the card.        *)
(***************************************************************************)
EXTENDS Integers, FiniteSets, Sequences, SequencesExt, TLC

Cpu(needs) == [gpu |-> FALSE, cards |-> 1, vram |-> 0, key |-> "",
               needs |-> needs]
Gpu(vram, key, needs) ==
  [gpu |-> TRUE, cards |-> 1, vram |-> vram, key |-> key, needs |-> needs]
Sharded(c, n) == [c EXCEPT !.cards = n]

Structure ==
  "probe"     :> Cpu({}) @@
  "artifacts" :> Cpu({}) @@
  "shots"     :> Gpu(700, "transnetv2", {"artifacts"}) @@
  "keyframes" :> Cpu({"shots"}) @@
  "allframes" :> Cpu({"probe"})

Signal ==
  "caption"  :> Cpu({}) @@
  "cuts"     :> Cpu({"shots"}) @@
  "perframe" :> Cpu({"allframes"}) @@
  "colour"   :> Cpu({"keyframes", "allframes"}) @@
  "motion"   :> Cpu({"shots", "allframes"}) @@
  "loudness" :> Cpu({"artifacts"}) @@
  "music"    :> Cpu({"artifacts"})

Hearing ==
  "transcribe"     :> Gpu(3100, "whisper-large-v3", {"artifacts"}) @@
  "transcribe-alt" :> Gpu(1600, "whisper-turbo", {"artifacts"}) @@
  "diarize"        :> Gpu(1400, "pyannote-3.1", {"artifacts"}) @@
  "audio-tag"      :> Gpu(1300, "clap-panns", {"artifacts"})

Watching ==
  "ocr"            :> Gpu(1500, "ppocr-v5", {"allframes"}) @@
  "ocr-alt"        :> Gpu(1700, "florence-2-large", {"allframes"}) @@
  "detect"         :> Gpu(1200, "yolo11x", {"allframes"}) @@
  "faces"          :> Gpu(900, "insightface", {"allframes"}) @@
  "depth"          :> Gpu(500, "depth-anything-v2-s", {"allframes"})

Embedding ==
  "visual-embed"   :> Gpu(1800, "siglip2-so400m", {"allframes"}) @@
  "clip-embed"     :> Gpu(1700, "openai/clip-vit-large-patch14", {"allframes"}) @@
  "tag"            :> Cpu({"visual-embed"}) @@
  "aesthetic"      :> Gpu(200, "aesthetic-probe", {"visual-embed", "allframes"})

Vlm(needs) == Gpu(6200, "qwen3-vl-8b-awq", needs)
Watched ==
  "describe"   :> Vlm({"keyframes", "shots"}) @@
  "narrate"    :> Vlm({"describe", "transcribe", "ocr", "loudness", "cuts"}) @@
  "style-read" :> Vlm({"describe", "colour", "motion", "cuts"})

Written ==
  "keyphrase"  :> Cpu({"transcribe", "ocr", "caption"}) @@
  "concepts"   :> Gpu(3400, "qwen3-4b-awq", {"transcribe", "ocr", "caption", "keyphrase"}) @@
  "text-embed" :> Gpu(2400, "bge-m3", {"transcribe", "caption"}) @@
  "hook"       :> Cpu({"transcribe", "ocr", "cuts", "loudness", "describe"}) @@
  "narrate-deep"  :> Sharded(Gpu(21500, "internvl3-38b-awq",
                                 {"describe", "transcribe", "ocr", "narrate"}), 2) @@
  "narrate-cloud" :> Cpu({"describe", "transcribe", "ocr", "narrate", "detect"})

Perception == Hearing @@ Watching @@ Embedding
Catalogue  == Structure @@ Signal @@ Perception @@ Watched @@ Written
AllIds     == DOMAIN Catalogue
Defaults   == AllIds \ {"narrate-deep"}
Needs(c)   == Catalogue[c].needs
StageOf(c) == IF c \in DOMAIN Structure THEN 0 ELSE IF c \in DOMAIN Signal THEN 1
              ELSE IF c \in DOMAIN Perception THEN 2 ELSE 3

\* Ids in alphabetical order, the tie break of the plan.
Alphabet == <<"aesthetic", "allframes", "artifacts", "audio-tag", "caption",
  "clip-embed", "colour", "concepts", "cuts", "depth", "describe", "detect",
  "diarize", "faces", "hook", "keyframes", "keyphrase", "loudness", "motion",
  "music", "narrate", "narrate-cloud", "narrate-deep", "ocr", "ocr-alt",
  "perframe", "probe", "shots", "style-read", "tag", "text-embed", "transcribe",
  "transcribe-alt", "visual-embed">>
Place == [c \in AllIds |-> CHOOSE i \in DOMAIN Alphabet : Alphabet[i] = c]

Before(a, b) == \/ StageOf(a) < StageOf(b)
                \/ StageOf(a) = StageOf(b) /\ Place[a] < Place[b]
\* Everything a pass declares that it needs, transitively.
Closure(c) ==
  LET grow[n \in 0 .. Cardinality(AllIds)] ==
        IF n = 0 THEN Needs(c)
        ELSE LET so_far == grow[n - 1]
             IN so_far \cup UNION {Needs(d) : d \in so_far}
  IN grow[Cardinality(AllIds)]

\* mutant: what a pass needs does not hold it back
ReadyAtOnce(ids, done) == ids \ done
\* Needs outside the selection do not hold a pass back.
Ready(ids, done) == {c \in ids \ done : Needs(c) \cap ids \subseteq done}
Foremost(ready)  == CHOOSE c \in ready : \A d \in ready \ {c} : Before(c, d)
TopoSort(ids) ==
  LET upTo[n \in 0 .. Cardinality(ids)] ==
        IF n = 0 THEN <<>>
        ELSE LET before == upTo[n - 1]
             IN Append(before, Foremost(Ready(ids, ToSet(before))))
  IN upTo[Cardinality(ids)]

\* In every plan that has both, w is before r: it is declared, or the tie break
\* takes w and all that could hold it back before it takes r.
Precedes(w, r) == w \in Needs(r) \/ \A x \in {w} \cup Closure(w) : Before(x, r)

\* A cohort: its passes in order, the weights counted for it and their sum.
Cohort(passes, keys, vram) == [passes |-> passes, keys |-> keys, vram |-> vram]
NoCohort == Cohort(<<>>, {}, 0)
Closed(plan) == IF plan.cur.passes = <<>> THEN plan.all ELSE Append(plan.all, plan.cur)

\* Weights already counted for the cohort cost nothing more.
Cost(cur, c) == IF Catalogue[c].key \in cur.keys THEN 0 ELSE Catalogue[c].vram

\* mutant: the cohort's total is not advanced
JoinedFree(cur, c) ==
  Cohort(Append(cur.passes, c),
         IF Catalogue[c].gpu THEN cur.keys \cup {Catalogue[c].key} ELSE cur.keys,
         cur.vram)
Joined(cur, c) ==
  Cohort(Append(cur.passes, c),
         IF Catalogue[c].gpu THEN cur.keys \cup {Catalogue[c].key} ELSE cur.keys,
         cur.vram + Cost(cur, c))

\* In dependency order, a pass that does not fit opens the next cohort; a sharded pass
\* stays by itself.
Packed(plan, c, budget, gpus) ==
  LET e == Catalogue[c]
  IN IF e.gpu /\ e.cards > gpus THEN plan
     ELSE IF e.cards > 1
       THEN [all |-> Append(Closed(plan), Joined(NoCohort, c)), cur |-> NoCohort]
     ELSE IF e.gpu /\ plan.cur.vram + Cost(plan.cur, c) > budget
       THEN [all |-> Closed(plan), cur |-> Joined(NoCohort, c)]
     ELSE [plan EXCEPT !.cur = Joined(@, c)]
PlanCohorts(order, budget, gpus) ==
  LET upTo[n \in 0 .. Len(order)] ==
        IF n = 0 THEN [all |-> <<>>, cur |-> NoCohort]
        ELSE Packed(upTo[n - 1], order[n], budget, gpus)
  IN Closed(upTo[Len(order)])

\* What a set of weights takes on a card.
Keys == {Catalogue[c].key : c \in AllIds}
Size(key) == Catalogue[CHOOSE c \in AllIds : Catalogue[c].key = key].vram
SumOf(keys) ==
  LET total[some \in SUBSET Keys] ==
        IF some = {} THEN 0
        ELSE LET key == CHOOSE k \in some : TRUE IN Size(key) + total[some \ {key}]
  IN total[keys]

\* What the measured machine cannot host. Every pass ships kaggle_ok.
Unrunnable(ids, card, gpus) ==
  {c \in ids : /\ Catalogue[c].gpu
               /\ \/ gpus < Catalogue[c].cards
                  \/ Catalogue[c].vram > card * Catalogue[c].cards}

\* The catalogue as it stands: every pass is in the alphabet, needs only passes of the
\* catalogue and never, however indirectly, itself; passes that share weights declare
\* the same size for them.
ASSUME CatalogueIsSound ==
  /\ IsFiniteSet(AllIds) /\ AllIds \subseteq ToSet(Alphabet)
  /\ \A c \in AllIds :
       /\ Catalogue[c].gpu \in BOOLEAN
       /\ Catalogue[c].vram \in Nat /\ Catalogue[c].cards \in Nat \ {0}
       /\ Catalogue[c].cards > 1 => Catalogue[c].gpu
       /\ ~Catalogue[c].gpu => Catalogue[c].vram = 0
       /\ \A d \in AllIds : Catalogue[d].key = Catalogue[c].key => Catalogue[d].vram = Catalogue[c].vram
       /\ Needs(c) \subseteq Closure(c) /\ Closure(c) \subseteq AllIds
       /\ \A d \in Closure(c) : /\ Precedes(d, c)
                                /\ Needs(d) \subseteq Closure(c)
                                /\ Cardinality(Closure(d)) < Cardinality(Closure(c))
=============================================================================
