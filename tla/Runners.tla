-------------------------------- MODULE Runners --------------------------------
(***************************************************************************)
(* What every pass of vios/process/runners/ demands of its video before it *)
(* says anything, and what it leaves behind.  A runner is a contract:      *)
(*   files   working files it skips without                                *)
(*   facts   rows of the store it skips without                            *)
(*   any     kinds of text of which it wants at least one                  *)
(*   asks    what it checks the video and the environment for beforehand   *)
(*   sees    what its model must find in the film                          *)
(*   also    rows and files it reads when they are there                   *)
(*   length  whether it skips without a duration, before or after loading  *)
(*   loads   weights it makes resident;  makes  files;  finds  rows        *)
(* What a model answers is not modelled: it finds what the film has.       *)
(***************************************************************************)
EXTENDS Registry

Pass == [files |-> {}, facts |-> {}, any |-> {}, asks |-> {}, sees |-> {},
         also |-> {}, length |-> "unread", loads |-> {}, makes |-> {}, finds |-> {}]
Text == {"segment", "text", "caption"}

(* structure.py *)
probe     == Pass
artifacts == [Pass EXCEPT !.makes = {"proxy", "wav"}]
shots     == [Pass EXCEPT !.length = "first", !.loads = {"transnetv2"}, !.finds = {"shots"}]
keyframes == [Pass EXCEPT !.facts = {"shots"}, !.makes = {"keyframes"}]
allframes == [Pass EXCEPT !.makes = {"allframes"}]

(* signal.py *)
caption  == [Pass EXCEPT !.asks = {"record"}, !.finds = {"caption"}]
cuts     == [Pass EXCEPT !.facts = {"shots"}, !.finds = {"rhythm"}]
colour   == [Pass EXCEPT !.files = {"keyframes", "allframes"},
                         !.finds = {"palette", "dominant_colour"}]
motion   == [Pass EXCEPT !.facts = {"shots"}, !.files = {"allframes"},
                         !.finds = {"camera_move"}]
loudness == [Pass EXCEPT !.files = {"wav"}, !.also = {"allframes", "shots"},
                         !.finds = {"silence_ratio", "shot_level"}]
music    == [Pass EXCEPT !.files = {"wav"}, !.also = {"shots"}, !.finds = {"tempo"}]
perframe == [Pass EXCEPT !.files = {"allframes"}, !.finds = {"perframe"}]
tag      == [Pass EXCEPT !.facts = {"siglip2"}, !.loads = {"siglip2-so400m"},
                         !.finds = {"tag"}]
keyphrase == [Pass EXCEPT !.any = Text, !.finds = {"keyphrase"}]
hook == [Pass EXCEPT !.facts = {"shots"}, !.finds = {"hook"},
                     !.also = {"segment", "text", "shot_description", "shot_level"}]

(* audio.py *)
Speech(weights, kind) ==
  [Pass EXCEPT !.files = {"wav"}, !.loads = {weights}, !.sees = {"speech"},
               !.also = {"allframes", "shots"}, !.finds = {kind}]
transcribe     == Speech("whisper-large-v3", "segment")
transcribe_alt == [Speech("whisper-turbo", "segment") EXCEPT !.also = @ \cup {"segment"}]
diarize        == [Speech("pyannote-3.1", "speaker") EXCEPT !.asks = {"token"}]
audio_tag == [Pass EXCEPT !.files = {"wav"}, !.length = "last", !.also = {"allframes", "shots"},
                          !.loads = {"clap-panns"}, !.finds = {"sound_event"}]

(* vision.py *)
Frames(weights, kind) ==
  [Pass EXCEPT !.files = {"allframes"}, !.loads = {weights}, !.finds = {kind}]
visual_embed == [Frames("siglip2-so400m", "siglip2") EXCEPT !.also = {"shots"}]
clip_embed   == [Frames("openai/clip-vit-large-patch14", "clip") EXCEPT !.also = {"shots"}]
\* Its own probe weights are never loaded: it borrows the tower of visual-embed.
aesthetic == [Frames("siglip2-so400m", "sharpness") EXCEPT !.also = {"siglip2"}]
\* Reading every frame and finding no text is an answer; for the others it is not.
ocr     == Frames("ppocr-v5", "text")
ocr_alt == [Frames("florence-2-large", "text") EXCEPT !.sees = {"text"}, !.also = {"text"}]
detect  == [Frames("yolo11x", "object") EXCEPT !.sees = {"objects"}]
faces   == [Frames("insightface", "face_scale") EXCEPT !.sees = {"faces"}]
depth   == Frames("depth-anything-v2-s", "shot_scale")

(* language.py and cloud.py *)
Vision == {"qwen3-vl-8b-awq"}
\* The database, compacted for a prompt.
Evidence == {"shots", "shot_description", "rhythm", "silence_ratio", "tempo"} \cup Text
describe == [Pass EXCEPT !.files = {"keyframes"}, !.loads = Vision,
                         !.finds = {"shot_description"}]
narrate  == [Pass EXCEPT !.facts = {"shots"}, !.any = Text \cup {"shot_description"},
                         !.also = Evidence \cup {"keyframes"}, !.loads = Vision,
                         !.finds = {"beat"}]
style_read == [Pass EXCEPT !.facts = {"shots"}, !.loads = Vision, !.finds = {"style"},
                           !.also = {"rhythm", "camera_move", "shot_scale", "face_scale",
                                     "palette", "keyframes"}]
concepts   == [Pass EXCEPT !.any = Text, !.also = {"keyphrase"},
                           !.loads = {"qwen3-4b-awq"}, !.finds = {"concept"}]
text_embed == [Pass EXCEPT !.any = Text \cup {"shot_description", "beat"},
                           !.loads = {"bge-m3"}, !.finds = {"bge"}]
narrate_deep == [Pass EXCEPT !.facts = {"shots"}, !.also = Evidence \cup {"keyframes"},
                             !.loads = {"internvl3-38b-awq"}, !.finds = {"beat"}]
narrate_cloud ==
  [Pass EXCEPT !.asks = {"key"}, !.facts = {"shots"}, !.finds = {"beat"},
               !.also = Evidence \cup {"object", "sound_event", "dominant_colour",
                                       "camera_move", "face_scale"}]

Runner ==
  "probe" :> probe @@ "artifacts" :> artifacts @@ "shots" :> shots @@
  "keyframes" :> keyframes @@ "allframes" :> allframes @@
  "caption" :> caption @@ "cuts" :> cuts @@ "colour" :> colour @@ "motion" :> motion @@
  "loudness" :> loudness @@ "music" :> music @@ "perframe" :> perframe @@ "tag" :> tag @@
  "keyphrase" :> keyphrase @@ "hook" :> hook @@
  "transcribe" :> transcribe @@ "transcribe-alt" :> transcribe_alt @@
  "diarize" :> diarize @@ "audio-tag" :> audio_tag @@
  "visual-embed" :> visual_embed @@ "clip-embed" :> clip_embed @@
  "aesthetic" :> aesthetic @@ "ocr" :> ocr @@ "ocr-alt" :> ocr_alt @@
  "detect" :> detect @@ "faces" :> faces @@ "depth" :> depth @@
  "describe" :> describe @@ "narrate" :> narrate @@ "style-read" :> style_read @@
  "concepts" :> concepts @@ "text-embed" :> text_embed @@
  "narrate-deep" :> narrate_deep @@ "narrate-cloud" :> narrate_cloud

\* Everything a pass looks at, whether or not the catalogue says so.
Reads(c) == LET r == Runner[c] IN r.facts \cup r.any \cup r.also
\* The five passes that leave files behind and no evidence of their own.
Silent  == DOMAIN Structure
Writers == AllIds \ Silent
\* The tower that tag and aesthetic borrow is counted only beside visual-embed.
Borrowed == "siglip2-so400m"

\* The runners against the catalogue: a pass loads its own weights or the borrowed
\* ones; it declares the files it reads; whoever writes the rows it reads precedes it,
\* declared or not; what needs the shots, however indirectly, looks for them.
ASSUME RunnersAreSound ==
  /\ Runner["artifacts"] = artifacts /\ Needs("artifacts") = {}
  /\ Runner["shots"] = shots /\ Runner["keyframes"] = keyframes
  /\ Runner["allframes"] = allframes
  /\ Silent = {"probe", "artifacts", "shots", "keyframes", "allframes"}
  /\ Silent \subseteq AllIds /\ "shots" \in Needs("keyframes")
  /\ Borrowed \in Keys
  /\ \A c \in AllIds :
       /\ Runner[c].loads \subseteq {Borrowed} \/ Catalogue[c].gpu
       /\ Runner[c].loads \subseteq {Catalogue[c].key, Borrowed}
       /\ Runner[c].files \subseteq {"wav", "keyframes", "allframes"}
       /\ "wav" \in Runner[c].files => "artifacts" \in Needs(c)
       /\ {"keyframes", "allframes"} \cap Runner[c].files \subseteq Needs(c)
       /\ c # "artifacts" => Runner[c].makes \subseteq {c} \cap {"keyframes", "allframes"}
       /\ "shots" \in Runner[c].finds => c = "shots"
       /\ "shots" \in Closure(c) => "shots" \in Runner[c].facts \/ "keyframes" \in Runner[c].files
       /\ \A w \in AllIds \ {c} : Runner[w].finds \cap Reads(c) # {} => Precedes(w, c)
=============================================================================
