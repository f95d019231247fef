---------------------------- MODULE Attachments ----------------------------
(***************************************************************************)
(* What a message with files becomes (uploads.py): compose_herdr() makes   *)
(* the line typed into a pane, compose_agent() the words and the images    *)
(* the default agent is sent.  A draft holds markers, [Image #n] or        *)
(* [File #n], where the files stand; the person may have taken a marker    *)
(* out again, or typed one that has no file.                               *)
(*                                                                         *)
(* A text is a sequence of pieces: "w", a run of words; a marker, a number *)
(* of Marks; a path, <<"path", upload>>; or the image number codex reads,  *)
(* <<"image", n>>.  An attachment is [marker, kind], the upload its place  *)
(* in the list; marker 0 is none.                                          *)
(***************************************************************************)
EXTENDS Naturals, Sequences, FiniteSets

CONSTANTS Marks,    \* the markers, numbers from 1
          MaxText,  \* longest text, in pieces
          MaxFiles  \* most attachments (MAX_ATTACHMENTS is 10)

VARIABLES text, attachments, line, body, images, sent

attachVars == <<text, attachments, line, body, images, sent>>

Word == <<"w", 0>>
Mark(n) == <<"mark", n>>
Path(u) == <<"path", u>>
Image(n) == <<"image", n>>

Pieces == {Word} \cup {Mark(n) : n \in Marks}
Attachment == [marker : Marks \cup {0}, kind : {"image", "file"}]
Uploads(refs) == DOMAIN refs

InText(t, n) == n # 0 /\ Mark(n) \in {t[k] : k \in DOMAIN t}

\* MARKER.sub: a marker becomes what is behind it.
Sub(t, behind) ==
  [k \in DOMAIN t |-> IF t[k][1] = "mark" THEN behind[t[k][2]] ELSE t[k]]

\* The upload a marker is: a later one with the same marker replaces it.
Behind(refs, n, U) ==
  LET mine == {u \in U : refs[u].marker = n}
  IN  IF mine = {} THEN 0 ELSE CHOOSE u \in mine : \A v \in mine : v <= u

\* The place of u among the uploads of U, and these in the order of the list.
Place(U, u) == Cardinality({v \in U : v <= u})
InOrder(U) == [n \in 1..Cardinality(U) |-> CHOOSE u \in U : Place(U, u) = n]
Paths(U) == [n \in 1..Cardinality(U) |-> Path(InOrder(U)[n])]

-----------------------------------------------------------------------------

\* Uploads whose marker stands in the text.
Placed(t, refs) == {u \in Uploads(refs) : InText(t, refs[u].marker)}
Orphans(t, refs) == Uploads(refs) \ Placed(t, refs)
\* compose_herdr(): paths of the orphans in front, the others where they stand.
ComposeHerdr(t, refs) ==
  LET behind == [n \in Marks |-> LET u == Behind(refs, n, Placed(t, refs))
                                 IN  IF u = 0 THEN Mark(n) ELSE Path(u)]
  IN  Paths(Orphans(t, refs)) \o Sub(t, behind)

-----------------------------------------------------------------------------

ImagesOf(refs) == {u \in Uploads(refs) : refs[u].kind = "image"}
\* codex calls the n-th image it is given [Image #n].
Number(refs, u) == Place(ImagesOf(refs), u)
\* compose_agent(): an image's marker is renumbered, a file's is its path, a
\* file without one is listed at the end; images alone are named by number.
Unplaced(t, refs) == Orphans(t, refs) \ ImagesOf(refs)
ComposeAgent(t, refs) ==
  LET behind ==
        [n \in Marks |-> LET u == Behind(refs, n, ImagesOf(refs) \cup Placed(t, refs))
                         IN  CASE u = 0 -> Mark(n)
                               [] u \in ImagesOf(refs) -> Image(Number(refs, u))
                               [] OTHER -> Path(u)]
      words == Sub(t, behind) \o Paths(Unplaced(t, refs))
      given == InOrder(ImagesOf(refs))
  IN  [words |-> IF words = <<>> THEN [n \in DOMAIN given |-> Image(n)] ELSE words,
       images |-> given]

-----------------------------------------------------------------------------

TypeOK ==
  /\ text \in Seq(Pieces) /\ attachments \in Seq(Attachment)
  /\ sent \in BOOLEAN

Init ==
  /\ text \in UNION {[1..n -> Pieces] : n \in 0..MaxText}
  /\ attachments \in UNION {[1..n -> Attachment] : n \in 1..MaxFiles}
  /\ line = <<>> /\ body = <<>> /\ images = <<>> /\ sent = FALSE

Send ==
  /\ ~sent /\ sent' = TRUE
  /\ line' = ComposeHerdr(text, attachments)
  /\ body' = ComposeAgent(text, attachments).words
  /\ images' = ComposeAgent(text, attachments).images
  /\ UNCHANGED <<text, attachments>>

Next == Send
Spec == Init /\ [][Next]_attachVars
-----------------------------------------------------------------------------
Occurs(piece, t) == \E k \in DOMAIN t : t[k] = piece
\* A draft numbers its files one after another.
Distinct == \A u, v \in DOMAIN attachments :
              u # v /\ attachments[u].marker # 0
              => attachments[u].marker # attachments[v].marker

(***************************************************************************)
(* No attachment is dropped, whatever the person did to its marker: the    *)
(* pane's line holds every path; the agent is given every image, and the   *)
(* path of every other file is in its words.  The words the person wrote   *)
(* are all there, in both.                                                 *)
(***************************************************************************)
NoneIsDropped ==
  sent /\ Distinct =>
    \A u \in DOMAIN attachments :
      /\ Occurs(Path(u), line)
      /\ IF attachments[u].kind = "image" THEN u \in {images[k] : k \in DOMAIN images}
                                          ELSE Occurs(Path(u), body)

(***************************************************************************)
(* The [Image #n] the agent reads where a picture stood is the n-th image  *)
(* codex was given.                                                        *)
(***************************************************************************)
NumbersAgree ==
  sent /\ Distinct =>
    \A k \in DOMAIN text : \A u \in DOMAIN attachments :
      /\ text[k] = Mark(attachments[u].marker) /\ attachments[u].kind = "image"
      => body[k][1] = "image" /\ body[k][2] \in DOMAIN images /\ images[body[k][2]] = u

-----------------------------------------------------------------------------
\* What was sent is what the draft becomes.
AttachInv ==
  /\ text \in Seq(Pieces) /\ attachments \in Seq(Attachment)
  /\ sent => /\ line = ComposeHerdr(text, attachments)
             /\ body = ComposeAgent(text, attachments).words
             /\ images = ComposeAgent(text, attachments).images
=============================================================================
