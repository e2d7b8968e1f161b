------------------------------ MODULE TextPath ------------------------------
(***************************************************************************)
(* What becomes of the words of a session: the vocabulary is merged        *)
(* (vocabulary.rs, Pipeline::begin), the transcript is resolved with the   *)
(* entity rules of the vocabulary packs, and if post-processing is enabled *)
(* it is corrected, polished by the model, corrected again and judged      *)
(* (openai_compat.rs, prompt.rs, Pipeline::polish_and_store).              *)
(*                                                                         *)
(* A text is a sequence of pieces: words, parts of words, and what stands  *)
(* between them.  A piece has at least two characters where the code asks  *)
(* for that many, and texts are measured in pieces.  Space at the ends,    *)
(* which the code trims, is left out of every text, and so are comments    *)
(* and the limits on the size and number of files.                         *)
(***************************************************************************)
EXTENDS Integers, Sequences, FiniteSets, SequencesExt

CONSTANTS
  Texts,           \* what a recognizer may have heard
  Answers,         \* what the model may answer, <<>> standing for no text
  UserVocabularies,   \* the addon's lists of entries
  DomainVocabularies, \* the lines of the *.txt files
  Rules,           \* the entity rules of the *.tsv files, as parsed, in order
  Word,            \* pieces of ASCII letters and digits
  Technical,       \* pieces with a capital, a digit or one of _-+./
  Lower,           \* Lower[p] is p in ASCII lower case
  Slack,           \* 128 characters
  MaxTerms,        \* 128 entries
  EntryLimit       \* 80 characters

\* A rule "heard => canonical", a term, or an ambiguous candidate "@term".
\* A rule without its two sides is kept in the list and corrects nothing.
Rule(heard, canonical) == [kind |-> "rule", heard |-> heard, term |-> canonical]
Term(term) == [kind |-> "term", heard |-> <<>>, term |-> term]
Candidate(term) == [kind |-> "candidate", heard |-> <<>>, term |-> term]

Pieces == DOMAIN Lower
Entries == [kind : {"rule", "term", "candidate"},
            heard : Seq(Pieces), term : Seq(Pieces)]

\* entity and ordinary are the lists of cues.
EntityRules == [canonical : Seq(Pieces), aliases : Seq(Seq(Pieces)) \ {<<>>},
                entity : Seq(Seq(Pieces)), ordinary : Seq(Seq(Pieces))]

ASSUME TextAssumption ==
  /\ Slack \in Nat
  /\ MaxTerms \in Nat
  /\ EntryLimit \in Nat \ {0}
  /\ Lower \in [Pieces -> Pieces]
  /\ Word \cup Technical \subseteq Pieces
  /\ Texts \cup Answers \subseteq Seq(Pieces)
  /\ UserVocabularies \cup DomainVocabularies \subseteq Seq(Entries)
  /\ Rules \in Seq(EntityRules)

VARIABLES
  step,        \* where the session is
  cloud,       \* the option cloud_enabled
  user,        \* the vocabulary the addon sent
  vocabulary,  \* the vocabulary of the session
  heard,       \* the recognizer's transcript
  raw,         \* the same after resolve_contextual_entities
  final,       \* the text that is stored
  fallback     \* FinalResult::used_fallback

vars == <<step, cloud, user, vocabulary, heard, raw, final, fallback>>
-----------------------------------------------------------------------------
(***************************************************************************)
(* Searching and replacing                                                 *)
(***************************************************************************)
OccursAt(needle, text, i) ==
  /\ i + Len(needle) - 1 <= Len(text)
  /\ \A k \in 1..Len(needle) : text[i + k - 1] = needle[k]

Occurs(needle, text) == \E i \in 1..Len(text) + 1 : OccursAt(needle, text, i)

Folded(text) == [i \in 1..Len(text) |-> Lower[text[i]]]

\* str::replace: from the left, without overlap; needle is not empty.
Replace(text, needle, replacement) ==
  LET from[i \in 1..Len(text) + Len(needle)] ==
        IF i > Len(text) THEN <<>>
        ELSE IF OccursAt(needle, text, i)
             THEN replacement \o from[i + Len(needle)]
             ELSE <<text[i]>> \o from[i + 1]
  IN  from[1]

\* The match is a word, or several, of its own.
Stands(needle, text, i) ==
  /\ i > 1 => text[i - 1] \notin Word
  /\ i + Len(needle) <= Len(text) => text[i + Len(needle)] \notin Word

IsAscii(text) == \A i \in 1..Len(text) : text[i] \in Word \cup Technical \cup {" "}

\* replace_ascii_word: a match that does not stand alone is kept, and the
\* search goes on after it.
ReplaceWord(text, needle, replacement) ==
  LET n == Len(needle)
      from[i \in 1..Len(text) + n] ==
        IF i > Len(text) THEN <<>>
        ELSE IF ~OccursAt(Folded(needle), Folded(text), i)
             THEN <<text[i]>> \o from[i + 1]
        ELSE (IF Stands(needle, text, i) THEN replacement
              ELSE SubSeq(text, i, i + n - 1)) \o from[i + n]
  IN  IF needle = <<>> \/ ~IsAscii(needle) THEN text ELSE from[1]
-----------------------------------------------------------------------------
(***************************************************************************)
(* vocabulary.rs                                                           *)
(***************************************************************************)
\* The key of deduplicate: the entry as it is written, in lower case.
Key(entry) == [entry EXCEPT !.heard = Folded(@), !.term = Folded(@)]

Deduplicated(entries) ==
  LET Isnew(i) == \A j \in 1..i - 1 : Key(entries[j]) # Key(entries[i])
      kept[n \in 0..Len(entries)] ==
        IF n = 0 THEN <<>>
        ELSE IF Isnew(n) THEN Append(kept[n - 1], entries[n]) ELSE kept[n - 1]
  IN  kept[Len(entries)]

AtMost(entries, n) == SubSeq(entries, 1, IF Len(entries) < n THEN Len(entries) ELSE n)

Candidates == [i \in 1..Len(Rules) |-> Candidate(Rules[i].canonical)]

\* An arrow, or the @ of a candidate, counts as one piece of an entry.
Size(entry) ==
  Len(entry.heard) + Len(entry.term) + (IF entry.kind = "term" THEN 0 ELSE 1)

\* The first n pieces, without a space at the end.
Start(text, n) ==
  IF n \in 1..Len(text) - 1 /\ text[n] = " " THEN SubSeq(text, 1, n - 1)
  ELSE AtMost(text, n)

\* chars().take(80): a rule is cut in its canonical side or loses it, and one
\* without its arrow is a term.
Cut(entry) ==
  LET left == EntryLimit - (Size(entry) - Len(entry.term)) IN
  IF left >= 0 THEN [entry EXCEPT !.term = Start(@, left)]
  ELSE Term(Start(entry.heard, EntryLimit))

Shortened(entries) == [i \in 1..Len(entries) |-> Cut(entries[i])]

\* Mutant of Merged: the packs come first.
MergedPacksFirst(primary, domain) ==
  AtMost(Deduplicated(domain \o primary), MaxTerms)

\* merge_vocabulary of the deduplicated packs, and truncate.
Merged(primary, domain) ==
  AtMost(Deduplicated(primary \o Deduplicated(domain)), MaxTerms)

\* The loop over the aliases of a rule.
Named(text, rule) ==
  LET after[n \in 0..Len(rule.aliases)] ==
        IF n = 0 THEN text
        ELSE ReplaceWord(after[n - 1], rule.aliases[n], rule.canonical)
  IN  after[Len(rule.aliases)]

\* A cue that is listed twice counts twice.
Score(cues, text) ==
  Cardinality({i \in 1..Len(cues) : Occurs(Folded(cues[i]), Folded(text))})

\* Mutant of ResolvedBy: a tie is decided for the entity.
ResolvedByDefault(text, rule) ==
  IF Score(rule.entity, text) >= Score(rule.ordinary, text)
  THEN Named(text, rule)
  ELSE ReplaceWord(text, rule.canonical, rule.aliases[1])

\* resolve_with_rules, for one rule.
ResolvedBy(text, rule) ==
  LET entity == Score(rule.entity, text)
      ordinary == Score(rule.ordinary, text)
  IN  IF entity > ordinary THEN Named(text, rule)
      ELSE IF ordinary > entity
      THEN ReplaceWord(text, rule.canonical, rule.aliases[1])
      ELSE text

Resolved(text) ==
  LET after[n \in 0..Len(Rules)] ==
        IF n = 0 THEN text ELSE ResolvedBy(after[n - 1], Rules[n])
  IN  after[Len(Rules)]
-----------------------------------------------------------------------------
(***************************************************************************)
(* prompt.rs                                                               *)
(***************************************************************************)
Corrects(entry) ==
  entry.kind = "rule" /\ entry.heard # <<>> /\ entry.term # <<>>
    /\ entry.heard # entry.term

Correction(text, entry) ==
  IF Corrects(entry) THEN Replace(text, entry.heard, entry.term) ELSE text

Corrected(text, entries) ==
  LET after[n \in 0..Len(entries)] ==
        IF n = 0 THEN text ELSE Correction(after[n - 1], entries[n])
  IN  after[Len(entries)]

\* Runs of token pieces, as long as possible, with a technical piece.
InToken(text, i) == i \in 1..Len(text) /\ text[i] \in Word \cup Technical
TechnicalTokens(text) ==
  {SubSeq(text, span[1], span[2]) : span \in
    {s \in (1..Len(text)) \X (1..Len(text)) :
      /\ s[1] <= s[2]
      /\ \A i \in s[1]..s[2] : InToken(text, i)
      /\ ~InToken(text, s[1] - 1) /\ ~InToken(text, s[2] + 1)
      /\ \E i \in s[1]..s[2] : text[i] \in Technical}}

Missing(text, polished) ==
  {t \in {Folded(token) : token \in TechnicalTokens(text)} :
     ~Occurs(t, Folded(polished))}

\* Mutant of NewTerms: a term that was there all the time counts too.
PresentTerms(text, polished, entries) ==
  {t \in {Folded(entries[i].term) : i \in 1..Len(entries)} :
     t # <<>> /\ Occurs(t, Folded(polished))}

\* authoritative_corrections: terms the polished text has and the raw has not.
NewTerms(text, polished, entries) ==
  {t \in {Folded(entries[i].term) : i \in 1..Len(entries)} :
     t # <<>> /\ Occurs(t, Folded(polished)) /\ ~Occurs(t, Folded(text))}

\* candidate_entity_removals
MayGo(missing, entries) ==
  {t \in missing : \E i \in 1..Len(entries) :
     entries[i].kind = "candidate" /\ Folded(entries[i].term) = t}

\* max(n + 128, ceil(7 n / 4))
Maximum(n) ==
  LET quarters == (7 * n + 3) \div 4
  IN  IF n + Slack > quarters THEN n + Slack ELSE quarters

\* polished_output_rejection gives no reason.
Accepted(text, polished, entries) ==
  LET missing == Missing(text, polished) IN
  /\ polished # <<>>
  /\ Len(polished) <= Maximum(Len(text))
  /\ Cardinality(missing) <=
       Cardinality(NewTerms(text, polished, entries))
         + Cardinality(MayGo(missing, entries))
-----------------------------------------------------------------------------
(***************************************************************************)
(* The session                                                             *)
(***************************************************************************)
\* The files of a directory are read in the order of their names, and the
\* lines of *.txt files are cut before they are merged.
Init ==
  /\ step = "begun"
  /\ cloud \in BOOLEAN
  /\ user \in UserVocabularies
  /\ \E domain \in DomainVocabularies :
       \E packs \in {Shortened(domain) \o Candidates,
                    Candidates \o Shortened(domain)} :
         vocabulary = Shortened(Merged(user, packs))
  /\ heard = <<>>
  /\ raw = <<>>
  /\ final = <<>>
  /\ fallback = FALSE

Recognize ==
  /\ step = "begun"
  /\ heard' \in Texts
  /\ step' = "transcribed"
  /\ UNCHANGED <<cloud, user, vocabulary, raw, final, fallback>>

Resolve ==
  /\ step = "transcribed"
  /\ raw' = Resolved(heard)
  /\ final' = raw'
  /\ step' = IF cloud THEN "polishing" ELSE "stored"
  /\ UNCHANGED <<cloud, user, vocabulary, heard, fallback>>

\* No key, or the request failed.
NotPolished ==
  /\ step = "polishing"
  /\ fallback' = TRUE
  /\ step' = "stored"
  /\ UNCHANGED <<cloud, user, vocabulary, heard, raw, final>>

\* Mutant of Judge: the answer is judged as it came and corrected afterwards.
JudgeThenCorrect(answer) ==
  IF Accepted(raw, answer, vocabulary)
  THEN final' = Corrected(answer, vocabulary) /\ UNCHANGED fallback
  ELSE fallback' = TRUE /\ UNCHANGED final

Judge(answer) ==
  LET polished == Corrected(answer, vocabulary) IN
  IF Accepted(raw, polished, vocabulary)
  THEN final' = polished /\ UNCHANGED fallback
  ELSE fallback' = TRUE /\ UNCHANGED final

\* The model is asked about Corrected(raw, vocabulary) and may answer anything.
Polish ==
  /\ step = "polishing"
  /\ \E answer \in Answers \cup {Corrected(raw, vocabulary)} : Judge(answer)
  /\ step' = "stored"
  /\ UNCHANGED <<cloud, user, vocabulary, heard, raw>>

Next == Recognize \/ Resolve \/ NotPolished \/ Polish

Spec == Init /\ [][Next]_vars
-----------------------------------------------------------------------------
TypeOK ==
  /\ step \in {"begun", "transcribed", "polishing", "stored"}
  /\ cloud \in BOOLEAN
  /\ user \in UserVocabularies
  /\ vocabulary \in Seq(Entries)
  /\ heard \in Seq(Pieces)
  /\ raw \in Seq(Pieces)
  /\ final \in Seq(Pieces)
  /\ fallback \in BOOLEAN

(***************************************************************************)
(* The stored text is no longer than the transcript allows, 128 characters *)
(* or three quarters more, the latter rounded up, whatever the model       *)
(* answers and however long the corrections are (prompt.rs:18-23 with      *)
(* openai_compat.rs:144, ARCHITECTURE.md:107).                             *)
(***************************************************************************)
LengthBounded ==
  step = "stored" =>
    \/ Len(final) <= Len(raw) + Slack
    \/ 4 * Len(final) < 7 * Len(raw) + 4

(***************************************************************************)
(* A technical token of the transcript is missing in the stored text only  *)
(* if a term of the vocabulary has come in or the token is an ambiguous    *)
(* candidate (prompt.rs:25-54).                                            *)
(***************************************************************************)
NothingLostWithoutReason ==
  step = "stored" /\ Missing(raw, final) # {} =>
    \/ \E i \in 1..Len(vocabulary) :
         /\ Occurs(Folded(vocabulary[i].term), Folded(final))
         /\ ~Occurs(Folded(vocabulary[i].term), Folded(raw))
    \/ \E i \in 1..Len(vocabulary) :
         /\ vocabulary[i].kind = "candidate"
         /\ Folded(vocabulary[i].term) \in Missing(raw, final)

(***************************************************************************)
(* The entries of the user come before those of the packs and in the       *)
(* user's order, are the last to be cut off, and whatever a pack spells    *)
(* like them are in the user's spelling, up to 80 characters               *)
(* (vocabulary.rs:87-89, pipeline.rs:105-110).                             *)
(***************************************************************************)
UserEntriesFirst ==
  LET own == Deduplicated(user) IN
  \A i \in 1..Len(own) : i <= MaxTerms =>
    /\ i <= Len(vocabulary)
    /\ vocabulary[i] = IF Size(own[i]) <= EntryLimit THEN own[i] ELSE Cut(own[i])

(***************************************************************************)
(* Where no cue of any rule was heard the transcript is left alone: the    *)
(* terms of the packs are candidates, not global replacements              *)
(* (README.md:196, vocabulary.rs:160-183).                                 *)
(***************************************************************************)
AmbiguousKept ==
  raw # <<>> /\ raw # heard =>
    \E i \in 1..Len(Rules) : \E cues \in {Rules[i].entity, Rules[i].ordinary} :
      \E k \in 1..Len(cues) : Occurs(Folded(cues[k]), Folded(heard))

(***************************************************************************)
(* "`heard => canonical` entries are deterministic correction rules"       *)
(* (ARCHITECTURE.md:63): the heard form of a rule of the vocabulary is not *)
(* in the stored text, unless a term spells it.                            *)
(***************************************************************************)
CorrectionsApplied ==
  step = "stored" => \A i \in 1..Len(vocabulary) :
    Corrects(vocabulary[i])
      /\ (\A j \in 1..Len(vocabulary) :
            ~Occurs(vocabulary[i].heard, vocabulary[j].term))
      => ~Occurs(vocabulary[i].heard, final)
=============================================================================
