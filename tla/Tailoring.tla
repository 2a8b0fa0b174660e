------------------------------ MODULE Tailoring ------------------------------
(***************************************************************************)
(* What the language model may put on a résumé and into a letter           *)
(* (resume_engine.py, cover_letter.py): it selects and rewrites retrieved  *)
(* facts, what cannot be traced is thrown away, and results are cached     *)
(* while the knowledge base goes on changing.  One posting; each fact is   *)
(* an entry of its own, and each revision of it has one number in its      *)
(* text and one in its details (skills, role, organisation, dates).        *)
(***************************************************************************)
EXTENDS Ranking, SequencesExt

CONSTANTS
  Facts,         \* the facts of one user
  HeadingOf,     \* the section a fact's kind and affiliation imply
  Movable,       \* the facts of a work kind: the reply's heading is honoured
  Impact,        \* impact_score
  MaxBullets,    \* TailorRequest.max_bullets
  Retrievable,   \* the sets of facts a search may find, those of them that live
  ReplyLimit,    \* bound: bullets in a reply of the model
  Citations,     \* bound: the sets of numbers a summary or a letter of the model states
  MaxChanges,    \* bound: times a fact is reworded or retired
  MaxDeliveries  \* bound: résumés tailored

ASSUME TailoringAssumption ==
  /\ IsFiniteSet(Facts) /\ Impact \in [Facts -> Nat]
  /\ Retrievable \subseteq SUBSET Facts /\ "posting" \notin Facts
  /\ {MaxBullets, ReplyLimit, MaxChanges, MaxDeliveries} \subseteq Nat /\ MaxBullets > 0

VARIABLES
  known,     \* the revision of each fact, and whether it is retired
  cachedCv,  \* the results cached, by the ids of the facts retrieved
  cachedLtr, \* the letters cached, by the résumé they go with
  session,   \* the tailoring at work
  delivered, \* the résumé last returned, what was retrieved for it, and whether it is new
  letter     \* the letter written to it: the numbers it states

tailorVars == <<known, cachedCv, cachedLtr, session, delivered, letter>>
-----------------------------------------------------------------------------
Ghost == "ghost"      \* a fact id that was not in the prompt
\* What validation tells apart in a proposed text: it is empty, too long, drifts from its
\* fact or invents a number ("refused"), or it is faithful.
Proposals == {"refused", "faithful"}
Headings == {HeadingOf[f] : f \in Facts}
RawBullets == [id : Facts \cup {Ghost}, text : Proposals, under : Headings]
RawReplies == UNION {[1 .. n -> RawBullets] : n \in 0 .. ReplyLimit}

\* The numbers there are: a fact's, the posting's, and one that stands nowhere.
Number(f, r, in) == [of |-> f, rev |-> r, in |-> in]
OfPosting == Number("posting", 0, "text")
Invented == Number(Ghost, 0, "text")
Numbers == {OfPosting, Invented} \cup [of : Facts, rev : 0 .. MaxChanges, in : {"text", "detail"}]

\* A bullet: its fact, the revision it was read in, the wording, the section.
Bullets == [fact : Facts, rev : 0 .. MaxChanges, text : {"own", "faithful"}, under : Headings]
NoCv == [bullets |-> <<>>, summary |-> {}, details |-> {}]
NothingAsked == [at |-> "idle", basis |-> {}]
BasisOf(found) == {[fact |-> f, rev |-> known[f].rev] : f \in {g \in found : known[g].live}}
IdsOf(basis) == {b.fact : b \in basis}
NumbersOf(bullets, in) == {Number(b.fact, b.rev, in) : b \in ToSet(bullets)}
InSection(bullets, h) == {i \in DOMAIN bullets : bullets[i].under = h}

\* render_resume_text: the numbers a reader of the résumé finds, and with the posting's
\* those a letter may state.
Printed(cv) == cv.summary \cup cv.details \cup NumbersOf(cv.bullets, "text")
Supported(cv) == Printed(cv) \cup {OfPosting}

\* _validated_bullet: what is not faithful is replaced by the fact's own text.
Validated(raw, basis) ==
  [fact |-> raw.id,
   rev  |-> (CHOOSE b \in basis : b.fact = raw.id).rev,
   text |-> IF raw.text = "refused" THEN "own" ELSE raw.text,
   under |-> IF raw.id \in Movable THEN raw.under ELSE HeadingOf[raw.id]]

\* validate: an unknown id is dropped, a fact is used once, by its first bullet.
Traced(reply, basis) ==
  {i \in DOMAIN reply : /\ reply[i].id \in IdsOf(basis)
                        /\ \A j \in 1 .. (i - 1) : reply[j].id # reply[i].id}
Validate(reply, basis) ==
  LET used == Subsequence(reply, Traced(reply, basis))
  IN [k \in DOMAIN used |-> Validated(used[k], basis)]

\* drop_lowest_priority_bullets: weakest first, the later of equals, and a section keeps
\* its last one.
Weaker(bullets, i, j) ==
  LET a == Impact[bullets[i].fact]  b == Impact[bullets[j].fact]
  IN a < b \/ (a = b /\ i > j)
\* The last one of each section, in the order in which bullets are dropped.
Floor(bullets) ==
  {i \in DOMAIN bullets :
     \A j \in InSection(bullets, bullets[i].under) : ~Weaker(bullets, i, j)}
Doomed(bullets) ==
  LET droppable == DOMAIN bullets \ Floor(bullets)
      excess    == Len(bullets) - MaxBullets
  IN {i \in droppable :
        Cardinality({j \in droppable : Weaker(bullets, j, i)}) < excess}
EnforceBudget(bullets) == Subsequence(bullets, DOMAIN bullets \ Doomed(bullets))

\* _validated_summary: dropped whole if one number of it is not the posting's or a used fact's.
Summary(cited, bullets) ==
  IF cited \subseteq {OfPosting} \cup NumbersOf(bullets, "text") \cup NumbersOf(bullets, "detail")
  THEN cited ELSE {}

\* _assemble: the summary is measured against, and the skills line drawn from, the facts
\* used before the budget is enforced.
Assemble(bullets, summary) ==
  [bullets |-> EnforceBudget(bullets), summary |-> summary,
   details |-> NumbersOf(bullets, "detail")]

\* fallback_tailor: every retrieved fact in its own words, as the retrieval ranked them.
Rankings(basis) == {r \in [1 .. Cardinality(basis) -> basis] : IsInjective(r)}
Fallback(ranked) ==
  Assemble([k \in DOMAIN ranked |->
              [fact |-> ranked[k].fact, rev |-> ranked[k].rev, text |-> "own",
               under |-> HeadingOf[ranked[k].fact]]], {})
-----------------------------------------------------------------------------
TailorInit ==
  /\ known = [f \in Facts |-> [rev |-> 0, live |-> TRUE]]
  /\ cachedCv = {} /\ cachedLtr = {}
  /\ session = NothingAsked
  /\ delivered = [cv |-> NoCv, basis |-> {}, fresh |-> TRUE, count |-> 0]
  /\ letter = {}

MoreToCome == delivered.count < MaxDeliveries   \* the bound: later changes are not seen
\* The revisions written so far, and the facts retired.
Changes == Cardinality({c \in Facts \X (1 .. MaxChanges) : c[2] <= known[c[1]].rev})
             + Cardinality({f \in Facts : ~known[f].live})

\* A person rewords or retires a fact, or a later index pass does.
Rewords(f) ==
  /\ MoreToCome /\ known[f].live /\ Changes < MaxChanges
  /\ known' = [known EXCEPT ![f].rev = @ + 1]
  /\ UNCHANGED <<cachedCv, cachedLtr, session, delivered, letter>>
Retires(f) ==
  /\ MoreToCome /\ known[f].live /\ Changes < MaxChanges
  /\ known' = [known EXCEPT ![f].live = FALSE]
  /\ UNCHANGED <<cachedCv, cachedLtr, session, delivered, letter>>

Returns(cv, basis, fresh) ==
  /\ delivered' = [cv |-> cv, basis |-> basis, fresh |-> fresh, count |-> delivered.count + 1]
  /\ letter' = {}

\* prefilter, then the cache: its key holds the ids of the facts retrieved, not their text,
\* and their ranking, so that the same facts may miss, as they do when the cache is away.
Retrieve ==
  /\ session = NothingAsked /\ MoreToCome
  /\ \E basis \in {BasisOf(found) : found \in Retrievable} :
       \/ basis = {} /\ Returns(NoCv, {}, TRUE) /\ session' = session
       \/ \E c \in cachedCv :
            c.key = IdsOf(basis) /\ Returns(c.cv, basis, FALSE) /\ session' = session
       \/ /\ basis # {} /\ session' = [at |-> "asked", basis |-> basis]
          /\ UNCHANGED <<delivered, letter>>
  /\ UNCHANGED <<known, cachedCv, cachedLtr>>

FallsBack(basis) ==
  /\ \E ranked \in Rankings(basis) : Returns(Fallback(ranked), basis, TRUE)
  /\ cachedCv' = cachedCv

\* The model answers; a reply of which nothing can be traced is no reply.
Answered ==
  /\ session.at = "asked"
  /\ \E bullets \in {Validate(reply, session.basis) : reply \in RawReplies} :
       \/ bullets = <<>> /\ FallsBack(session.basis)
       \/ /\ bullets # <<>>
          /\ \E summary \in {Summary(cited, bullets) : cited \in Citations} :
               LET cv  == Assemble(bullets, summary)
                   key == IdsOf(session.basis)
               IN /\ Returns(cv, session.basis, TRUE)
                  /\ cachedCv' = {c \in cachedCv : c.key # key} \cup {[key |-> key, cv |-> cv]}
  /\ session' = NothingAsked
  /\ UNCHANGED <<known, cachedLtr>>

\* The model is out, over budget or unparseable; a fallback is not cached.
Unanswered ==
  /\ session.at = "asked"
  /\ FallsBack(session.basis)
  /\ session' = NothingAsked
  /\ UNCHANGED <<known, cachedLtr>>

\* Mutant of LetterKey: the letter is cached for the user and the posting alone.
LetterKeyPosting(cv) == {}

\* CoverLetterWriter._cache_key holds the content hash of the résumé.
LetterKey(cv) == cv

\* write: what was cached for this résumé, or what the model says without the sentences
\* whose number stands neither there nor in the posting, or, when too little is left of
\* that or the model fails, lines lifted from both, which are not cached.
WriteCoverLetter ==
  /\ session = NothingAsked /\ delivered.cv.bullets # <<>>
  /\ LET cv  == delivered.cv
         key == LetterKey(cv)
     IN \/ \E c \in cachedLtr : c.key = key /\ letter' = c.states /\ cachedLtr' = cachedLtr
        \/ \E cited \in Citations :
             /\ letter' = cited \cap Supported(cv)
             /\ cachedLtr' = {c \in cachedLtr : c.key # key} \cup
                               {[key |-> key, states |-> cited \cap Supported(cv)]}
        \/ letter' = Supported(cv) /\ cachedLtr' = cachedLtr
  /\ UNCHANGED <<known, cachedCv, session, delivered>>

\* The entries' time to live is over.
Expires ==
  /\ MoreToCome /\ <<cachedCv, cachedLtr>> # <<{}, {}>>
  /\ cachedCv' = {} /\ cachedLtr' = {}
  /\ UNCHANGED <<known, session, delivered, letter>>

TailorNext ==
  \/ \E f \in Facts : Rewords(f) \/ Retires(f)
  \/ Retrieve \/ Answered \/ Unanswered \/ WriteCoverLetter \/ Expires

TailorSpec == TailorInit /\ [][TailorNext]_tailorVars
-----------------------------------------------------------------------------
TailorTypeOK ==
  /\ known \in [Facts -> [rev : 0 .. MaxChanges, live : BOOLEAN]]
  /\ session.at \in {"idle", "asked"}
  /\ delivered.cv.bullets \in Seq(Bullets)
  /\ delivered.cv.details \subseteq Numbers /\ delivered.cv.summary \subseteq Numbers
  /\ delivered.fresh \in BOOLEAN /\ delivered.count \in 0 .. MaxDeliveries
  /\ letter \subseteq Numbers

\* What was read of a fact was read in the revision retrieved now, or, when the result came
\* from the cache, in that one or an earlier one.
Traces(f, r) ==
  \E k \in delivered.basis : k.fact = f /\ (r = k.rev \/ (~delivered.fresh /\ r < k.rev))

\* "The model may only select and rewrite" (resume_engine.py 14): whatever it replies,
\* and whatever comes from the caches, every bullet is a fact retrieved for this very
\* request, printed once; the budget holds but for one bullet a section; every number
\* printed is the posting's or of a retrieved fact; and a letter states numbers of the very
\* résumé it is sent with or of the posting, although both are cached apart.
NothingIsInvented ==
  LET cv       == delivered.cv
      bullets  == cv.bullets
      sections == {b.under : b \in ToSet(bullets)}
  IN /\ \A b \in ToSet(bullets) : Traces(b.fact, b.rev)
     /\ \A n \in Printed(cv) : n = OfPosting \/ Traces(n.of, n.rev)
     /\ \A i, j \in DOMAIN bullets : bullets[i].fact = bullets[j].fact => i = j
     /\ Len(bullets) <= MaxBullets \/ Len(bullets) = Cardinality(sections)
     /\ letter \subseteq Supported(cv)

\* "A skill on the skills line that no selected fact evidences is stripped" (resume_engine.py 31-32):
\* not of the code, which selects before the budget drops bullets.
SkillsAreSelected == delivered.cv.details \subseteq NumbersOf(delivered.cv.bullets, "detail")

\* "Re-tailoring after the knowledge graph changes is not" served from the cache
\* (resume_engine.py 54-56): not of the code, whose key holds the ids of facts alone (1613).
WordingIsCurrent ==
  \A b \in ToSet(delivered.cv.bullets) : [fact |-> b.fact, rev |-> b.rev] \in delivered.basis
=============================================================================
