---------------------------- MODULE OfficialSearch ----------------------------
(***************************************************************************)
(* The search for official pages of a platform: YouSearchProvider          *)
(* (adapters/youSearch.ts), which asks a search service, keeps the results *)
(* that validateSourceAuthority (core/sourceAuthority.ts) accepts, and     *)
(* retrieves them and the pages they link to, one request after another,   *)
(* following redirects by hand.                                            *)
(*                                                                         *)
(* A url is [secure, host, owner, leads]: the labels of its host name, the *)
(* organization of a repository, and whether its words promise a first     *)
(* step.  The web is external: any url answers anything, differently each  *)
(* time.                                                                   *)
(***************************************************************************)
EXTENDS Naturals, Sequences, FiniteSets, SequencesExt, Lists

CONSTANTS Urls,
          Domains,        \* the identity's root, documentation and application domains
          Organizations,  \* its approved GitHub organizations
          ResultLists,    \* what the search service may find
          LinkLists,      \* the links a page may have
          MaxPages,       \* MAX_EVIDENCE_PAGES
          MaxRedirects    \* MAX_REDIRECTS

ASSUME SearchLimits == MaxPages \in Nat \ {0} /\ MaxRedirects \in Nat
ASSUME SearchLists ==
  /\ \A list \in ResultLists \cup LinkLists : list \in Seq(Urls)
  /\ \A host \in {u.host : u \in Urls} \cup Domains : host \in Seq(ToSet(host))

VARIABLES
  pc,        \* "searching", "choosing", "requesting", "done" or "failed"
  results,   \* what the search service found
  queue, seen,
  current, hops,  \* the url of the next request, and the redirects before it
  pages,     \* the pages retrieved, with the url that served each
  asked      \* every url requested

searchVars == <<pc, results, queue, seen, current, hops, pages, asked>>
------------------------------------------------------------------------------
(* validateSourceAuthority                                                 *)

\* The domain itself, or labels before it.
isDomainOrSubdomain(host, domain) == IsSuffix(domain, host)

githubOwner(u) == IF u.host = <<"github", "com">> THEN u.owner ELSE "none"

\* A repository is judged by its organization, even when github.com is a
\* domain of the platform.
accepted(u) ==
  /\ u.secure
  /\ IF githubOwner(u) # "none" THEN githubOwner(u) \in Organizations
     ELSE \E domain \in Domains : isDomainOrSubdomain(u.host, domain)

official == {u \in Urls : accepted(u)}
filterOfficialDiscoveryResults(found) == Among(found, official)
------------------------------------------------------------------------------
NoUrl == [host |-> <<>>]

SearchInit ==
  /\ pc = "searching" /\ results = <<>> /\ queue = <<>> /\ seen = {}
  /\ current = NoUrl /\ hops = 0 /\ pages = <<>> /\ asked = {}

\* The search service answers.
Find ==
  /\ pc = "searching"
  /\ \E found \in ResultLists :
       results' = found /\ queue' = filterOfficialDiscoveryResults(found)
  /\ pc' = "choosing"
  /\ UNCHANGED <<seen, current, hops, pages, asked>>

\* The search service refuses, is too slow or cannot be reached; or a page
\* cannot.  The whole search is given up.
Fail ==
  /\ pc \in {"searching", "requesting"}
  /\ pc' = "failed"
  /\ asked' = IF pc = "requesting" THEN asked \cup {current} ELSE asked
  /\ UNCHANGED <<results, queue, seen, current, hops, pages>>

more == queue # <<>> /\ Len(pages) < MaxPages

\* The next candidate, unless it was one before.
Choose ==
  /\ pc = "choosing" /\ more
  /\ queue' = Tail(queue)
  /\ IF Head(queue) \in seen THEN UNCHANGED <<pc, seen, current, hops>>
     ELSE /\ seen' = seen \cup {Head(queue)}
          /\ current' = Head(queue) /\ hops' = 0 /\ pc' = "requesting"
  /\ UNCHANGED <<results, pages, asked>>

End == pc = "choosing" /\ ~more /\ pc' = "done"
       /\ UNCHANGED <<results, queue, seen, current, hops, pages, asked>>

\* The links of a page that are worth a request.
following(links) ==
  Among(links, {u \in official : u.leads /\ u \notin seen})

enqueued(links) == queue \o following(links)

\* A body was received: the page is the current url's, served by the url that
\* was asked.  A page has content when it has text and the status is 2xx.
Retrieve(url, ok) ==
  \E text \in BOOLEAN, links \in LinkLists :
    /\ pages' = Append(pages, [url |-> url, from |-> current, links |-> Among(links, official),
                               contentPresent |-> ok /\ text])
    /\ queue' = enqueued(links)
    /\ pc' = "choosing" /\ UNCHANGED <<seen, hops>> /\ current' = NoUrl

\* An answer of its own, or a redirect that says nowhere.
Answered == \E ok \in BOOLEAN : Retrieve(current, ok)

\* A redirect to another authority ends the candidate.  After the last one
\* allowed, what was received counts as the page it points to.
Redirected ==
  \E to \in Urls :
    IF ~accepted(to)
    THEN pc' = "choosing" /\ current' = NoUrl /\ UNCHANGED <<queue, seen, hops, pages>>
    ELSE IF hops = MaxRedirects THEN Retrieve(to, FALSE)
    ELSE current' = to /\ hops' = hops + 1 /\ UNCHANGED <<pc, queue, seen, pages>>

\* fetchEvidencePage: one request.
Request ==
  /\ pc = "requesting"
  /\ asked' = asked \cup {current}
  /\ Answered \/ Redirected
  /\ UNCHANGED results

SearchNext == Find \/ Fail \/ Choose \/ End \/ Request

SearchSpec == SearchInit /\ [][SearchNext]_searchVars
------------------------------------------------------------------------------
(* Properties                                                              *)

SearchTypeOK ==
  /\ pc \in {"searching", "choosing", "requesting", "done", "failed"}
  /\ results \in ResultLists \cup {<<>>}
  /\ queue \in Seq(Urls) /\ seen \in SUBSET Urls /\ asked \in SUBSET Urls
  /\ current \in Urls \cup {NoUrl} /\ hops \in 0..MaxRedirects
  /\ \A k \in DOMAIN pages : pages[k].url \in Urls /\ pages[k].contentPresent \in BOOLEAN

\* No request goes to another authority, by way of the results, of links or
\* of redirects: never without TLS, never to a repository of someone else,
\* and only to hosts whose labels end in a domain of the platform.
OnlyOfficialAsked ==
  \A u \in asked :
    /\ u.secure
    /\ u.host = <<"github", "com">> /\ u.owner # "none" => u.owner \in Organizations
    /\ u.owner = "none" =>
         \E d \in Domains, k \in 0..Len(u.host) : SubSeq(u.host, k + 1, Len(u.host)) = d

\* A page whose content may support claims was served by the url it is
\* listed under, whatever redirects led there (contentPresent, canonicalUrl).
ContentIsFromItsUrl ==
  \A k \in DOMAIN pages : pages[k].contentPresent => pages[k].from = pages[k].url

\* The prompt of the research run is built for at most so many pages.
PagesBounded == Len(pages) <= MaxPages

\* A search that ends below the limit has tried every official result and
\* every official first step that a page linked to.
NothingLeftOut ==
  pc = "done" /\ Len(pages) < MaxPages =>
    /\ \A k \in DOMAIN results : accepted(results[k]) => results[k] \in seen
    /\ \A k \in DOMAIN pages : \A u \in ToSet(pages[k].links) : u.leads => u \in seen

\* The limit is not spent on links while a result of the search waits.
ResultsFirst ==
  seen \ ToSet(results) # {} =>
    \A k \in DOMAIN results : accepted(results[k]) => results[k] \in seen

\* Whatever results, links and redirects the web comes up with, the pages of a
\* search are official, few, and the right ones.
SearchStaysOfficial ==
  /\ SearchTypeOK
  /\ OnlyOfficialAsked
  /\ ContentIsFromItsUrl
  /\ PagesBounded
  /\ NothingLeftOut
  /\ ResultsFirst
==============================================================================
