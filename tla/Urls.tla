-------------------------------- MODULE Urls --------------------------------
(***************************************************************************)
(* The addresses of webcrawler.js: how it cuts them, when it takes two for *)
(* the same page, and how it turns the href of a link into an address; and *)
(* what a browser makes of that link, for comparison.                      *)
(*                                                                         *)
(* An address is a record.  origin is <<scheme, label, label, ...>>, so    *)
(* that a host name is a prefix of another one as their strings are; path  *)
(* is the sequence of the segments, "." and ".." included; slash says      *)
(* whether a "/" ends the path; args is the set of <<name, value>> behind  *)
(* the "?".  Fragments and ports are left out.                             *)
(***************************************************************************)
EXTENDS Integers, SequencesExt

\* STRING, and the strings the crawler itself writes (a prover does not know that
\* they are in it).
Texts == STRING \cup {"tag", "true", "crawlerforminject"}

Addresses ==
  {u \in [origin: Seq(STRING), path: Seq(STRING), slash: BOOLEAN, args: SUBSET (Texts \X Texts)] :
     u.origin # <<>>}

Dots      == {".", ".."}
Names(u)  == {arg[1] : arg \in u.args}
Host(u)   == Tail(u.origin)
Site(scheme, host) == <<scheme>> \o host

\* fixURL: "?", then "/", then "/." at the end of the whole address.
FixURL(u) ==
  IF u.args # {} THEN u
  ELSE [u EXCEPT !.slash = FALSE,
                 !.path  = IF @ # <<>> /\ Last(@) = "." THEN Front(@) ELSE @]

\* fixUrlEnd: "/" or "/" and dots at the end of the path, before the "?".
FixUrlEnd(u) ==
  IF u.slash THEN [u EXCEPT !.slash = FALSE]
  ELSE IF u.path # <<>> /\ Last(u.path) \in Dots THEN [u EXCEPT !.path = Front(@)]
  ELSE u

\* uniqueUrlStr: two addresses that differ only in values are one page.
Unique(u) == [origin |-> u.origin, path |-> u.path, slash |-> u.slash, names |-> Names(u)]

\* injectUrl: every parameter gets a tag as its value.
InjectUrl(u) == [u EXCEPT !.args = {<<n, "tag">> : n \in Names(u)}]

-----------------------------------------------------------------------------
(* The href of a link: a whole address ("abs"), one that begins with "/"   *)
(* ("root"), with "?" ("query"), or anything else ("rel").  The origin of  *)
(* its url matters only if it is "abs".                                    *)

Links == [kind: {"abs", "root", "query", "rel"}, url: Addresses]

\* The directory of a document, locations.path.
Dir(u) == IF u.slash \/ u.path = <<>> THEN u.path ELSE Front(u.path)

\* Whether a "/" follows the i-th segment.
Followed(h, i) == i < Len(h.url.path) \/ h.url.slash
\* How many of the patterns "../", "../../", "../../../" the beginning matches.
UpsUpTo(max, h) ==
  LET up(n) == Len(h.url.path) >= n /\ \A i \in 1..n : h.url.path[i] = ".." /\ Followed(h, i)
  IN  CHOOSE n \in 0..max : up(n) /\ \A m \in (n+1)..max : ~up(m)

\* A mistake: the pattern "../../../" is missing.
UpsTwice(h) == UpsUpTo(2, h)

Ups(h) == UpsUpTo(3, h)

\* url.substring(url.lastIndexOf('./')+1): what follows the last "./" anywhere.
AfterDots(h) ==
  LET p == h.url.path
  IN  [h.url EXCEPT !.path = SubSeq(p, 1 + SelectLastInSubSeq(p, 1,
         IF h.url.slash THEN Len(p) ELSE Len(p) - 1, LAMBDA seg : seg \in Dots), Len(p))]

\* base without its last n segments, and url behind it.  Above the root the
\* cuts go on into "http://host": the next segment becomes the host, or nothing.
Cut(base, n, url) ==
  IF n <= Len(base.path)
  THEN [url EXCEPT !.origin = base.origin, !.path = SubSeq(base.path, 1, Len(base.path) - n) \o @]
  ELSE IF n = Len(base.path) + 1 /\ url.path # <<>>
  THEN [url EXCEPT !.origin = <<base.origin[1], Head(url.path)>>, !.path = Tail(@)]
  ELSE [url EXCEPT !.origin = <<base.origin[1]>>]

\* reBuildURL, for a link in the document doc of the crawler of address self.
ReBuildURL(doc, self, h) ==
  LET base == [doc EXCEPT !.path = Dir(doc)]
      leadingDot == h.url.path # <<>> /\ h.url.path[1] = "." /\ Followed(h, 1)
  IN  CASE h.kind = "abs"   -> h.url
        [] h.kind = "root"  -> [h.url EXCEPT !.origin = doc.origin]
        [] h.kind = "query" -> FixUrlEnd(IF self.args # {} THEN self ELSE [self EXCEPT !.args = h.url.args])
        [] h.kind = "rel" /\ (Ups(h) > 0 \/ leadingDot) -> FixUrlEnd(Cut(base, Ups(h), AfterDots(h)))
        [] OTHER -> FixUrlEnd(Cut(base, 0, h.url))

-----------------------------------------------------------------------------
(* What a browser makes of an address (RFC 3986).                          *)

\* "." and ".." are resolved.
Resolved(path) ==
  LET f[i \in 0..Len(path)] ==
        IF i = 0 THEN <<>>
        ELSE CASE path[i] = "."  -> f[i-1]
               [] path[i] = ".." -> IF f[i-1] = <<>> THEN <<>> ELSE Front(f[i-1])
               [] OTHER          -> Append(f[i-1], path[i])
  IN  f[Len(path)]

\* The address a browser goes to.
Browsed(u) ==
  [u EXCEPT !.path = Resolved(@), !.slash = @ \/ (u.path # <<>> /\ Last(u.path) \in Dots)]

-----------------------------------------------------------------------------
(* For comparison: the address a browser follows a link to, up to the "/"  *)
(* at the end, which the crawler drops.                                    *)

Resource(u) == [origin |-> u.origin, path |-> Resolved(u.path), args |-> u.args]

Target(doc, h) ==
  Resource(CASE h.kind = "abs"   -> h.url
             [] h.kind = "root"  -> [h.url EXCEPT !.origin = doc.origin]
             [] h.kind = "query" -> [doc EXCEPT !.args = h.url.args]
             [] h.kind = "rel"   -> [h.url EXCEPT !.origin = doc.origin, !.path = Dir(doc) \o @])

\* The links reBuildURL is wrong about: more ".." than it knows or than the
\* document has directories; a "." or ".." after a name, with dots in front of
\* it; dots at the very end; parameters in place of others, or behind "..".
Awkward(doc, self, h) ==
  LET p    == h.url.path
      ups  == SelectInSeq(p \o <<"end">>, LAMBDA seg : seg # "..") - 1
  IN  \/ /\ h.kind = "query"
         /\ \/ self.args # {} \/ Resource(self) # Resource([doc EXCEPT !.args = {}])
            \/ ~self.slash /\ self.path # <<>> /\ Last(self.path) = ".."
      \/ /\ h.kind = "rel"
         /\ \/ ups > 3 \/ ups > Len(Dir(doc))
            \/ \E i \in DOMAIN p : i > 1 /\ i > ups /\ p[i] \in Dots /\ p[1] \in Dots
            \/ ~h.url.slash /\ p # <<>> /\ Last(p) \in Dots
=============================================================================
