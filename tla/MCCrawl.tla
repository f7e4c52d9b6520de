------------------------------ MODULE MCCrawl ------------------------------
(* Small webs for Crawl.                                                   *)
EXTENDS Crawl, TLC

U(host, path, slash, args) == [origin |-> <<"http">> \o host, path |-> path, slash |-> slash, args |-> args]
H == <<"h">>
At(path, args)   == U(H, path, FALSE, args)
Rel(path, slash) == [kind |-> "rel", url |-> U(H, path, slash, {})]
Abs(u)   == [kind |-> "abs", url |-> u]
Root(u)  == [kind |-> "root", url |-> u]
Query(a) == [kind |-> "query", url |-> At(<<>>, a)]

NoTable == [path \in {} |-> <<>>]
Plain(links) == [target |-> At(<<>>, {}), login |-> NoUrl, links |-> links, forms |-> NoTable,
                 moves |-> NoTable, redirect |-> NoTable, weird |-> {}]

\* One link, of every form up to three segments and some of four, in a document
\* of depth none, one, two and four.
Hrefs ==
  {Rel(path, slash) : slash \in BOOLEAN,
     path \in UNION {[1..n -> {".", "..", "a"}] : n \in 1..3}
                \cup {<<"..", "..", "..", last>> : last \in {"..", ".", "a"}}}
    \cup {Query({<<"x", "1">>})}
Docs == {U(H, SubSeq(<<"d", "e", "f", "g">>, 1, n), FALSE, {}) : n \in {0, 1, 2, 4}}
LinkWebs == {[Plain((doc.path :> <<h>>)) EXCEPT !.target = doc] : doc \in Docs, h \in Hrefs}

\* The same in a document whose address ends with "/", or has parameters.
SlashWebs ==
  {[Plain((<<"d">> :> <<h>>)) EXCEPT !.target = At(<<"r">>, {}), !.redirect = (<<"r">> :> u)] :
     u \in {U(H, <<"d">>, TRUE, {})}, h \in {Rel(<<"..", "a">>, FALSE), Rel(<<"a">>, FALSE), Rel(<<".">>, FALSE), Rel(<<"..">>, TRUE)}}
QueryWebs ==
  {[Plain((<<"d">> :> <<Query({<<"x", "1">>})>>)) EXCEPT !.target = U(H, <<"d">>, slash, {<<"y", "1">>})] :
     slash \in BOOLEAN}

\* A login page whose links have links, among them the target.
LoginWeb(host) ==
  [Plain((<<"in">> :> <<Root(At(<<"p">>, {<<"x", "1">>})), Rel(<<"p">>, FALSE)>>)
      @@ (<<"p">> :> <<Rel(<<"q">>, FALSE)>>))
   EXCEPT !.login = U(host, <<"in">>, FALSE, {}), !.target = At(<<"p">>, {<<"x", "2">>}),
          !.moves = (<<"in">> :> {At(<<"home">>, {})})]

\* One page with different values.
ValuesWeb == Plain((<<>> :> <<Abs(At(<<"p">>, {<<"x", "1">>})), Root(At(<<"p">>, {<<"x", "2">>}))>>))

\* Two documents with one form, one of them raises.
FormWeb(weird) ==
  [Plain((<<>> :> <<Rel(<<"p">>, FALSE)>>))
   EXCEPT !.forms = (<<>> :> {U(H, <<"post">>, TRUE, {})}) @@ (<<"p">> :> {U(H, <<"post">>, TRUE, {})}),
          !.weird = weird]

\* The site uses the parameter of the crawler, in a link and where it redirects to.
MarkerWeb ==
  [FormWeb({}) EXCEPT !.links = (<<>> :> <<Root(At(<<"p">>, {<<"crawlerforminject", "x">>}))>>),
                      !.redirect = (<<"post">> :> At(<<"thanks">>, {Marker}))]

\* A page that moves back, to a "/" before parameters and to a foreign site; a
\* redirect; two addresses of one page; a foreign host with the same beginning.
MoveWeb ==
  [Plain((<<>> :> <<Rel(<<"d">>, TRUE)>>))
   EXCEPT !.moves = (<<"d">> :> {At(<<>>, {}), U(H, <<"d">>, TRUE, {<<"x", "1">>}), U(<<"o">>, <<>>, FALSE, {})})]
RedirectWeb ==
  [Plain((<<"d">> :> <<Abs(U(<<"h", "x">>, <<>>, FALSE, {})), Rel(<<"d", "..", "d">>, FALSE)>>))
   EXCEPT !.redirect = (<<"r">> :> At(<<"d">>, {})), !.target = At(<<"r">>, {})]

\* Dots in the config and in the actions of forms.
DottedWeb ==
  [Plain((<<>> :> <<Query({<<"x", "1">>})>>)) EXCEPT !.target = At(<<"d", "..">>, {})]
DottedFormWeb ==
  [FormWeb({}) EXCEPT !.forms = [path \in {<<>>, <<"p">>} |-> {At(<<".", "post", "..">>, {})}]]

MalformedWeb == Plain((<<>> :> <<Rel(<<"%">>, FALSE), Root(At(<<"logout">>, {}))>>))

MCWebs == LinkWebs \cup SlashWebs \cup QueryWebs
  \cup {LoginWeb(H), LoginWeb(<<"sso">>), FormWeb({}), FormWeb({<<"p">>}), MarkerWeb, DottedWeb, DottedFormWeb, MoveWeb, RedirectWeb, ValuesWeb, MalformedWeb}
MCStop == {MalformedWeb}
=============================================================================
