----------------------- MODULE ArticleStoreImplements -----------------------
(***************************************************************************)
(* ArticleStore implements ArticleCatalog: the catalog is the article rows *)
(* without their ETags, a request takes effect when its transaction is     *)
(* applied, and it is told what its handler answers.                       *)
(***************************************************************************)
EXTENDS ArticleStore

WithoutETag(v) == [f \in DOMAIN v \ {"etag"} |-> v[f]]

\* What the catalog holds for an article.
Entry ==
  [slug : Slug, status : Status,
   draftBody : Request \cup {None}, publishedBody : Request \cup {None},
   published : Slug \cup {None}, historical : SUBSET Slug, updatedAt : Request]

ASSUME NoneIsNoEntry == None \notin Entry

Abstract == INSTANCE ArticleCatalog WITH
  catalog <- [id \in Request |-> IF article[id] = None THEN None ELSE WithoutETag(article[id])],
  applied <- committed,
  told <- answer

\* The service behaves like the catalog, step by step, from any state a run
\* starts in: its changes are atomic, keep slugs exclusive, and no request told
\* "failed" takes effect.
StepsImplementCatalog == [][Abstract!Next]_(Abstract!vars)

=============================================================================
