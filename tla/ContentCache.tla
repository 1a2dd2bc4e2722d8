---------------------------- MODULE ContentCache ----------------------------
(***************************************************************************)
(* The cached pages of the storefront.  A route keeps each page it         *)
(* assembles; the content service below it keeps what it read under a key  *)
(* of its own; a write in the dashboard deletes first the service's keys   *)
(* and then the page's.  CacheService swallows every error of Redis.       *)
(*                                                                         *)
(* A family is what the editors of one screen write.  A behaviour is about *)
(* one of them.                                                            *)
(***************************************************************************)
EXTENDS Naturals, Sequences, FiniteSets, TLC

CONSTANTS
  Reader,      \* storefront requests
  Editor,      \* dashboard requests
  MaxWrites,   \* a bound
  MaxWraps,    \* a bound: a page wrapped this often is wrapped no deeper
  Screens      \* the names of the families a run is about

ASSUME CacheAssumption ==
  /\ MaxWrites \in Nat \ {0} /\ MaxWraps \in Nat /\ IsFiniteSet(Reader) /\ IsFiniteSet(Editor)
  /\ Screens \subseteq {"products", "categories", "testimonials", "hero", "assets", "faq", "slides", "policies", "journal",
                        "studio", "shop", "home", "story", "navigation", "contact", "account", "history", "product_page"}

NoKey == "none"

(* What a service reads: a document, and the key it keeps it under.        *)
Source(d, key) == [doc |-> d, key |-> key]

(* What a route answers: the key of the page, its sources, how deep the    *)
(* route wraps what they return, and whether a page of nothing is kept.    *)
PageOf(key, from, wraps, empties) == [key |-> key, from |-> from, wraps |-> wraps, empties |-> empties]

(* The deletes of a write, in order, for each document.                    *)
Family(pages, deletes) == [pages |-> pages, deletes |-> deletes]

(* One document: the service's keys, then the route's.  (ScreenPageFirst:  *)
(* a mutant, the other way round.)                                         *)
ScreenPageFirst(d, service, pages, route) == Family(pages, [x \in {d} |-> <<route, service>>])
Screen(d, service, pages, route) == Family(pages, [x \in {d} |-> <<service, route>>])
-----------------------------------------------------------------------------
(* The services *)

Testimonials == Source("testimonial", "testimonials:list")
HeroConfig == Source("hero", "hero_config:active")
SiteAssets == Source("asset", "site_assets:list")
SiteAssetByKey == Source("asset", "site_assets:key")
FaqItems == Source("faq", "faq:all:True")
CollectionSlides == Source("slide", "collection_slides:True")
StudioSettings == Source("settings", "studio_settings")
ShopPageSettings == Source("settings", "shop_page")
HomePageSettings == Source("settings", "home_page")
StoryPageSettings == Source("settings", "story_page")
NavigationSettings == Source("settings", "navigation")
ContactPageSettings == Source("settings", "contact_page")
AccountPageSettings == Source("settings", "account_page")
HistoryPageSettings == Source("settings", "history_page")
ProductPageSettings == Source("settings", "product_page")
PolicyContent == Source("policies", "policies")
JournalMeta == Source("journal", "journal_page")
BlogPosts == Source("post", "blog_posts")
ProductDoc == Source("product", NoKey)
CategoryDoc == Source("category", NoKey)
-----------------------------------------------------------------------------
(* The pages *)

ProductPages == {PageOf("products", <<ProductDoc>>, 1, TRUE), PageOf("product", <<ProductDoc>>, 0, FALSE)}
OgPage == PageOf("og:product", <<ProductDoc>>, 0, FALSE)
CategoryPages == {PageOf("categories", <<CategoryDoc>>, 1, TRUE), PageOf("category", <<CategoryDoc>>, 0, FALSE)}
TestimonialPage == PageOf("testimonials", <<Testimonials>>, 1, TRUE)
HeroPage == PageOf("hero", <<HeroConfig>>, 0, TRUE)
AssetPages == {PageOf("site-assets", <<SiteAssets>>, 1, TRUE), PageOf("site-asset", <<SiteAssetByKey>>, 0, FALSE)}
FaqPage == PageOf("faq:all", <<FaqItems>>, 1, TRUE)
SlidesPage == PageOf("collection-slides", <<CollectionSlides>>, 1, TRUE)
PoliciesPage == PageOf("policies", <<PolicyContent>>, 0, TRUE)
JournalPage == PageOf("journal", <<JournalMeta, BlogPosts>>, 1, TRUE)
SettingsPage(key, source) == PageOf(key, <<source>>, 1, TRUE)
SettingsPages ==
  [studio |-> SettingsPage("studio-settings", StudioSettings),
   shop |-> SettingsPage("shop-page", ShopPageSettings),
   home |-> SettingsPage("home-page", HomePageSettings),
   story |-> SettingsPage("story-page", StoryPageSettings),
   navigation |-> SettingsPage("navigation", NavigationSettings),
   contact |-> SettingsPage("contact-page", ContactPageSettings)]
MorePages ==
  [account |-> SettingsPage("account-page", AccountPageSettings),
   history |-> SettingsPage("history-page", HistoryPageSettings),
   product_page |-> SettingsPage("product-page", ProductPageSettings)]
-----------------------------------------------------------------------------
(* The screens of the dashboard, and what a write on each deletes.         *)

(* Nothing deletes the preview of a product: its ten minutes pass.         *)
ProductScreen == Family(ProductPages \cup {OgPage}, [product |-> <<{"products"}, {"product"}>>])
CategoryScreen == Family(CategoryPages, [category |-> <<{"categories"}, {"category"}>>])
TestimonialScreen == Screen("testimonial", {"testimonials:list"}, {TestimonialPage}, {"testimonials"})
HeroScreen == Screen("hero", {"hero_config:active"}, {HeroPage}, {"hero"})
AssetScreen == Screen("asset", {"site_assets:list", "site_assets:key"}, AssetPages, {"site-assets", "site-asset"})
FaqScreen == Screen("faq", {"faq:all:True", "faq:all"}, {FaqPage}, {"faq:all:True", "faq:all"})
SlidesScreen == Screen("slide", {"collection_slides:True"}, {SlidesPage}, {"collection-slides"})
PolicyScreen == Screen("policies", {"policies"}, {PoliciesPage}, {"policies"})
SettingsScreen(page) == Screen("settings", {page.from[1].key}, {page}, {page.key})
SettingsScreens == [name \in DOMAIN SettingsPages |-> SettingsScreen(SettingsPages[name])]
MoreScreens == [name \in DOMAIN MorePages |-> SettingsScreen(MorePages[name])]
JournalScreen ==
  Family({JournalPage}, [journal |-> <<{"journal_page"}, {"blog_posts"}, {"journal"}>>,
                         post |-> <<{"blog_posts"}, {"journal"}>>])

FamilyOf(name) ==
  CASE name = "products" -> ProductScreen
    [] name = "categories" -> CategoryScreen
    [] name = "testimonials" -> TestimonialScreen
    [] name = "hero" -> HeroScreen
    [] name = "assets" -> AssetScreen
    [] name = "faq" -> FaqScreen
    [] name = "slides" -> SlidesScreen
    [] name = "policies" -> PolicyScreen
    [] name = "journal" -> JournalScreen
    [] name \in DOMAIN SettingsScreens -> SettingsScreens[name]
    [] name \in DOMAIN MoreScreens -> MoreScreens[name]
-----------------------------------------------------------------------------
VARIABLES
  family,
  content,   \* document -> its version, 0 when there is none to show
  kept,      \* key -> [of, wraps]: the versions a cached answer shows
  late,      \* keys filled by a reader a write overtook or after a delete listed
             \* them, or whose delete failed
  reader,    \* what each reader is at, what it has, and whether a write overtook it
  editor,    \* what each editor is at, and the deletes it has left
  writes

cacheVars == <<family, content, kept, late, reader, editor, writes>>

Docs == DOMAIN family.deletes
Version == 0 .. MaxWrites
AtRest == [at |-> "idle", page |-> OgPage, todo |-> <<>>, has |-> <<>>, wraps |-> 0, overtaken |-> FALSE]
NotEditing == [at |-> "idle", todo |-> <<>>, found |-> {}]

CacheInit ==
  /\ family \in {FamilyOf(name) : name \in Screens}
  /\ content \in [Docs -> 0 .. 1]
  /\ kept = <<>> /\ late = {}
  /\ reader = [r \in Reader |-> AtRest]
  /\ editor = [e \in Editor |-> NotEditing]
  /\ writes = 0

Keep(key, of, wraps) ==
  kept' = [k \in DOMAIN kept \cup {key} |-> IF k = key THEN [of |-> of, wraps |-> wraps] ELSE kept[k]]
Drop(keys) == kept' = [k \in DOMAIN kept \ keys |-> kept[k]]
Unlisted(key) == \E e \in Editor : editor[e].at = "listed" /\ key \in Head(editor[e].todo) \ editor[e].found
Marked(key, isLate) == late' = IF isLate \/ Unlisted(key) THEN late \cup {key} ELSE late \ {key}

(* Five or ten minutes.                                                    *)
CacheLapses(key) ==
  /\ key \in DOMAIN kept
  /\ Drop({key}) /\ late' = late \ {key}
  /\ UNCHANGED <<family, content, reader, editor, writes>>
-----------------------------------------------------------------------------
(* A reader.  Its route looks for the page, and asks for each source in    *)
(* turn; a service looks for what it kept, reads, and keeps what it finds. *)

MissPage(r, p) ==
  /\ reader[r].at = "idle"
  /\ p.key \notin DOMAIN kept
  /\ reader' = [reader EXCEPT ![r] = [AtRest EXCEPT !.at = "asking", !.page = p, !.todo = p.from]]
  /\ UNCHANGED <<family, content, kept, late, editor, writes>>

Asks(r) == reader[r].at = "asking" /\ reader[r].todo # <<>>
With(of, has) == [d \in DOMAIN of \cup DOMAIN has |-> IF d \in DOMAIN of THEN of[d] ELSE has[d]]
Gets(r, of, wraps, overtaken) ==
  reader' = [reader EXCEPT ![r].at = "asking", ![r].todo = Tail(@), ![r].has = With(of, @),
                           ![r].wraps = wraps, ![r].overtaken = overtaken]

FindSource(r) ==
  LET key == Head(reader[r].todo).key IN
  /\ Asks(r)
  /\ key \in DOMAIN kept
  /\ Gets(r, kept[key].of, kept[key].wraps, reader[r].overtaken \/ key \in late)
  /\ UNCHANGED <<family, content, kept, late, editor, writes>>

MissSource(r) ==
  /\ Asks(r)
  /\ Head(reader[r].todo).key \notin DOMAIN kept
  /\ reader' = [reader EXCEPT ![r].at = "reading"]
  /\ UNCHANGED <<family, content, kept, late, editor, writes>>

ReadSource(r) ==
  LET source == Head(reader[r].todo)
      of == [d \in {source.doc} |-> content[source.doc]]
  IN  /\ reader[r].at = "reading"
      /\ IF source.key = NoKey \/ content[source.doc] = 0
         THEN Gets(r, of, 0, reader[r].overtaken)
         ELSE reader' = [reader EXCEPT ![r].at = "keeping", ![r].has = With(of, @)]
      /\ UNCHANGED <<family, content, kept, late, editor, writes>>

KeepSource(r) ==
  LET source == Head(reader[r].todo)
      of == [d \in {source.doc} |-> reader[r].has[source.doc]]
  IN  /\ reader[r].at = "keeping"
      /\ Keep(source.key, of, 0) /\ Marked(source.key, reader[r].overtaken)
      /\ Gets(r, of, 0, reader[r].overtaken)
      /\ UNCHANGED <<family, content, editor, writes>>

Wrapped(depth, more) == IF depth + more <= MaxWraps THEN depth + more ELSE MaxWraps

KeepPage(r) ==
  LET me == reader[r]  IN
  /\ me.at = "asking" /\ me.todo = <<>>
  /\ IF me.page.empties \/ \E d \in DOMAIN me.has : me.has[d] # 0
     THEN Keep(me.page.key, me.has, Wrapped(me.wraps, me.page.wraps)) /\ Marked(me.page.key, me.overtaken)
     ELSE UNCHANGED <<kept, late>>
  /\ reader' = [reader EXCEPT ![r] = AtRest]
  /\ UNCHANGED <<family, content, editor, writes>>
-----------------------------------------------------------------------------
(* An editor.  Every reader at work while it writes, deletes, or fails to, *)
(* is overtaken.                                                           *)

Overtakes ==
  reader' = [r \in Reader |-> [reader[r] EXCEPT !.overtaken = reader[r].at # "idle"]]

Write(e, d, v) ==
  /\ editor[e].at = "idle" /\ writes < MaxWrites
  /\ content' = [content EXCEPT ![d] = v]
  /\ editor' = [editor EXCEPT ![e] = [NotEditing EXCEPT !.at = "deleting", !.todo = family.deletes[d]]]
  /\ writes' = writes + 1
  /\ Overtakes
  /\ UNCHANGED <<family, kept, late>>

Deletes(e) ==
  editor' = [editor EXCEPT ![e] = IF Len(editor[e].todo) = 1 THEN NotEditing
                ELSE [NotEditing EXCEPT !.at = "deleting", !.todo = Tail(editor[e].todo)]]

(* delete_pattern lists the keys there are, and then deletes those.  A key *)
(* named in full is deleted whether or not it was there.                   *)
NamedInFull == {"testimonials", "hero", "site-assets", "collection-slides", "categories", "policies",
                "journal", "journal_page"} \cup
               UNION {{p.key, p.from[1].key} : p \in {SettingsPages[n] : n \in DOMAIN SettingsPages} \cup
                                                  {MorePages[n] : n \in DOMAIN MorePages}}

ListKeys(e) ==
  /\ editor[e].at = "deleting"
  /\ editor' = [editor EXCEPT ![e].at = "listed",
                              ![e].found = Head(editor[e].todo) \cap (DOMAIN kept \cup NamedInFull)]
  /\ Overtakes
  /\ UNCHANGED <<family, content, kept, late, writes>>

DeleteKeys(e) ==
  /\ editor[e].at = "listed"
  /\ Drop(editor[e].found) /\ late' = late \ editor[e].found
  /\ Deletes(e)
  /\ Overtakes
  /\ UNCHANGED <<family, content, writes>>

DeleteFails(e) ==
  /\ editor[e].at \in {"deleting", "listed"}
  /\ late' = late \cup Head(editor[e].todo)
  /\ Deletes(e)
  /\ Overtakes
  /\ UNCHANGED <<family, content, kept, writes>>

(* restore_bundle: the documents one by one, and then every key at once;   *)
(* a failure between leaves the keys as they are.                          *)
KeysOf(f) == {p.key : p \in f.pages} \cup
             {s.key : s \in UNION {{p.from[i] : i \in DOMAIN p.from} : p \in f.pages}}

Restore(e, d, v) ==
  /\ editor[e].at \in {"idle", "restoring"} /\ writes < MaxWrites
  /\ content' = [content EXCEPT ![d] = v]
  /\ editor' = [editor EXCEPT ![e] = [NotEditing EXCEPT !.at = "restoring", !.todo = <<KeysOf(family)>>]]
  /\ writes' = writes + 1
  /\ Overtakes
  /\ UNCHANGED <<family, kept, late>>

RestoreEnds(e) ==
  /\ editor[e].at = "restoring"
  /\ editor' = [editor EXCEPT ![e].at = "deleting"]
  /\ UNCHANGED <<family, content, kept, late, reader, writes>>

RestoreFails(e) ==
  /\ editor[e].at = "restoring"
  /\ late' = late \cup KeysOf(family)
  /\ editor' = [editor EXCEPT ![e] = NotEditing]
  /\ Overtakes
  /\ UNCHANGED <<family, content, kept, writes>>

ReaderSteps(r) == FindSource(r) \/ MissSource(r) \/ ReadSource(r) \/ KeepSource(r) \/ KeepPage(r)
EditorSteps(e) == ListKeys(e) \/ DeleteKeys(e) \/ RestoreEnds(e)

CacheNext ==
  \/ \E key \in DOMAIN kept : CacheLapses(key)
  \/ \E r \in Reader : ReaderSteps(r) \/ \E p \in family.pages : MissPage(r, p)
  \/ \E e \in Editor :
       \/ EditorSteps(e) \/ DeleteFails(e) \/ RestoreFails(e)
       \/ \E d \in Docs, v \in Version : Write(e, d, v) \/ Restore(e, d, v)

CacheFairness ==
  /\ \A key \in UNION {KeysOf(FamilyOf(name)) : name \in Screens} : WF_cacheVars(CacheLapses(key))
  /\ \A r \in Reader : WF_cacheVars(ReaderSteps(r))
  /\ \A e \in Editor : WF_cacheVars(EditorSteps(e))

CacheSpec == CacheInit /\ [][CacheNext]_cacheVars /\ CacheFairness
-----------------------------------------------------------------------------
(* Properties *)

(* Documents and both levels of cache are in their types.                  *)
CacheTypeOK ==
  /\ content \in [Docs -> Version] /\ writes \in 0 .. MaxWrites
  /\ DOMAIN kept \cup late \subseteq KeysOf(family)
  /\ \A key \in DOMAIN kept : kept[key].of \in [DOMAIN kept[key].of -> Version]
  /\ \A r \in Reader : reader[r].at \in {"idle", "asking", "reading", "keeping"}
  /\ \A e \in Editor : editor[e].at \in {"idle", "deleting", "listed", "restoring"}

Stale(key) == \E d \in DOMAIN kept[key].of : kept[key].of[d] # content[d]
Due(key) == \E e \in Editor : editor[e].at = "restoring" \/ \E i \in DOMAIN editor[e].todo : key \in editor[e].todo[i]

(* Of the keys that writes delete, one is out of date only while the       *)
(* delete is still to come, or when a write overtook the reader that       *)
(* filled it, or it was filled between the listing of a pattern's keys and *)
(* their delete, or a delete failed: two levels of cache hide no other way.*)
StaleOnlyWhenOvertaken ==
  \A key \in DOMAIN kept \ {OgPage.key} : Stale(key) => Due(key) \/ key \in late

(* What is kept under a page's key is what its route answers, and is       *)
(* wrapped as it wraps: navigation is kept by its service and by its route *)
(* under one key.                                                          *)
PageWrappedOnce ==
  \A p \in family.pages : p.key \in DOMAIN kept => kept[p.key].wraps = p.wraps

(* However a key came to be out of date, it is not for ever: when the      *)
(* edits end every page becomes current and stays so, and a key that lapses*)
(* is not filled again from one that is out of date.                       *)
PagesCatchUp == <>[](\A key \in DOMAIN kept : ~Stale(key))
=============================================================================
