------------------------------ MODULE Manifest ------------------------------
(***************************************************************************)
(* sources.toml: which entries are accepted, and which together.           *)
(*   wikipethia/src/manifest.rs                                            *)
(* An entry is a record: id, url, host (of the url), kind; given, the      *)
(* repo-only fields that are present; sound, the fields that have the form *)
(* validate asks for; tracks, branch = "default"; atHead, a doc_url with   *)
(* /blob/HEAD/.                                                            *)
(***************************************************************************)
EXTENDS Naturals, Sequences

Kinds == {"discourse", "repo", "feed"}
RepoFields == {"branch", "paths", "doc_url", "file_types"}

(* Kinds that crawl their host: a repository makes a few requests. *)
Crawls(source) == source.kind \in {"discourse", "feed"}

(* validate: what every entry needs, what a repository needs (file_types   *)
(* has a default), and what only a repository may have.                    *)
Valid(source) ==
  /\ {"id", "url", "tier"} \subseteq source.sound
  /\ source.kind = "repo" =>
       /\ {"branch", "paths", "doc_url"} \subseteq source.given
       /\ source.given \subseteq source.sound
       /\ source.tracks => source.atHead
  /\ source.kind # "repo" => source.given = {}

(* Mutant: sources may share a host.                                       *)
Compatible_AnyHost(a, b) == a.id # b.id /\ a.url # b.url

Compatible(a, b) ==
  /\ a.id # b.id /\ a.url # b.url
  /\ Crawls(a) /\ Crawls(b) => a.host # b.host

(* Manifest::parse accepts a file or refuses all of it. *)
Parses(entries) ==
  /\ entries # <<>>
  /\ \A i \in 1 .. Len(entries) : Valid(entries[i])
  /\ \A i, j \in 1 .. Len(entries) : i < j => Compatible(entries[i], entries[j])

(* All sources, in their order, or the one that is named, which must exist. *)
All == "all"
Named(entries, id) == CHOOSE i \in 1 .. Len(entries) : entries[i].id = id
Select(entries, id) ==
  IF id = All THEN entries ELSE <<entries[Named(entries, id)]>>
=============================================================================
