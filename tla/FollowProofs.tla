---------------------------- MODULE FollowProofs ----------------------------
(***************************************************************************)
(* Proof that the cluster follows the source in Bundle: after a run of the *)
(* provider that went well, each manifest of the source stands in the      *)
(* cluster as its templates mean it, whatever the order of the walk, and   *)
(* what was removed from the source is gone.                               *)
(***************************************************************************)
EXTENDS BundleProofs

\* No source has two manifests of one object: the one that is applied last
\* would stand, and either may be.
OneManifestPerObject ==
    \A src \in Sources :
        \A p, q \in {r \in Places(src, {"yaml"}) :
                        IsManifest(src[r[1]].docs[r[2]])} :
            ObjectNamed(src[p[1]].docs[p[2]]) = ObjectNamed(src[q[1]].docs[q[2]])
                => p = q

\* Each file of the directory is one of the source as it was fetched, or what
\* a template of the source is meant to become; none is lost.
HoldsInv ==
    tool = "provider" /\ phase # "idle" =>
        /\ source \in Sources
        /\ \A g \in DOMAIN dir \cap DOMAIN source : dir[g] = Fetched(source)[g]
        /\ \A g \in DOMAIN dir \ DOMAIN source :
               \E h \in DOMAIN source \ DOMAIN dir :
                   /\ h.tpl /\ g = Output(h)
                   /\ dir[g] = [docs |-> source[h].docs, reads |-> {},
                                holds |-> Meant(source, h)]
        /\ \A h \in DOMAIN source \ DOMAIN dir : h.tpl /\ Output(h) \in DOMAIN dir

\* The cluster has objects of kinds that discovery lists.
ListedInv == \A o \in DOMAIN cluster : ResourceOf(<<o.kind>>) # {}

\* An id of the state that is neither still to be deleted nor in the new
\* bundle has no object, unless the new bundle has put one there.
GoneInv ==
    tool = "provider" /\ phase \in {"delete", "apply"} =>
        \A id \in DOMAIN saved \ (doomed \cup DOMAIN Resources(manifests)) :
            ObjectNamed(saved[id].doc) \in DOMAIN cluster =>
                \E i \in DOMAIN manifests :
                    ObjectNamed(manifests[i].doc) = ObjectNamed(saved[id].doc)

\* What has been applied without trouble stands in the cluster.
StandsInv ==
    tool = "provider" /\ phase = "apply" /\ ~trouble =>
        \A i \in DOMAIN manifests \ todo :
            /\ ObjectNamed(manifests[i].doc) \in DOMAIN cluster
            /\ cluster[ObjectNamed(manifests[i].doc)] = manifests[i]

FollowInv == HoldsInv /\ ListedInv /\ GoneInv /\ StandsInv

-----------------------------------------------------------------------------
(* What a file is meant to hold.                                           *)

\* What a file reads is reached, with all that those files reach.
LEMMA ReachedIsClosed ==
    ASSUME NEW src, NEW f \in DOMAIN src
    PROVE  /\ f \in Reached(src, f)
           /\ Reached(src, f) \subseteq DOMAIN src
           /\ \A h \in Reached(src, f) : FilesRead(src, h) \subseteq Reached(src, f)
<1> DEFINE Closed(S) == \A h \in S : FilesRead(src, h) \subseteq S
           R == Reached(src, f)
<1>1. \A g : g \in R <=> /\ g \in DOMAIN src
                         /\ \A S \in SUBSET DOMAIN src :
                                (f \in S /\ Closed(S)) => g \in S
  BY DEF Reached
<1>2. \A h : FilesRead(src, h) \subseteq DOMAIN src
  BY DEF FilesRead
<1> HIDE DEF R
<1>3. ASSUME NEW h \in R, NEW g \in FilesRead(src, h) PROVE g \in R
  <2>1. g \in DOMAIN src
    BY <1>2
  <2>2. ASSUME NEW S \in SUBSET DOMAIN src, f \in S, Closed(S) PROVE g \in S
    <3>1. h \in S
      BY <1>1, <2>2
    <3> QED
      BY <2>2, <3>1
  <2> QED
    BY <1>1, <2>1, <2>2
<1> HIDE DEF Closed
<1>4. f \in R /\ R \subseteq DOMAIN src
  BY <1>1
<1> QED
  BY <1>3, <1>4 DEF R

\* It is the least such set.
LEMMA ReachedIsLeast ==
    ASSUME NEW src, NEW f, NEW S \in SUBSET DOMAIN src, f \in S,
           \A h \in S : FilesRead(src, h) \subseteq S
    PROVE  Reached(src, f) \subseteq S
BY DEF Reached

\* A file reaches itself and what the files it reads reach.
LEMMA ReachedByReading ==
    ASSUME NEW src, NEW f \in DOMAIN src
    PROVE  Reached(src, f) =
               {f} \cup UNION {Reached(src, h) : h \in FilesRead(src, f) \ {f}}
<1> DEFINE More == FilesRead(src, f) \ {f}
           X == {f} \cup UNION {Reached(src, h) : h \in More}
<1>1. More \subseteq DOMAIN src
  BY DEF FilesRead
<1> HIDE DEF More
<1>2. X \in SUBSET DOMAIN src /\ f \in X
  BY <1>1, ReachedIsClosed
<1>3. ASSUME NEW h \in X PROVE FilesRead(src, h) \subseteq X
  <2>1. CASE h = f
    <3>1. ASSUME NEW g \in FilesRead(src, f), g # f PROVE g \in X
      <4>1. g \in More
        BY <3>1 DEF More
      <4>2. g \in Reached(src, g)
        BY <1>1, <4>1, ReachedIsClosed
      <4> QED
        BY <4>1, <4>2
    <3> QED
      BY <2>1, <3>1
  <2>2. CASE h # f
    <3>1. PICK g \in More : h \in Reached(src, g)
      BY <2>2
    <3>2. FilesRead(src, h) \subseteq Reached(src, g)
      BY <1>1, <3>1, ReachedIsClosed
    <3> QED
      BY <3>1, <3>2
  <2> QED
    BY <2>1, <2>2
<1>4. Reached(src, f) \subseteq X
  <2> HIDE DEF X
  <2> QED
    BY <1>2, <1>3, ReachedIsLeast
<1>5. X \subseteq Reached(src, f)
  <2>1. More \subseteq Reached(src, f)
    BY ReachedIsClosed DEF More
  <2>2. ASSUME NEW h \in More PROVE Reached(src, h) \subseteq Reached(src, f)
    <3> DEFINE S == Reached(src, f)
    <3>1. /\ S \in SUBSET DOMAIN src /\ h \in S
          /\ \A g \in S : FilesRead(src, g) \subseteq S
      BY <2>1, ReachedIsClosed
    <3> HIDE DEF S
    <3>2. Reached(src, h) \subseteq S
      BY <3>1, ReachedIsLeast
    <3> QED
      BY <3>2 DEF S
  <2>3. f \in Reached(src, f)
    BY ReachedIsClosed
  <2> QED
    BY <2>2, <2>3
<1> QED
  BY <1>4, <1>5 DEF More

\* So a file is meant to hold its own text and all that the files which it
\* reads are meant to hold.
LEMMA MeantByReading ==
    ASSUME NEW src, NEW f \in DOMAIN src
    PROVE  Meant(src, f) =
               {src[f].text} \cup
                   UNION {Meant(src, h) : h \in FilesRead(src, f) \ {f}}
<1> DEFINE More == FilesRead(src, f) \ {f}
<1>1. Reached(src, f) = {f} \cup UNION {Reached(src, h) : h \in More}
  BY ReachedByReading
<1>2. Meant(src, f) = {src[g].text : g \in Reached(src, f)}
  BY DEF Meant
<1>3. \A h \in More : Meant(src, h) = {src[g].text : g \in Reached(src, h)}
  BY DEF Meant
<1> HIDE DEF More
<1>4. {src[g].text : g \in Reached(src, f)} =
          {src[f].text} \cup UNION {{src[g].text : g \in Reached(src, h)} : h \in More}
  BY <1>1
<1>5. UNION {{src[g].text : g \in Reached(src, h)} : h \in More} =
          UNION {Meant(src, h) : h \in More}
  BY <1>3
<1> QED
  BY <1>2, <1>4, <1>5 DEF More

\* A file that reads none holds its own text.
LEMMA MeantAlone ==
    ASSUME NEW src, NEW f \in DOMAIN src, src[f].reads = {}
    PROVE  Meant(src, f) = {src[f].text}
<1>1. FilesRead(src, f) = {}
  BY DEF FilesRead
<1> QED
  BY <1>1, MeantByReading

-----------------------------------------------------------------------------
(* The walk makes of each file what it is meant to be.                     *)

\* The name that a template expands to is no other's, nor is it the template's
\* own, and it leads back to the template.
LEMMA OutputsApart ==
    ASSUME NEW src \in Sources, NEW h \in DOMAIN src, h.tpl
    PROVE  /\ Output(h) \notin DOMAIN src
           /\ Resolve(src, Output(h)) = h
           /\ \A g \in DOMAIN src : Output(g) = Output(h) => g = h
<1>1. \A f, g \in DOMAIN src : Output(f) = Output(g) => f = g
  BY SourceAssumption
<1>2. h \in FileNames
  BY SourceFiles
<1>3. /\ Output(h) \in FileNames /\ ~Output(h).tpl
      /\ Output(Output(h)) = Output(h)
      /\ [Output(h) EXCEPT !.tpl = TRUE] = h
  BY <1>2 DEF Output, FileNames
<1>4. Output(h) \notin DOMAIN src
  BY <1>1, <1>3
<1> QED
  BY <1>1, <1>3, <1>4 DEF Resolve

\* A run begins with the files as they were fetched.
LEMMA HoldsStart ==
    ASSUME StartProvider \/ StartKaexpand
    PROVE  HoldsInv'
<1>1. CASE StartProvider
  <2>1. PICK src \in Sources : source' = src /\ dir' = Fetched(src)
    BY <1>1 DEF StartProvider, Begins
  <2>2. DOMAIN Fetched(src) = DOMAIN src
    BY DEF Fetched
  <2>3. Fetched(source)' = Fetched(src)
    BY <2>1 DEF Fetched
  <2> QED
    BY <2>1, <2>2, <2>3 DEF HoldsInv
<1>2. CASE StartKaexpand
  <2>1. tool' = "kaexpand"
    BY <1>2 DEF StartKaexpand, Begins
  <2> QED
    BY <2>1 DEF HoldsInv
<1> QED
  BY <1>1, <1>2

\* A template that is expanded becomes what it is meant to be: what it
\* includes is still as it was fetched, or has become what it is meant to be.
LEMMA RenderedAsMeant ==
    ASSUME HoldsInv, tool = "provider", phase # "idle",
           NEW f \in DOMAIN dir, f.tpl, f \in FileNames,
           Includes(Put(Output(f), Created, dir), f)
    PROVE  /\ f \in DOMAIN source
           /\ Rendered(Put(Output(f), Created, dir), f) =
                  [docs |-> source[f].docs, reads |-> {},
                   holds |-> Meant(source, f)]
<1> DEFINE out == Output(f)
           opened == Put(out, Created, dir)
           More == FilesRead(source, f) \ {f}
<1>1. source \in Sources
  BY DEF HoldsInv
<1>2. /\ \A g \in DOMAIN dir \cap DOMAIN source : dir[g] = Fetched(source)[g]
      /\ \A g \in DOMAIN dir \ DOMAIN source :
             \E h \in DOMAIN source \ DOMAIN dir :
                 /\ h.tpl /\ g = Output(h)
                 /\ dir[g] = [docs |-> source[h].docs, reads |-> {},
                              holds |-> Meant(source, h)]
  BY DEF HoldsInv
<1>3. \A g \in DOMAIN source :
          /\ Fetched(source)[g].docs = source[g].docs
          /\ Fetched(source)[g].reads = source[g].reads
          /\ Fetched(source)[g].holds = {source[g].text}
  BY DEF Fetched
<1>4. f \in DOMAIN source
  <2> SUFFICES ASSUME f \notin DOMAIN source PROVE FALSE
    OBVIOUS
  <2>1. PICK h \in DOMAIN source \ DOMAIN dir : f = Output(h)
    BY <1>2
  <2>2. h \in FileNames
    BY <1>1, SourceFiles
  <2> QED
    BY <2>1, <2>2, OutputIsPlain
<1>5. /\ dir[f].docs = source[f].docs
      /\ dir[f].reads = source[f].reads
      /\ dir[f].holds = {source[f].text}
  BY <1>2, <1>3, <1>4
<1>6. /\ out \notin DOMAIN source
      /\ Resolve(source, out) = f
      /\ out # f
  BY <1>1, <1>4, OutputsApart
<1> HIDE DEF out
<1>7. /\ DOMAIN opened = DOMAIN dir \cup {out}
      /\ opened[out] = Created
      /\ \A g \in DOMAIN dir \ {out} : opened[g] = dir[g]
  BY DEF Put, Over
<1>8. \A g \in dir[f].reads : g \in DOMAIN opened /\ opened[g].reads = {}
  <2>1. Includes(opened, f)
    BY DEF out
  <2> HIDE DEF opened
  <2>2. opened[f] = dir[f]
    BY <1>6, <1>7
  <2> QED
    BY <2>1, <2>2 DEF Includes
<1>9. Rendered(opened, f) =
          [docs |-> source[f].docs, reads |-> {},
           holds |-> {source[f].text} \cup
                         UNION {opened[g].holds : g \in source[f].reads}]
  <2> HIDE DEF opened
  <2>1. opened[f] = dir[f]
    BY <1>6, <1>7
  <2> QED
    BY <1>5, <2>1 DEF Rendered
<1> HIDE DEF opened
<1>10. ASSUME NEW g \in source[f].reads, g # out
       PROVE  /\ Resolve(source, g) \in DOMAIN source
              /\ opened[g].holds = Meant(source, Resolve(source, g))
  <2>1. g \in DOMAIN dir /\ opened[g] = dir[g] /\ dir[g].reads = {}
    BY <1>5, <1>7, <1>8, <1>10
  <2>2. CASE g \in DOMAIN source
    <3>1. Resolve(source, g) = g
      BY <2>2 DEF Resolve
    <3>2. source[g].reads = {} /\ dir[g].holds = {source[g].text}
      BY <1>2, <1>3, <2>1, <2>2
    <3>3. Meant(source, g) = {source[g].text}
      BY <2>2, <3>2, MeantAlone
    <3> QED
      BY <2>1, <2>2, <3>1, <3>2, <3>3
  <2>3. CASE g \notin DOMAIN source
    <3>1. PICK h \in DOMAIN source \ DOMAIN dir :
              /\ h.tpl /\ g = Output(h)
              /\ dir[g] = [docs |-> source[h].docs, reads |-> {},
                           holds |-> Meant(source, h)]
      BY <1>2, <2>1, <2>3
    <3>2. Resolve(source, g) = h
      BY <1>1, <3>1, OutputsApart
    <3>3. dir[g].holds = Meant(source, h)
      BY <3>1
    <3> QED
      BY <2>1, <3>1, <3>2, <3>3
  <2> QED
    BY <2>2, <2>3
<1>11. opened[out].holds = {}
  BY <1>7 DEF Created
<1>12. UNION {opened[g].holds : g \in source[f].reads} \subseteq Meant(source, f)
  <2> SUFFICES ASSUME NEW g \in source[f].reads
               PROVE  opened[g].holds \subseteq Meant(source, f)
    OBVIOUS
  <2>1. CASE g = out
    BY <1>11, <2>1
  <2>2. CASE g # out
    <3>1. /\ Resolve(source, g) \in FilesRead(source, f)
          /\ opened[g].holds = Meant(source, Resolve(source, g))
      BY <1>10, <2>2 DEF FilesRead
    <3>2. Meant(source, f) =
              {source[f].text} \cup UNION {Meant(source, h) : h \in More}
      BY <1>4, MeantByReading
    <3>3. CASE Resolve(source, g) = f
      BY <3>1, <3>3
    <3>4. CASE Resolve(source, g) # f
      BY <3>1, <3>2, <3>4
    <3> QED
      BY <3>3, <3>4
  <2> QED
    BY <2>1, <2>2
<1>13. UNION {Meant(source, h) : h \in More}
           \subseteq UNION {opened[g].holds : g \in source[f].reads}
  <2> SUFFICES ASSUME NEW h \in More
               PROVE  \E g \in source[f].reads : opened[g].holds = Meant(source, h)
    OBVIOUS
  <2>1. PICK g \in source[f].reads : h = Resolve(source, g)
    BY DEF FilesRead
  <2>2. g # out
    BY <1>6, <2>1
  <2> QED
    BY <1>10, <2>1, <2>2
<1>14. {source[f].text} \cup UNION {opened[g].holds : g \in source[f].reads}
           = Meant(source, f)
  <2>1. Meant(source, f) =
            {source[f].text} \cup UNION {Meant(source, h) : h \in More}
    BY <1>4, MeantByReading
  <2> HIDE DEF More
  <2> QED
    BY <1>12, <1>13, <2>1
<1> QED
  BY <1>4, <1>9, <1>14 DEF opened, out

\* The walk comes to one template.
LEMMA HoldsExpandOne ==
    ASSUME BundleInv, HoldsInv, ExpandOne
    PROVE  HoldsInv'
<1> SUFFICES ASSUME tool' = "provider", phase' # "idle" PROVE HoldsInv'
  BY DEF HoldsInv
<1> DEFINE f == Head(queue)
           out == Output(f)
           opened == Put(out, Created, dir)
           file == Rendered(opened, f)
           written == Put(out, file, dir)
<1>1. /\ phase = "walk" /\ queue # <<>> /\ tool' = tool /\ source' = source
      /\ Includes(opened, f)
      /\ dir' = Restrict(written, DOMAIN written \ {f})
  BY DEF ExpandOne
<1>2. /\ queue \in Seq(FileNames)
      /\ ToSet(queue) = {g \in DOMAIN dir : g.tpl}
  BY <1>1 DEF BundleInv, DirInv
<1>3. f \in FileNames /\ f \in DOMAIN dir /\ f.tpl
  <2>1. f = queue[1] /\ 1 \in DOMAIN queue
    BY <1>1, <1>2
  <2> QED
    BY <1>2, <2>1 DEF ToSet
<1> HIDE DEF f
<1>4. /\ f \in DOMAIN source
      /\ file = [docs |-> source[f].docs, reads |-> {},
                 holds |-> Meant(source, f)]
  BY <1>1, <1>3, RenderedAsMeant
<1> HIDE DEF file
<1>5. source \in Sources
  BY <1>1 DEF HoldsInv
<1>6. out \notin DOMAIN source /\ out # f
  BY <1>3, <1>4, <1>5, OutputsApart
<1> HIDE DEF out
<1>7. /\ DOMAIN written = DOMAIN dir \cup {out}
      /\ written[out] = file
      /\ \A g \in DOMAIN dir \ {out} : written[g] = dir[g]
  BY DEF Put, Over
<1> HIDE DEF written
<1>8. /\ DOMAIN dir' = (DOMAIN dir \cup {out}) \ {f}
      /\ dir'[out] = file
      /\ \A g \in DOMAIN dir \ {out, f} : dir'[g] = dir[g]
  BY <1>1, <1>6, <1>7 DEF Restrict
<1>9. /\ \A g \in DOMAIN dir \cap DOMAIN source : dir[g] = Fetched(source)[g]
      /\ \A g \in DOMAIN dir \ DOMAIN source :
             \E h \in DOMAIN source \ DOMAIN dir :
                 /\ h.tpl /\ g = Output(h)
                 /\ dir[g] = [docs |-> source[h].docs, reads |-> {},
                              holds |-> Meant(source, h)]
      /\ \A h \in DOMAIN source \ DOMAIN dir : h.tpl /\ Output(h) \in DOMAIN dir
  BY <1>1 DEF HoldsInv
<1>10. ASSUME NEW g \in DOMAIN dir' \cap DOMAIN source
       PROVE  dir'[g] = Fetched(source)[g]
  BY <1>6, <1>8, <1>9
<1>11. ASSUME NEW g \in DOMAIN dir' \ DOMAIN source
       PROVE  \E h \in DOMAIN source \ DOMAIN dir' :
                  /\ h.tpl /\ g = Output(h)
                  /\ dir'[g] = [docs |-> source[h].docs, reads |-> {},
                                holds |-> Meant(source, h)]
  <2>1. CASE g = out
    BY <1>3, <1>4, <1>8, <2>1 DEF out
  <2>2. CASE g # out
    <3>1. g \in DOMAIN dir \ DOMAIN source /\ dir'[g] = dir[g]
      BY <1>8, <2>2
    <3>2. PICK h \in DOMAIN source \ DOMAIN dir :
              /\ h.tpl /\ g = Output(h)
              /\ dir[g] = [docs |-> source[h].docs, reads |-> {},
                           holds |-> Meant(source, h)]
      BY <1>9, <3>1
    <3>3. h \notin DOMAIN dir'
      BY <1>6, <1>8, <3>2
    <3> QED
      BY <3>1, <3>2, <3>3
  <2> QED
    BY <2>1, <2>2
<1>12. ASSUME NEW h \in DOMAIN source \ DOMAIN dir'
       PROVE  h.tpl /\ Output(h) \in DOMAIN dir'
  <2>1. CASE h = f
    BY <1>3, <1>6, <1>8, <2>1 DEF out
  <2>2. CASE h # f
    <3>1. h \in DOMAIN source \ DOMAIN dir
      BY <1>8, <2>2
    <3>2. h.tpl /\ Output(h) \in DOMAIN dir
      BY <1>9, <3>1
    <3>3. Output(h) # f
      BY <1>4, <1>5, <3>1, <3>2, OutputsApart
    <3> QED
      BY <1>8, <3>2, <3>3
  <2> QED
    BY <2>1, <2>2
<1>13. Fetched(source)' = Fetched(source)
  BY <1>1
<1>14. ASSUME NEW h PROVE Meant(source, h)' = Meant(source, h)
  BY <1>1 DEF Meant, Reached, FilesRead, Resolve
<1>15. /\ source' \in Sources
       /\ \A g \in DOMAIN dir' \cap DOMAIN source' : dir'[g] = Fetched(source)'[g]
       /\ \A h \in DOMAIN source' \ DOMAIN dir' : h.tpl /\ Output(h) \in DOMAIN dir'
  BY <1>1, <1>5, <1>10, <1>12, <1>13
<1>16. \A g \in DOMAIN dir' \ DOMAIN source' :
           \E h \in DOMAIN source' \ DOMAIN dir' :
               /\ h.tpl /\ g = Output(h)
               /\ dir'[g] = [docs |-> source'[h].docs, reads |-> {},
                             holds |-> Meant(source, h)']
  BY <1>1, <1>11, <1>14
<1> QED
  BY <1>15, <1>16 DEF HoldsInv

-----------------------------------------------------------------------------
(* What is read is what the source means.                                  *)

\* Once the walk is over, each file of the source has become one of the
\* directory, with its own documents and the texts it is meant to hold.
LEMMA FilesAsMeant ==
    ASSUME BundleInv, HoldsInv, tool = "provider", phase \notin {"idle", "walk"}
    PROVE  /\ source \in Sources
           /\ \A h \in DOMAIN source :
                  /\ Output(h) \in DOMAIN dir
                  /\ dir[Output(h)].docs = source[h].docs
                  /\ dir[Output(h)].holds = Meant(source, h)
                  /\ Output(h).ext = h.ext
           /\ \A g \in DOMAIN dir : \E h \in DOMAIN source : g = Output(h)
<1>1. /\ source \in Sources
      /\ \A g \in DOMAIN dir \cap DOMAIN source : dir[g] = Fetched(source)[g]
      /\ \A g \in DOMAIN dir \ DOMAIN source :
             \E h \in DOMAIN source \ DOMAIN dir :
                 /\ h.tpl /\ g = Output(h)
                 /\ dir[g] = [docs |-> source[h].docs, reads |-> {},
                              holds |-> Meant(source, h)]
      /\ \A h \in DOMAIN source \ DOMAIN dir : h.tpl /\ Output(h) \in DOMAIN dir
  BY DEF HoldsInv
<1>2. \A f \in DOMAIN dir : ~f.tpl
  BY DEF BundleInv, DirInv
<1>3. DOMAIN source \subseteq FileNames
  BY <1>1, SourceFiles
<1>4. ASSUME NEW h \in DOMAIN source, h \in DOMAIN dir
      PROVE  /\ Output(h) = h
             /\ dir[h].docs = source[h].docs
             /\ dir[h].holds = Meant(source, h)
  <2>1. ~h.tpl /\ h \in FileNames
    BY <1>2, <1>3, <1>4
  <2>2. Output(h) = h
    BY <2>1 DEF Output, FileNames
  <2>3. source[h].reads = {}
    BY <1>1, <1>4, <2>1, SourceAssumption
  <2>4. Meant(source, h) = {source[h].text}
    BY <1>4, <2>3, MeantAlone
  <2>5. dir[h].docs = source[h].docs /\ dir[h].holds = {source[h].text}
    BY <1>1, <1>4 DEF Fetched
  <2> QED
    BY <2>2, <2>4, <2>5
<1>5. ASSUME NEW h \in DOMAIN source, h \notin DOMAIN dir
      PROVE  /\ Output(h) \in DOMAIN dir
             /\ dir[Output(h)].docs = source[h].docs
             /\ dir[Output(h)].holds = Meant(source, h)
  <2>1. h.tpl /\ Output(h) \in DOMAIN dir
    BY <1>1, <1>5
  <2>2. Output(h) \notin DOMAIN source
    BY <1>1, <1>5, <2>1, OutputsApart
  <2>3. PICK k \in DOMAIN source :
            /\ k.tpl /\ Output(h) = Output(k)
            /\ dir[Output(h)] = [docs |-> source[k].docs, reads |-> {},
                                 holds |-> Meant(source, k)]
    BY <1>1, <2>1, <2>2
  <2>4. k = h
    BY <1>1, <1>5, <2>1, <2>3, OutputsApart
  <2> QED
    BY <2>1, <2>3, <2>4
<1>6. \A h \in DOMAIN source : Output(h).ext = h.ext
  BY <1>3, OutputIsPlain
<1>7. \A g \in DOMAIN dir : \E h \in DOMAIN source : g = Output(h)
  BY <1>1, <1>4
<1> QED
  BY <1>1, <1>4, <1>5, <1>6, <1>7

\* A manifest of the directory is one of a .yaml file of the source.
LEMMA PlaceInSource ==
    ASSUME BundleInv, HoldsInv, tool = "provider", phase \notin {"idle", "walk"},
           NEW p \in ManifestPlaces(dir)
    PROVE  \E h \in DOMAIN source :
               /\ p = <<Output(h), p[2]>> /\ h.ext = "yaml"
               /\ p[2] \in DOMAIN source[h].docs
               /\ IsManifest(source[h].docs[p[2]])
               /\ <<h, p[2]>> \in Places(source, {"yaml"})
               /\ DocumentAt(dir, p) = [doc |-> source[h].docs[p[2]],
                                        holds |-> Meant(source, h)]
<1>1. IsDir(dir, FromDocs, FromTexts)
  BY DEF BundleInv, DirInv
<1>2. /\ p \in FileNames \X Nat
      /\ p[1] \in DOMAIN dir
      /\ p[2] \in DOMAIN dir[p[1]].docs
      /\ p[1].ext = "yaml"
      /\ IsManifest(DocumentAt(dir, p).doc)
  BY <1>1, ManifestPlacesAreFinite
<1>3. PICK h \in DOMAIN source : p[1] = Output(h)
  BY <1>2, FilesAsMeant
<1>4. /\ dir[p[1]].docs = source[h].docs
      /\ dir[p[1]].holds = Meant(source, h)
      /\ p[1].ext = h.ext
  BY <1>3, FilesAsMeant
<1>5. DocumentAt(dir, p) = [doc |-> source[h].docs[p[2]], holds |-> Meant(source, h)]
  BY <1>4 DEF DocumentAt
<1>6. <<h, p[2]>> \in Places(source, {"yaml"})
  BY <1>2, <1>4 DEF Places
<1>7. p = <<Output(h), p[2]>>
  BY <1>2, <1>3
<1>8. IsManifest(source[h].docs[p[2]])
  BY <1>2, <1>5
<1> QED
  BY <1>2, <1>4, <1>5, <1>6, <1>7, <1>8

\* GetManifests returns the manifests that the source means.
LEMMA ManifestsAsMeant ==
    ASSUME BundleInv, HoldsInv, tool = "provider", phase \notin {"idle", "walk"}
    PROVE  {manifests[i] : i \in DOMAIN manifests} = MeantManifests(source)
<1>1. manifests = GetManifests(dir) /\ IsDir(dir, FromDocs, FromTexts)
  BY DEF BundleInv, DirInv
<1>2. {manifests[i] : i \in DOMAIN manifests} =
          {DocumentAt(dir, p) : p \in ManifestPlaces(dir)}
  <2>1. ToSet(GetManifests(dir)) =
            {DocumentAt(dir, p) : p \in ManifestPlaces(dir)}
    BY <1>1, ManifestsAreRead DEF ToSet
  <2>2. {manifests[i] : i \in DOMAIN manifests} = ToSet(GetManifests(dir))
    BY <1>1 DEF ToSet
  <2> QED
    BY <2>1, <2>2
<1>3. ASSUME NEW p \in ManifestPlaces(dir)
      PROVE  DocumentAt(dir, p) \in MeantManifests(source)
  <2>1. PICK h \in DOMAIN source :
            /\ h.ext = "yaml"
            /\ p[2] \in DOMAIN source[h].docs
            /\ IsManifest(source[h].docs[p[2]])
            /\ DocumentAt(dir, p) = [doc |-> source[h].docs[p[2]],
                                     holds |-> Meant(source, h)]
    BY PlaceInSource
  <2>2. source[h].docs[p[2]] \in {e \in ToSet(source[h].docs) : IsManifest(e)}
    BY <2>1 DEF ToSet
  <2> QED
    BY <2>1, <2>2 DEF MeantManifests
<1>4. ASSUME NEW m \in MeantManifests(source)
      PROVE  \E p \in ManifestPlaces(dir) : m = DocumentAt(dir, p)
  <2> DEFINE Of(h) == {e \in ToSet(source[h].docs) : IsManifest(e)}
  <2>0. PICK h \in {g \in DOMAIN source : g.ext = "yaml"} :
            m \in {[doc |-> d, holds |-> Meant(source, h)] : d \in Of(h)}
    BY DEF MeantManifests
  <2>1. PICK d \in ToSet(source[h].docs) :
            /\ h \in DOMAIN source /\ h.ext = "yaml" /\ IsManifest(d)
            /\ m = [doc |-> d, holds |-> Meant(source, h)]
    BY <2>0
  <2>2. PICK i \in DOMAIN source[h].docs : d = source[h].docs[i]
    BY DEF ToSet
  <2>3. /\ Output(h) \in DOMAIN dir
        /\ dir[Output(h)].docs = source[h].docs
        /\ dir[Output(h)].holds = Meant(source, h)
        /\ Output(h).ext = "yaml"
    BY <2>1, FilesAsMeant
  <2> DEFINE p == <<Output(h), i>>
  <2>4. DocumentAt(dir, p) = m
    BY <2>1, <2>2, <2>3 DEF DocumentAt
  <2>5. p \in Places(dir, {"yaml"})
    BY <2>2, <2>3 DEF Places
  <2>6. DocumentAt(dir, p).doc = d
    BY <2>1, <2>4
  <2>7. p \in ManifestPlaces(dir)
    BY <2>1, <2>5, <2>6 DEF ManifestPlaces
  <2> QED
    BY <2>4, <2>7
<1> QED
  BY <1>2, <1>3, <1>4

\* No two of them are of one object.
LEMMA ManifestsApart ==
    ASSUME OneManifestPerObject, BundleInv, HoldsInv, tool = "provider",
           phase \notin {"idle", "walk"},
           NEW i \in DOMAIN manifests, NEW j \in DOMAIN manifests,
           ObjectNamed(manifests[i].doc) = ObjectNamed(manifests[j].doc)
    PROVE  i = j
<1>1. manifests = GetManifests(dir) /\ IsDir(dir, FromDocs, FromTexts)
  BY DEF BundleInv, DirInv
<1>2. PICK walk \in Seq(ManifestPlaces(dir)) :
          /\ Distinct(walk)
          /\ manifests = [k \in DOMAIN walk |-> DocumentAt(dir, walk[k])]
  BY <1>1, ManifestsWalk
<1>3. /\ i \in DOMAIN walk /\ manifests[i] = DocumentAt(dir, walk[i])
      /\ j \in DOMAIN walk /\ manifests[j] = DocumentAt(dir, walk[j])
  BY <1>2
<1> DEFINE p == walk[i]
           q == walk[j]
<1>4. p \in ManifestPlaces(dir) /\ q \in ManifestPlaces(dir)
  BY <1>2, <1>3
<1> HIDE DEF p, q
<1>5. PICK g \in DOMAIN source :
          /\ p = <<Output(g), p[2]>>
          /\ IsManifest(source[g].docs[p[2]])
          /\ <<g, p[2]>> \in Places(source, {"yaml"})
          /\ DocumentAt(dir, p) = [doc |-> source[g].docs[p[2]],
                                   holds |-> Meant(source, g)]
  BY <1>4, PlaceInSource
<1>6. PICK h \in DOMAIN source :
          /\ q = <<Output(h), q[2]>>
          /\ IsManifest(source[h].docs[q[2]])
          /\ <<h, q[2]>> \in Places(source, {"yaml"})
          /\ DocumentAt(dir, q) = [doc |-> source[h].docs[q[2]],
                                   holds |-> Meant(source, h)]
  BY <1>4, PlaceInSource
<1>7. ObjectNamed(source[g].docs[p[2]]) = ObjectNamed(source[h].docs[q[2]])
  BY <1>3, <1>5, <1>6 DEF p, q
<1>8. source \in Sources
  BY FilesAsMeant
<1>9. <<g, p[2]>> = <<h, q[2]>>
  <2> DEFINE Of == {r \in Places(source, {"yaml"}) :
                       IsManifest(source[r[1]].docs[r[2]])}
  <2>1. <<g, p[2]>> \in Of /\ <<h, q[2]>> \in Of
    BY <1>5, <1>6
  <2> QED
    BY <1>7, <1>8, <2>1 DEF OneManifestPerObject
<1>10. p = q
  BY <1>5, <1>6, <1>9
<1> QED
  BY <1>2, <1>3, <1>10 DEF Distinct, p, q

-----------------------------------------------------------------------------
(* What is in the cluster.                                                 *)

\* What is asked of the sources: manifests that Kubernetes takes, one of an
\* object, and of discovery: that it tells resources apart.
Assumed(A) ==
    /\ ApiResources \in Seq(A) /\ OneResource
    /\ SourcesAreWellFormed /\ OneManifestPerObject

\* Objects of kinds that are not listed do not come to stand.
LEMMA ListedStep ==
    ASSUME ListedInv, [Next]_vars
    PROVE  ListedInv'
<1>1. CASE ApplyOne
  <2>1. PICK i \in todo :
            \/ /\ IsListed(manifests[i].doc)
               /\ cluster' = Put(ObjectNamed(manifests[i].doc), manifests[i], cluster)
            \/ cluster' = cluster
    BY <1>1 DEF ApplyOne
  <2> DEFINE o == ObjectNamed(manifests[i].doc)
  <2>2. CASE /\ IsListed(manifests[i].doc)
             /\ cluster' = Put(o, manifests[i], cluster)
    <3>1. o.kind = manifests[i].doc.kind
      BY DEF ObjectNamed
    <3>2. ResourceOf(<<o.kind>>) # {}
      BY <2>2, <3>1 DEF IsListed
    <3> HIDE DEF o
    <3>3. DOMAIN cluster' = DOMAIN cluster \cup {o}
      BY <2>2, PutValues
    <3> QED
      BY <3>2, <3>3 DEF ListedInv
  <2> QED
    BY <2>1, <2>2 DEF ListedInv
<1>2. CASE DeleteOne
  <2>1. DOMAIN cluster' \subseteq DOMAIN cluster
    BY <1>2 DEF DeleteOne, Restrict
  <2> QED
    BY <2>1 DEF ListedInv
<1>3. CASE ~ApplyOne /\ ~DeleteOne
  <2>1. cluster' = cluster
    BY <1>3 DEF Next, StartProvider, StartKaexpand, Begins, ExpandOne, Expanded,
                Diff, Refuse, Confirm, Update, Deleted, Save, Return, vars
  <2> QED
    BY <2>1 DEF ListedInv
<1> QED
  BY <1>1, <1>2, <1>3

\* Once an id has been deleted, and kubectl has not turned the request down,
\* the object of its manifest is not in the cluster.
LEMMA DeletedIsGone ==
    ASSUME NEW A, Assumed(A), BundleInv, ListedInv, NEW id \in doomed,
           \A r \in Request(id) : ~Refused(r)
    PROVE  ObjectNamed(saved[id].doc) \notin
               DOMAIN cluster \ {ObjectAsked(r) : r \in Request(id)}
<1> DEFINE d == saved[id].doc
<1>1. ManifestId(d) = id /\ WellFormed(d) /\ OneGroup(d)
  BY DEF BundleInv, SavedInv, Assumed, SourcesAreWellFormed
<1> HIDE DEF d
<1>2. CASE Request(id) = {}
  <2>1. IdComponents(id).kind = <<d.kind>>
    BY <1>1, IdsReadBack
  <2>2. ResourceOf(<<d.kind>>) = {}
    BY <1>2, <2>1 DEF Request
  <2>3. ObjectNamed(d).kind = d.kind
    BY DEF ObjectNamed
  <2>4. ObjectNamed(d) \notin DOMAIN cluster
    BY <2>2, <2>3 DEF ListedInv
  <2> QED
    BY <2>4 DEF d
<1>3. CASE Request(id) # {}
  <2>1. PICK r \in Request(id) : ~Refused(r)
    BY <1>3
  <2>2. r \in Request(ManifestId(d))
    BY <1>1, <2>1
  <2>3. ObjectAsked(r) = ObjectNamed(d)
    BY <1>1, <2>1, <2>2, RequestsReachTheirObject DEF Assumed
  <2> QED
    BY <2>1, <2>3 DEF d
<1> QED
  BY <1>2, <1>3

\* What is removed from the bundle goes.
LEMMA GoneStep ==
    ASSUME NEW A, Assumed(A), BundleInv, ListedInv, GoneInv, [Next]_vars
    PROVE  GoneInv'
<1> SUFFICES ASSUME tool' = "provider", phase' \in {"delete", "apply"} PROVE GoneInv'
  BY DEF GoneInv
<1> DEFINE Gone(id) == ObjectNamed(saved[id].doc)
           InBundle(o) == \E i \in DOMAIN manifests : ObjectNamed(manifests[i].doc) = o
<1>1. CASE Update
  <2>1. /\ saved' = saved /\ manifests' = manifests
        /\ doomed' = DOMAIN saved \ DOMAIN Resources(manifests)
    BY <1>1 DEF Update
  <2>2. Resources(manifests)' = Resources(manifests)
    BY <2>1
  <2> QED
    BY <2>1, <2>2 DEF GoneInv
<1>2. CASE DeleteOne
  <2>1. PICK id \in doomed :
            /\ \A r \in Request(id) : ~Refused(r)
            /\ doomed' = doomed \ {id}
            /\ cluster' = Restrict(cluster, DOMAIN cluster \
                              {ObjectAsked(r) : r \in Request(id)})
    BY <1>2 DEF DeleteOne
  <2>2. /\ phase = "delete" /\ tool' = tool /\ saved' = saved
        /\ manifests' = manifests
    BY <1>2 DEF DeleteOne
  <2>3. DOMAIN cluster' = DOMAIN cluster \ {ObjectAsked(r) : r \in Request(id)}
    BY <2>1 DEF Restrict
  <2>4. ObjectNamed(saved[id].doc) \notin DOMAIN cluster'
    BY <2>1, <2>3, DeletedIsGone
  <2>5. \A i \in DOMAIN saved \ (doomed \cup DOMAIN Resources(manifests)) :
            Gone(i) \in DOMAIN cluster => InBundle(Gone(i))
    BY <2>2 DEF GoneInv
  <2>6. Resources(manifests)' = Resources(manifests)
    BY <2>2
  <2>7. ASSUME NEW i \in DOMAIN saved \ (doomed' \cup DOMAIN Resources(manifests)),
               Gone(i) \in DOMAIN cluster'
        PROVE  InBundle(Gone(i))
    <3>1. i # id
      BY <2>4, <2>7
    <3>2. Gone(i) \in DOMAIN cluster
      BY <2>3, <2>7
    <3> QED
      BY <2>1, <2>5, <2>7, <3>1, <3>2
  <2> QED
    BY <2>2, <2>6, <2>7 DEF GoneInv
<1>3. CASE ApplyOne
  <2>1. PICK i \in todo :
            \/ cluster' = Put(ObjectNamed(manifests[i].doc), manifests[i], cluster)
            \/ cluster' = cluster
    BY <1>3 DEF ApplyOne
  <2>2. /\ phase = "apply" /\ tool' = tool /\ saved' = saved
        /\ manifests' = manifests /\ doomed' = doomed
    BY <1>3 DEF ApplyOne, stateVars
  <2> DEFINE o == ObjectNamed(manifests[i].doc)
  <2>3. DOMAIN cluster' \subseteq DOMAIN cluster \cup {o}
    <3> HIDE DEF o
    <3>1. cluster' = Put(o, manifests[i], cluster) \/ cluster' = cluster
      BY <2>1 DEF o
    <3> QED
      BY <3>1, PutValues
  <2>4. i \in DOMAIN manifests
    BY DEF BundleInv, AppliedInv
  <2>5. \A j \in DOMAIN saved \ (doomed \cup DOMAIN Resources(manifests)) :
            Gone(j) \in DOMAIN cluster => InBundle(Gone(j))
    BY <2>2 DEF GoneInv
  <2>6. Resources(manifests)' = Resources(manifests)
    BY <2>2
  <2>7. \A j \in DOMAIN saved \ (doomed \cup DOMAIN Resources(manifests)) :
            Gone(j) \in DOMAIN cluster' => InBundle(Gone(j))
    BY <2>3, <2>4, <2>5
  <2> QED
    BY <2>2, <2>6, <2>7 DEF GoneInv
<1>4. CASE Deleted \/ UNCHANGED vars
  <2>1. /\ phase \in {"delete", "apply"} /\ tool' = tool /\ saved' = saved
        /\ manifests' = manifests /\ doomed' = doomed /\ cluster' = cluster
    BY <1>4 DEF Deleted, vars, stateVars
  <2>2. Resources(manifests)' = Resources(manifests)
    BY <2>1
  <2> QED
    BY <2>1, <2>2 DEF GoneInv
<1>5. CASE StartProvider \/ StartKaexpand \/ ExpandOne \/ Expanded \/ Diff
           \/ Refuse \/ Confirm \/ Save \/ Return
  <2>1. tool' # "provider" \/ phase' \notin {"delete", "apply"}
    BY <1>5 DEF StartProvider, StartKaexpand, Begins, ExpandOne, Expanded, Diff,
                Refuse, Confirm, Save, Return
  <2> QED
    BY <2>1
<1> QED
  BY <1>1, <1>2, <1>3, <1>4, <1>5 DEF Next

\* What is applied stands.
LEMMA StandsStep ==
    ASSUME OneManifestPerObject, BundleInv, HoldsInv, StandsInv, [Next]_vars
    PROVE  StandsInv'
<1> SUFFICES ASSUME tool' = "provider", phase' = "apply", ~trouble'
             PROVE  StandsInv'
  BY DEF StandsInv
<1> DEFINE Object(i) == ObjectNamed(manifests[i].doc)
<1>1. CASE Deleted
  <2>1. phase = "delete" /\ todo' = todo /\ manifests' = manifests
    BY <1>1 DEF Deleted, applyVars
  <2>2. todo = DOMAIN manifests
    BY <2>1 DEF BundleInv, AppliedInv
  <2> QED
    BY <2>1, <2>2 DEF StandsInv
<1>2. CASE ApplyOne
  <2>1. PICK i \in todo :
            /\ todo' = todo \ {i}
            /\ \/ /\ cluster' = Put(Object(i), manifests[i], cluster)
                  /\ trouble' = trouble
               \/ trouble' = TRUE
    BY <1>2 DEF ApplyOne
  <2>2. /\ cluster' = Put(Object(i), manifests[i], cluster)
        /\ trouble' = trouble
    BY <2>1
  <2>3. /\ phase = "apply" /\ tool = "provider" /\ manifests' = manifests
    BY <1>2 DEF ApplyOne
  <2>4. \A j \in DOMAIN manifests \ todo :
            Object(j) \in DOMAIN cluster /\ cluster[Object(j)] = manifests[j]
    BY <2>2, <2>3 DEF StandsInv
  <2>5. i \in DOMAIN manifests
    BY DEF BundleInv, AppliedInv
  <2> DEFINE o == Object(i)
             m == manifests[i]
  <2> HIDE DEF Object
  <2>6. /\ DOMAIN cluster' = DOMAIN cluster \cup {Object(i)}
        /\ cluster'[Object(i)] = manifests[i]
        /\ \A x \in DOMAIN cluster \ {Object(i)} : cluster'[x] = cluster[x]
    <3>1. cluster' = Put(o, m, cluster)
      BY <2>2
    <3> HIDE DEF o, m
    <3>2. /\ DOMAIN cluster' = DOMAIN cluster \cup {o}
          /\ cluster'[o] = m
          /\ \A x \in DOMAIN cluster \ {o} : cluster'[x] = cluster[x]
      BY <3>1 DEF Put, Over
    <3> QED
      BY <3>2 DEF o, m
  <2>7. ASSUME NEW j \in DOMAIN manifests \ (todo \ {i})
        PROVE  Object(j) \in DOMAIN cluster' /\ cluster'[Object(j)] = manifests[j]
    <3>1. CASE j = i
      BY <2>6, <3>1
    <3>2. CASE j # i
      <4>1. Object(j) # Object(i)
        BY <2>3, <2>5, <3>2, ManifestsApart DEF Object
      <4> QED
        BY <2>4, <2>6, <3>2, <4>1
    <3> QED
      BY <3>1, <3>2
  <2> QED
    BY <2>1, <2>3, <2>7 DEF StandsInv, Object
<1>3. CASE UNCHANGED vars
  <2>1. /\ phase' = phase /\ tool' = tool /\ trouble' = trouble /\ todo' = todo
        /\ manifests' = manifests /\ cluster' = cluster
    BY <1>3 DEF vars, applyVars
  <2> QED
    BY <2>1 DEF StandsInv
<1>4. CASE StartProvider \/ StartKaexpand \/ ExpandOne \/ Expanded \/ Diff
           \/ Refuse \/ Confirm \/ Update \/ DeleteOne \/ Save \/ Return
  <2>1. tool' # "provider" \/ phase' # "apply"
    BY <1>4 DEF StartProvider, StartKaexpand, Begins, ExpandOne, Expanded, Diff,
                Refuse, Confirm, Update, DeleteOne, Save, Return
  <2> QED
    BY <2>1
<1> QED
  BY <1>1, <1>2, <1>3, <1>4 DEF Next

\* The files of the directory are what they are meant to be in every step.
LEMMA HoldsStep ==
    ASSUME BundleInv, HoldsInv, [Next]_vars
    PROVE  HoldsInv'
<1>1. CASE StartProvider \/ StartKaexpand
  BY <1>1, HoldsStart
<1>2. CASE ExpandOne
  BY <1>2, HoldsExpandOne
<1>3. CASE /\ [Next]_vars
           /\ ~StartProvider /\ ~StartKaexpand /\ ~ExpandOne
  <2>1. /\ source' = source /\ dir' = dir /\ tool' = tool
        /\ phase' # "idle" => phase # "idle"
    BY <1>3 DEF Next, Expanded, Diff, Refuse, Confirm, Update, DeleteOne, Deleted,
                ApplyOne, Save, Return, vars, walkVars
  <2>2. Fetched(source)' = Fetched(source)
    BY <2>1
  <2>3. ASSUME NEW h PROVE Meant(source, h)' = Meant(source, h)
    BY <2>1 DEF Meant, Reached, FilesRead, Resolve
  <2> QED
    BY <2>1, <2>2, <2>3 DEF HoldsInv
<1> QED
  BY <1>1, <1>2, <1>3

\* Whatever the sources, the order of the walk and the failures before: after
\* a run of the provider that has gone well, each manifest of the source
\* stands in the cluster with the texts that its templates mean it to hold,
\* and what the state had and the source has no more is gone (template.go:
\* 88-155, provider_context.go:153-173, ordered_client.go:50-142, 232-291).
THEOREM SourceIsFollowed ==
    ASSUME NEW A, Assumed(A)
    PROVE  Spec => ClusterFollowsSource
<1> DEFINE Inv == BundleInv /\ FollowInv
<1>1. Init => Inv
  <2>1. Init => FollowInv
    <3>1. DOMAIN <<>> = {}
      OBVIOUS
    <3> QED
      BY <3>1 DEF Init, FollowInv, HoldsInv, ListedInv, GoneInv, StandsInv
  <2> QED
    BY <2>1, BundleInit
<1>2. Inv /\ [Next]_vars => Inv'
  <2> SUFFICES ASSUME Inv, [Next]_vars PROVE Inv'
    OBVIOUS
  <2>1. BundleInv'
    BY BundleStep
  <2>2. HoldsInv'
    BY HoldsStep DEF FollowInv
  <2>3. ListedInv'
    BY ListedStep DEF FollowInv
  <2>4. GoneInv'
    BY GoneStep DEF FollowInv
  <2>5. StandsInv'
    BY StandsStep DEF FollowInv, Assumed
  <2> QED
    BY <2>1, <2>2, <2>3, <2>4, <2>5 DEF FollowInv
<1>3. ASSUME Inv, [Next]_vars, Ends
      PROVE  /\ \A m \in MeantManifests(source) :
                    /\ ObjectNamed(m.doc) \in DOMAIN cluster
                    /\ cluster[ObjectNamed(m.doc)] = m
             /\ \A id \in DOMAIN saved :
                    LET gone == ObjectNamed(saved[id].doc)
                    IN  (\A m \in MeantManifests(source) : ObjectNamed(m.doc) # gone)
                            => gone \notin DOMAIN cluster
  <2>1. phase = "apply" /\ phase' = "idle" /\ tool = "provider" /\ ~trouble
    BY <1>3 DEF Ends
  <2>2. todo = {}
    <3>1. Save
      BY <1>3, <2>1 DEF Next, StartProvider, StartKaexpand, Begins, ExpandOne,
                        Expanded, Diff, Refuse, Confirm, Update, DeleteOne,
                        Deleted, ApplyOne, Return, vars
    <3> QED
      BY <3>1 DEF Save
  <2>3. {manifests[i] : i \in DOMAIN manifests} = MeantManifests(source)
    BY <1>3, <2>1, ManifestsAsMeant DEF FollowInv
  <2>4. \A i \in DOMAIN manifests :
            /\ ObjectNamed(manifests[i].doc) \in DOMAIN cluster
            /\ cluster[ObjectNamed(manifests[i].doc)] = manifests[i]
    BY <1>3, <2>1, <2>2 DEF FollowInv, StandsInv
  <2>5. doomed = {}
    BY <1>3, <2>1 DEF BundleInv, SavedInv
  <2>6. ASSUME NEW id \in DOMAIN saved,
               \A m \in MeantManifests(source) :
                   ObjectNamed(m.doc) # ObjectNamed(saved[id].doc)
        PROVE  ObjectNamed(saved[id].doc) \notin DOMAIN cluster
    <3>1. \A i \in DOMAIN manifests :
              ObjectNamed(manifests[i].doc) # ObjectNamed(saved[id].doc)
      BY <2>3, <2>6
    <3>2. id \notin DOMAIN Resources(manifests)
      <4> SUFFICES ASSUME id \in DOMAIN Resources(manifests) PROVE FALSE
        OBVIOUS
      <4>1. PICK i \in DOMAIN manifests : ManifestId(manifests[i].doc) = id
        BY DEF Resources
      <4>2. manifests[i].doc \in FromDocs /\ IsManifest(manifests[i].doc)
        <5>1. manifests \in Seq(Entries(FromDocs, FromTexts))
          BY <1>3 DEF BundleInv, DirInv
        <5>2. manifests[i] \in Entries(FromDocs, FromTexts)
          BY <5>1
        <5> QED
          BY <5>2 DEF Entries
      <4>3. PICK src \in Sources : manifests[i].doc \in Docs(src)
        BY <1>3, <4>2, FromSources DEF BundleInv
      <4>4. WellFormed(manifests[i].doc)
        BY <4>2, <4>3 DEF Assumed, SourcesAreWellFormed
      <4>5. WellFormed(saved[id].doc) /\ ManifestId(saved[id].doc) = id
        BY <1>3 DEF BundleInv, SavedInv, Assumed, SourcesAreWellFormed
      <4>6. /\ manifests[i].doc.api = saved[id].doc.api
            /\ manifests[i].doc.ns = saved[id].doc.ns
            /\ manifests[i].doc.name = saved[id].doc.name
            /\ <<manifests[i].doc.kind>> = <<saved[id].doc.kind>>
        <5> DEFINE d == manifests[i].doc
                   e == saved[id].doc
        <5> HIDE DEF d, e
        <5>1. [api |-> d.api, kind |-> <<d.kind>>, ns |-> d.ns, name |-> d.name]
              = [api |-> e.api, kind |-> <<e.kind>>, ns |-> e.ns, name |-> e.name]
          BY <4>1, <4>4, <4>5, IdsReadBack DEF d, e
        <5> QED
          BY <5>1 DEF d, e
      <4>7. manifests[i].doc.kind = saved[id].doc.kind
        BY <4>6
      <4>8. ObjectNamed(manifests[i].doc) = ObjectNamed(saved[id].doc)
        BY <4>6, <4>7 DEF ObjectNamed
      <4> QED
        BY <3>1, <4>8
    <3> QED
      BY <1>3, <2>1, <2>5, <3>1, <3>2 DEF FollowInv, GoneInv
  <2> QED
    BY <2>3, <2>4, <2>6
<1>4. Inv /\ [Next]_vars =>
          (Ends =>
              /\ \A m \in MeantManifests(source) :
                     /\ ObjectNamed(m.doc) \in DOMAIN cluster
                     /\ cluster[ObjectNamed(m.doc)] = m
              /\ \A id \in DOMAIN saved :
                     LET gone == ObjectNamed(saved[id].doc)
                     IN  (\A m \in MeantManifests(source) : ObjectNamed(m.doc) # gone)
                             => gone \notin DOMAIN cluster)
  BY <1>3
<1> QED
  BY <1>1, <1>2, <1>4, PTL DEF Spec, ClusterFollowsSource

=============================================================================
