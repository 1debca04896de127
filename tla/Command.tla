--------------------------------- MODULE Command ---------------------------------
(***************************************************************************)
(* The commands that prepare a panorama (src/multimedia/command.cpp): crop *)
(* it into tiles and encode them, by rate in batches of some tiles         *)
(* (crop_scale_transcode) or by qp one at a time (crop_scale_package), put *)
(* them into containers, segment them for DASH, and merge the tiles' mpd   *)
(* documents into one.  A mesh is the directory of one rate or qp; what    *)
(* runs outside (ffmpeg, MP4Box) may fail, which nobody looks at.          *)
(***************************************************************************)
EXTENDS Naturals, Sequences, FiniteSets, SequencesExt

CONSTANTS WCrop, HCrop,  \* command::wcrop, hcrop
          Qps,           \* quantizers the panorama is encoded with
          Stride,        \* pace_control::stride
          MaxFailures    \* bound: invocations of ffmpeg or MP4Box that fail

ASSUME CommandAssumption ==
    /\ WCrop \in Nat \ {0} /\ HCrop \in Nat \ {0} /\ Stride \in Nat \ {0}
    /\ IsFiniteSet(Qps)
    /\ MaxFailures \in Nat

VARIABLES
    job,       \* the command in progress and how far it is
    failures,  \* how many invocations have failed
    h264,      \* the rate mesh: tiles in its directory h264
    packed,    \* ... and in mp4
    mp4, dash, \* each qp mesh: tiles in its directories mp4 and dash
    packaged, segmented, \* qp meshes that have these directories
    stray,     \* qp meshes with a document beside the containers in mp4
    unmerged,  \* tile documents the merge has still to read
    document   \* the document merged: its adaptation sets in order

files == <<h264, packed, mp4, dash, packaged, segmented, stray>>
vars == <<job, failures, files, unmerged, document>>

Tiles == (0..(WCrop - 1)) \X (0..(HCrop - 1))   \* column and row
Idle == <<"idle">>

Init ==
    /\ job = Idle /\ failures = 0
    /\ h264 = {} /\ packed = {}
    /\ mp4 = [q \in Qps |-> {}] /\ dash = [q \in Qps |-> {}]
    /\ packaged = {} /\ segmented = {} /\ stray = {}
    /\ unmerged = {} /\ document = <<>>

(* What one invocation for some tiles leaves in a directory.               *)
Produce(directory, tiles, result) ==
    \/ result = directory \cup tiles /\ UNCHANGED failures
    \/ /\ failures < MaxFailures
       /\ failures' = failures + 1
       /\ result = directory

---------------------------------------------------------------------------------
(* By rate.                                                                *)

CropScaleTranscode ==
    /\ job = Idle
    /\ job' = <<"transcode", 0>>
    /\ UNCHANGED <<failures, files, unmerged, document>>

(* The number of tile (i, j) in the nested loops.                          *)
Number(t) == t[1] * HCrop + t[2]

(* The tiles the loops do not pass over for this pace.                     *)
Batch(first) == {t \in Tiles : ~(Number(t) < first \/ Number(t) >= first + Stride)}

(* A plausible slip: every batch begins with an empty directory.           *)
MutantPrepared(first) == {}

(* make_empty_directory for the first batch, create_directories later.     *)
Prepared(first) == IF first = 0 THEN {} ELSE h264

(* One batch: one invocation of ffmpeg encodes its tiles; then the         *)
(* function calls itself for the next.                                     *)
TranscodeBatch ==
    /\ job[1] = "transcode"
    /\ IF job[2] < WCrop * HCrop
       THEN /\ Produce(Prepared(job[2]), Batch(job[2]), h264')
            /\ job' = <<"transcode", job[2] + Stride>>
       ELSE job' = <<"transcoded">> /\ UNCHANGED <<failures, h264>>
    /\ UNCHANGED <<packed, mp4, dash, packaged, segmented, stray, unmerged, document>>

(* package_container: empty the directory mp4, then MP4Box for each tile.  *)
(* (It works on rate meshes, dash_segment on qp meshes.)                   *)
PackageContainer ==
    /\ job = <<"transcoded">>
    /\ Produce({}, h264, packed')
    /\ job' = Idle
    /\ UNCHANGED <<h264, mp4, dash, packaged, segmented, stray, unmerged, document>>

---------------------------------------------------------------------------------
(* By qp.                                                                  *)

CropScalePackage(q) ==
    /\ job = Idle
    /\ job' = <<"package", q, 0>>
    /\ UNCHANGED <<failures, files, unmerged, document>>

(* Row by row; the directory is made if it is not there, never emptied.    *)
PackageTile ==
    /\ job[1] = "package"
    /\ LET q == job[2]
           done == job[3]
           tile == <<done % WCrop, done \div WCrop>>
       IN  IF done < WCrop * HCrop
           THEN /\ packaged' = packaged \cup {q}
                /\ \E made \in SUBSET Tiles :
                      /\ Produce(mp4[q], {tile}, made)
                      /\ mp4' = [mp4 EXCEPT ![q] = made]
                /\ job' = <<"package", q, done + 1>>
           ELSE job' = Idle /\ UNCHANGED <<failures, mp4, packaged>>
    /\ UNCHANGED <<h264, packed, dash, segmented, stray, unmerged, document>>

(* mesh_qp_directory: the directories of this crop named after a qp.       *)
MeshQpDirectory == packaged

(* dash_segment: for each qp mesh an empty directory, then mp4box for each *)
(* entry of mp4, which is asserted to be a container.                      *)
DashSegment ==
    /\ job = Idle
    /\ MeshQpDirectory \cap stray = {}
    /\ segmented' = MeshQpDirectory
    /\ \/ dash' = mp4 /\ UNCHANGED failures
       \/ /\ failures < MaxFailures
          /\ failures' = failures + 1
          /\ \E q \in packaged : \E t \in mp4[q] : dash' = [mp4 EXCEPT ![q] = @ \ {t}]
    /\ UNCHANGED <<job, h264, packed, mp4, packaged, stray, unmerged, document>>

(* dash_segment of one container: its document is put beside it.           *)
DashSegmentOne ==
    /\ job = Idle
    /\ \E q \in MeshQpDirectory : mp4[q] # {} /\ stray' = stray \cup {q}
    /\ UNCHANGED <<job, failures, h264, packed, mp4, dash, packaged, segmented,
                   unmerged, document>>

---------------------------------------------------------------------------------
(* merge_dash_mpd.                                                         *)

(* mesh_directories: as mesh_qp_directory, by a regex kept for the crop.   *)
MeshDirectories == packaged

(* tile_path_list: what the directories dash of all meshes hold.           *)
TilePathList == {file \in Tiles \X MeshDirectories : file[1] \in dash[file[2]]}

(* tile_mpd_path_map: the documents of all qp meshes, by coordinate.  A    *)
(* mesh that was not segmented, or not one tile of it, is an error.        *)
MergeDashMpd ==
    /\ job = Idle
    /\ MeshDirectories # {} /\ segmented = MeshDirectories
    /\ \A q \in MeshDirectories : dash[q] # {}
    /\ unmerged' = {file \in Tiles \X Qps : file[1] \in dash[file[2]]}
    /\ document' = <<>>
    /\ job' = <<"merge", 0>>
    /\ UNCHANGED <<failures, files>>

(* std::map's order of the coordinates.                                    *)
Earlier(s, t) == s[1] < t[1] \/ (s[1] = t[1] /\ s[2] < t[2])

(* spatial_relationship, split at the commas.                              *)
SpatialRelationship(t) == <<0, t[1], t[2], 1, 1, WCrop, HCrop>>

(* node_range: the Representation of a tile's document.  MP4Box puts the   *)
(* SegmentTemplate into it (template) or into the set.                     *)
Representation(q, template) == [qp |-> q, id |-> 0, template |-> template]

(* The set's SegmentTemplate is copied or moved into the Representation.   *)
WithTemplate(representation) == [representation EXCEPT !.template = TRUE]

(* A plausible slip: an appended Representation shares the set's template. *)
MutantAppended(q, template) == Representation(q, template)

(* A Representation appended to the set of an earlier document: it brings  *)
(* its own SegmentTemplate, or is given a copy of its set's.               *)
Appended(q, template) == WithTemplate(Representation(q, template))

(* The first document of a coordinate: the set is cloned with its          *)
(* Representation, and a SegmentTemplate of the set moves into it.         *)
Cloned(t, q, template) ==
    [mime |-> "video", srd |-> SpatialRelationship(t),
     represents |-> <<WithTemplate(Representation(q, template))>>]

(* clone_element_if_null: there is a set for this coordinate already.      *)
NotNull(t) == document # <<>> /\ Last(document).srd = SpatialRelationship(t)

(* SetAttribute("id", ++represent_index) on the last Representation.       *)
Numbered(set, id) == [set EXCEPT !.represents[Len(set.represents)].id = id]

(* One document is merged into the set of its coordinate.                  *)
MergeOne ==
    /\ job[1] = "merge"
    /\ \E source \in unmerged, template \in BOOLEAN :
          LET t == source[1]
          IN  /\ \A other \in unmerged : ~Earlier(other[1], t)
              /\ document' =
                    IF NotNull(t)
                    THEN Front(document)
                           \o <<Numbered([Last(document) EXCEPT !.represents =
                                            Append(@, Appended(source[2], template))],
                                         job[2] + 1)>>
                    ELSE Append(document, Numbered(Cloned(t, source[2], template),
                                                   job[2] + 1))
              /\ unmerged' = unmerged \ {source}
    /\ job' = <<"merge", job[2] + 1>>
    /\ UNCHANGED <<failures, files>>

Merged ==
    /\ job[1] = "merge" /\ unmerged = {}
    /\ job' = <<"merged">>
    /\ UNCHANGED <<failures, files, unmerged, document>>

Next ==
    \/ CropScaleTranscode \/ TranscodeBatch \/ PackageContainer
    \/ (\E q \in Qps : CropScalePackage(q)) \/ PackageTile
    \/ DashSegment \/ DashSegmentOne
    \/ MergeDashMpd \/ MergeOne \/ Merged

Spec == Init /\ [][Next]_vars

---------------------------------------------------------------------------------
(* Properties.                                                             *)

(* The batches encode every tile, whether or not the stride divides their  *)
(* number, and none deletes what an earlier one made (command.cpp:165-224).*)
BatchesComplete ==
    job = <<"transcoded">> /\ failures = 0 => h264 = Tiles

(* The merged document has a Representation for every tile document read,  *)
(* once, in the set of its coordinate, with a SegmentTemplate and an id of *)
(* its own (command.cpp:399-455).                                          *)
MergeComplete ==
    LET represents == UNION {{<<i, j>> : j \in 1..Len(document[i].represents)} :
                                i \in 1..Len(document)}
        Of(p) == document[p[1]].represents[p[2]]
        Coordinate(p) == <<document[p[1]].srd[2], document[p[1]].srd[3]>>
        read == TilePathList \ unmerged
    IN  job[1] \in {"merge", "merged"} =>
          /\ {<<Coordinate(p), Of(p).qp>> : p \in represents} = read
          /\ Cardinality(represents) = Cardinality(read)
          /\ {Of(p).id : p \in represents} = 1..Cardinality(read)
          /\ \A p \in represents : Of(p).template
          /\ \A i, j \in 1..Len(document) :
                document[i].srd = document[j].srd => i = j
==================================================================================
