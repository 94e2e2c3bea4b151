---------------------------- MODULE RegionRender ----------------------------
(***************************************************************************)
(* What CpuRenderer::render computes: the request is checked, its region   *)
(* clipped and divided into tiles, each tile is cut out of the source, run *)
(* through the nodes of the edit graph and copied to its place in the      *)
(* output, in whatever order the threads come to it, and the finished      *)
(* tiles may be cached.  TileRender has the threads, the budget of the     *)
(* cache and the ways a call ends early; here a tile is one step.          *)
(*                                                                         *)
(* A graph is its chain of adjustments; a hash stands for what it is taken *)
(* of.  One source image; requests differ in region, tile size, threads,   *)
(* graph and the masks supplied.                                           *)
(*                                                                         *)
(* A definition named Operator_Defect is a faulty variant of Operator.     *)
(***************************************************************************)
EXTENDS TileGeometry, PixelFormats, FiniteSets, SequencesExt

CONSTANTS
  Width, Height,     \* of the source image
  Source,            \* its pixels, in row-major order
  Masks,             \* Masks[h]: width, height and samples of the mask with content hash h
  Requests,          \* what callers ask for
  MaximumOutput,     \* maximum_output_bytes, in pixels
  MaximumTransient,  \* maximum_transient_bytes, in pixels
  MaximumWorkers,    \* kMaximumWorkers
  MaxCalls           \* bound on the calls made

NoContent == "none"

ASSUME RegionAssumption ==
  /\ Width \in Coordinates \ {0} /\ Height \in Coordinates \ {0}
  /\ DOMAIN Source = 0 .. Width * Height - 1
  /\ \A q \in Requests : q.roi \in Rectangles /\ q.size \in Coordinates /\ q.workers \in Coordinates
  /\ NoContent \notin DOMAIN Masks
  /\ \A q \in Requests : \A i \in DOMAIN q.views : q.views[i].content \in DOMAIN Masks
  /\ MaximumOutput \in Nat /\ MaximumTransient \in Nat
  /\ MaximumWorkers \in Nat /\ MaxCalls \in Nat

\* Images, masks and edit graphs that can be made: a pixel without alpha has no
\* colour (ImageF32), a mask has a sample for each of its pixels.
ASSUME ImageAssumption ==
  /\ \A o \in DOMAIN Source :
       /\ Source[o] \in [colour : Int, alpha : 0..Unit]
       /\ Source[o].alpha = 0 => Source[o].colour = 0
  /\ \A h \in DOMAIN Masks :
       Masks[h].samples \in [0 .. Masks[h].width * Masks[h].height - 1 -> Samples]
  /\ \A q \in Requests :
       /\ q.graph \in Seq(Range(q.graph))
       /\ \A i \in DOMAIN q.graph : IsAdjustment(q.graph[i])

VARIABLES
  phase,   \* "idle", "rendering", "done", "empty_region" or "failed"
  job,     \* what render prepared: graph, grid, threads, and the pixels asked for
  todo,    \* indices of the tiles not yet in the output
  output,  \* the samples of the output image
  cache,   \* the cached tiles of earlier images
  calls    \* calls made so far

vars == <<phase, job, todo, output, cache, calls>>

(***************************************************************************)
(* compile_linear_chain: the masks                                         *)
(***************************************************************************)
NoMask == [id |-> "none", hash |-> NoContent, inverted |-> FALSE]
Masked(graph) == {i \in DOMAIN graph : graph[i].mask # NoMask}

\* exposure_node_json of the project store, and the chain that
\* migrated_graph_for_exposure makes of a v1 snapshot's exposure.
Exposure(ev) ==
  [kind |-> "exposure", ev |-> ev, points |-> <<>>, enabled |-> TRUE, opacity |-> <<1, 1>>,
   mask |-> NoMask]

MigratedGraph(total) ==
  LET step  == IF total < 0 THEN -ExposureLimit ELSE ExposureLimit
      whole == Magnitude(total) \div ExposureLimit
      rest  == total - whole * step
  IN  [i \in 1..whole |-> Exposure(step)] \o (IF rest = 0 THEN <<>> ELSE <<Exposure(rest)>>)

\* A view is the id and the content hash a caller claims, and the content it
\* supplies.
Honest(view) == view.claimed = view.content
Fitting(view) == Masks[view.content].width = Width /\ Masks[view.content].height = Height

\* The view a node's mask is looked up by.
Supplied(views, id) == {v \in {views[i] : i \in DOMAIN views} : v.id = id}

\* Unique ids, contents that have the claimed hash and the size of the source,
\* and for each mask of the graph a view of the hash the graph names.
MasksAccepted(graph, views) ==
  /\ \A i, j \in DOMAIN views : views[i].id = views[j].id => i = j
  /\ \A i \in DOMAIN views : Honest(views[i]) /\ Fitting(views[i])
  /\ \A i \in Masked(graph) :
       \E v \in Supplied(views, graph[i].mask.id) : v.claimed = graph[i].mask.hash

\* What the nodes are executed with.
MaskOf(node, views) ==
  IF node.mask = NoMask THEN NoContent
  ELSE (CHOOSE v \in Supplied(views, node.mask.id) : TRUE).content

Executable(graph, views) ==
  [i \in DOMAIN graph |-> [node |-> graph[i], content |-> MaskOf(graph[i], views)]]

(***************************************************************************)
(* validate_request, make_tile_grid, prepare_render and the beginning of   *)
(* render: what is refused                                                 *)
(***************************************************************************)
Threads(workers, grid) == Smaller(workers, grid.count)

MemorySuffices(roi, grid, workers) ==
  /\ roi.width * roi.height <= MaximumOutput
  /\ PeakTile(roi, grid.size) * Threads(workers, grid) <= MaximumTransient

Accepted(q) ==
  LET roi  == Clipped(Width, Height, q.roi)
      grid == TileGrid(roi, q.size)
  IN  /\ ~IsEmpty(q.roi) /\ Intersects(Width, Height, q.roi)
      /\ q.size \in 1..MaximumTileSize
      /\ q.workers \in 1..MaximumWorkers
      /\ grid.count \in 1..MaximumTiles
      /\ MasksAccepted(q.graph, q.views)
      /\ MemorySuffices(roi, grid, q.workers)

(***************************************************************************)
(* A tile                                                                  *)
(***************************************************************************)

\* Variant: the mask is read at the coordinates of the tile.
CoverageAt_TileCoordinates(executable, tile, x, y) ==
  IF executable.content = NoContent THEN executable.node.opacity
  ELSE LET mask   == Masks[executable.content]
           sample == mask.samples[Offset(mask.width, x, y)]
       IN  <<executable.node.opacity[1]
               * (IF executable.node.mask.inverted THEN Maximum - sample ELSE sample),
             executable.node.opacity[2] * Maximum>>

\* mask_coverage at a pixel of a tile.
CoverageAt(executable, tile, x, y) ==
  IF executable.content = NoContent THEN executable.node.opacity
  ELSE LET mask   == Masks[executable.content]
           sample == mask.samples[Offset(mask.width, tile.x + x, tile.y + y)]
       IN  <<executable.node.opacity[1]
               * (IF executable.node.mask.inverted THEN Maximum - sample ELSE sample),
             executable.node.opacity[2] * Maximum>>

Area(tile) == tile.width * tile.height

\* render_tile_samples: rows of the source, then node after node.
TileSamples(chain, tile) ==
  [k \in 0 .. Area(tile) - 1 |->
     LET x == k % tile.width
         y == k \div tile.width
     IN  Developed([i \in DOMAIN chain |-> [node     |-> chain[i].node,
                                            coverage |-> CoverageAt(chain[i], tile, x, y)]],
                   Source[Offset(Width, tile.x + x, tile.y + y)])]

\* Where pixel k of a tile is in the output.
PlaceOf(roi, tile, k) ==
  Offset(roi.width, tile.x - roi.x + (k % tile.width), tile.y - roi.y + (k \div tile.width))

CopyToOutput(samples, out, roi, tile) ==
  [p \in DOMAIN out |->
     IF \E k \in DOMAIN samples : PlaceOf(roi, tile, k) = p
     THEN samples[CHOOSE k \in DOMAIN samples : PlaceOf(roi, tile, k) = p]
     ELSE out[p]]

CopyFromOutput(out, roi, tile) ==
  [k \in 0 .. Area(tile) - 1 |-> out[PlaceOf(roi, tile, k)]]

\* make_cache_key: the identity, in which the size of the tiles and the number
\* of threads are not, and the rectangle of the tile.
Key(tile) == [graph |-> job.graph, roi |-> job.grid.roi, tile |-> tile]

(***************************************************************************)
(* A call                                                                  *)
(***************************************************************************)
Blank == [colour |-> 0, alpha |-> 0]

\* The pixels of the image in the region, one by one.
AskedFor(roi) ==
  {p \in (0..(Width - 1)) \X (0..(Height - 1)) :
     /\ roi.x <= p[1] /\ p[1] - roi.x < roi.width
     /\ roi.y <= p[2] /\ p[2] - roi.y < roi.height}

Nowhere == [x |-> 0, y |-> 0, width |-> 0, height |-> 0]
NoJob(asked) ==
  [graph |-> <<>>, chain |-> <<>>, grid |-> TileGrid(Nowhere, 1), threads |-> 0, asked |-> asked]

Init ==
  /\ phase = "idle"
  /\ job = NoJob({})
  /\ todo = {}
  /\ output = <<>>
  /\ cache = {}
  /\ calls = 0

Begin(q) ==
  /\ phase # "rendering" /\ calls < MaxCalls
  /\ Accepted(q)
  /\ LET grid == TileGrid(Clipped(Width, Height, q.roi), q.size) IN
       /\ job' = [graph   |-> q.graph,
                  chain   |-> Executable(q.graph, q.views),
                  grid    |-> grid,
                  threads |-> Threads(q.workers, grid),
                  asked   |-> AskedFor(q.roi)]
       /\ todo' = Indices(grid)
       /\ output' = [p \in 0 .. Area(grid.roi) - 1 |-> Blank]
  /\ phase' = "rendering"
  /\ calls' = calls + 1
  /\ UNCHANGED cache

\* A refused request changes nothing; a region beside the image has an error of
\* its own.
Refuse(q) ==
  /\ phase # "rendering" /\ calls < MaxCalls
  /\ ~Accepted(q)
  /\ phase' = IF ~IsEmpty(q.roi) /\ ~Intersects(Width, Height, q.roi) THEN "empty_region"
              ELSE "failed"
  /\ job' = NoJob(AskedFor(q.roi))
  /\ calls' = calls + 1
  /\ UNCHANGED <<todo, output, cache>>

\* A thread finds a tile in the cache or renders it.  Threads claim tiles in
\* order, so only the other threads can still be at earlier ones.
RenderTile(i) ==
  LET tile   == TileAt(job.grid, i)
      cached == {entry \in cache : entry.key = Key(tile)}
  IN  /\ phase = "rendering" /\ i \in todo
      /\ Cardinality({j \in todo : j < i}) < job.threads
      /\ \E samples \in IF cached # {} THEN {entry.samples : entry \in cached}
                        ELSE {TileSamples(job.chain, tile)} :
           IF \E k \in DOMAIN samples : samples[k] = NumericFailure
           THEN phase' = "failed" /\ UNCHANGED <<todo, output>>
           ELSE /\ output' = CopyToOutput(samples, output, job.grid.roi, tile)
                /\ todo' = todo \ {i}
                /\ UNCHANGED phase
      /\ UNCHANGED <<job, cache, calls>>

\* All tiles are done; those that are admitted to the cache are read back from
\* the output, and a tile that is there stays.
Finish ==
  /\ phase = "rendering" /\ todo = {}
  /\ \E admitted \in {{}, Indices(job.grid)} :
       LET tiles  == {TileAt(job.grid, i) : i \in admitted}
           unseen == {tile \in tiles : \A entry \in cache : entry.key # Key(tile)}
       IN  cache' = cache \cup
                      {[key     |-> Key(tile),
                        samples |-> CopyFromOutput(output, job.grid.roi, tile)] : tile \in unseen}
  /\ phase' = "done"
  /\ UNCHANGED <<job, todo, output, calls>>

Next ==
  \/ \E q \in Requests : Begin(q) \/ Refuse(q)
  \/ \E i \in todo : RenderTile(i)
  \/ Finish

Spec == Init /\ [][Next]_vars

(***************************************************************************)
(* Properties                                                              *)
(***************************************************************************)

\* The tiles of an accepted request are parts of its region, no two share a
\* pixel, and each pixel is in one: threads that own different tiles never
\* write the same sample, and none is left unwritten.  As many of any tile as
\* there are threads fit the transient memory.  A region refused as lying
\* beside the image has no pixel of it, however far it reaches.
TilesFit ==
  /\ phase = "empty_region" => job.asked = {}
  /\ phase = "rendering" =>
       LET grid == job.grid IN
         /\ Pixels(grid.roi) = job.asked
         /\ \A p \in job.asked : \E i \in Indices(grid) : p \in Pixels(TileAt(grid, i))
         /\ \A i \in Indices(grid) : Pixels(TileAt(grid, i)) \subseteq job.asked
         /\ \A i, j \in Indices(grid) :
              i # j => Pixels(TileAt(grid, i)) \cap Pixels(TileAt(grid, j)) = {}
         /\ \A i \in Indices(grid) : Area(TileAt(grid, i)) * job.threads <= MaximumTransient

\* How much of a node reaches pixel o of the source: the mask is the one the
\* graph names.
Reach(node, o) ==
  IF node.mask = NoMask THEN node.opacity
  ELSE LET sample == Masks[node.mask.hash].samples[o] IN
         <<node.opacity[1] * (IF node.mask.inverted THEN Maximum - sample ELSE sample),
           node.opacity[2] * Maximum>>

Reference(graph, o) ==
  Developed([i \in DOMAIN graph |-> [node |-> graph[i], coverage |-> Reach(graph[i], o)]], Source[o])

\* Where pixel p of the source is in the output.
Rendered(p) == output[Offset(job.grid.roi.width, p[1] - job.grid.roi.x, p[2] - job.grid.roi.y)]

\* A finished image has exactly the pixels that were asked for and are in the
\* source, each as the graph makes it of the source without any tiles: whatever
\* region, tile size and threads, whatever other masks were supplied, and
\* whichever tiles came from an earlier image.
ImageIsRegion ==
  phase = "done" =>
    /\ Cardinality(job.asked) = Cardinality(DOMAIN output)
    /\ \A p \in job.asked : Rendered(p) = Reference(job.graph, Offset(Width, p[1], p[2]))

Untouched(graph, o) == \A i \in DOMAIN graph : Skipped(graph[i]) \/ Reach(graph[i], o)[1] = 0

OnlyExposures(graph) ==
  \A i \in DOMAIN graph :
    /\ graph[i].kind = "exposure" /\ graph[i].enabled /\ graph[i].mask = NoMask
    /\ graph[i].opacity[1] = graph[i].opacity[2]

TotalExposure(graph) == FoldLeft(LAMBDA sum, node : sum + node.ev, 0, graph)

At(p) == Offset(Width, p[1], p[2])
Sample(p) == Exported(Rendered(p), 0)

\* A transparent pixel stays clear.
ClearStaysClear ==
  phase = "done" => \A p \in job.asked : Source[At(p)].alpha = 0 => Sample(p) = 0

\* Where no adjustment reaches, the exported sample is the source's.
UntouchedComesBack ==
  phase = "done" =>
    \A p \in job.asked, s \in Samples :
      Source[At(p)] = Opaque(s) /\ Untouched(job.graph, At(p)) => Sample(p) = s

\* The roundings of n nodes and of the decoded sample, each by at most one part
\* in Significand, amount to less than a sample: up to 255 nodes in the code.
RoundingsAreSmall(n) == (Maximum + 1) * (n + 1) <= Significand

\* On no step of the chain the sample becomes so small that a float has fewer
\* significant bits for it.
StaysNormal(graph, s) ==
  \A k \in 0..Len(graph) :
    LET scale == Exp2[TotalExposure(SubSeq(graph, 1, k))] IN
      s = 0 \/ s * Unit * scale[1] >= Maximum * Significand * scale[2]

\* A chain of exposures, as edits and the migration of a v1 project make it,
\* differs by at most one sample from the single exposure of their sum, which
\* previews and v1 projects apply, although each is rounded and none is
\* clipped: as long as the chain is not too long, no step of it loses the
\* sample's bits, and none leaves the range of floats, which fails the call.
ChainIsSingle ==
  phase = "done" /\ OnlyExposures(job.graph) /\ RoundingsAreSmall(Len(job.graph)) =>
    \A p \in job.asked, s \in Samples :
      Source[At(p)] = Opaque(s) /\ StaysNormal(job.graph, s) =>
        Magnitude(Sample(p) - Brightened(s, TotalExposure(job.graph))) <= 1

\* Editing does not wear pixels out: clear ones stay clear, untouched samples
\* come back as they were decoded, and a chain of exposures whose samples keep
\* their bits rounds to within one sample of the single exposure.
ExportIsFaithful == ClearStaysClear /\ UntouchedComesBack /\ ChainIsSingle
=============================================================================
