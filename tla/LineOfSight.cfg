CONSTANT Ends <- Square
SPECIFICATION Spec
INVARIANTS TypeOK ReachesTheEnd FollowsLine NearTheSegment
