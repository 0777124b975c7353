SPECIFICATION Spec
INVARIANTS TypeOK ClosedOnce NothingLost ChildrenFirst BorrowedKept NoDangling
